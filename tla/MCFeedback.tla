----------------------------- MODULE MCFeedback -----------------------------
(***************************************************************************)
(* An instance of Feedback: one student opens the lesson twice, the other  *)
(* one once.                                                               *)
(***************************************************************************)
EXTENDS Feedback

CONSTANT phone

MCMaxOpens == [d \in Devices |-> IF d = phone THEN 2 ELSE 1]
=============================================================================
