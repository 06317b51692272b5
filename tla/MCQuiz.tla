------------------------------- MODULE MCQuiz -------------------------------
(***************************************************************************)
(* Instances of Quiz: the quiz of Addition has two questions, the quiz of  *)
(* any other category one.                                                 *)
(***************************************************************************)
EXTENDS Quiz

CONSTANT Addition

MCQuizSize == [c \in Categories |-> IF c = Addition THEN 2 ELSE 1]
=============================================================================
