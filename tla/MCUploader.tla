----------------------------- MODULE MCUploader -----------------------------
(***************************************************************************)
(* An instance of Uploader: files of one, two, ten and eleven questions,   *)
(* the shorter ones with any line missing, and one with an option that     *)
(* contains ": " itself.  Even questions contain it as well.               *)
(***************************************************************************)
EXTENDS Uploader

Names == <<"q1", "q2", "q3", "q4", "q5", "q6", "q7", "q8", "q9", "q10", "q11">>

MCTexts == Range(Names) \union Keys \union {"", "Compute", "a", "b", "c"}

MCQuestion(k, second) ==
  [key \in Keys |->
     CASE key = "Question" -> IF k % 2 = 0 THEN <<"Compute", Names[k]>>
                              ELSE <<Names[k]>>
       [] key = "Answer" -> <<Options[1 + (k % 4)]>>
       [] key = "Option 2" -> second
       [] OTHER -> <<"a">>]

MCFile(c, n, missing) ==
  [category |-> c, questions |-> [k \in 1 .. n |-> MCQuestion(k, <<"b">>)],
   missing |-> missing]

MCFiles ==
  {MCFile("Addition", n, 0) : n \in {1, 2, 10, 11}}
    \union {MCFile("Addition", 1, i) : i \in 1 .. 11}
    \union {MCFile("Addition", 2, i) : i \in 1 .. 18}
    \union {MCFile("Counting", 2, 0)}
    \union {[category |-> "Addition", missing |-> 0,
             questions |-> <<MCQuestion(1, <<"b">>), MCQuestion(2, <<"b", "c">>)>>]}
=============================================================================
