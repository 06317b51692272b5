----------------------------- MODULE MCCatalog ------------------------------
(***************************************************************************)
(* An instance of Catalog: one subject and grade, two categories with two  *)
(* lessons and with one, a video each.                                     *)
(***************************************************************************)
EXTENDS Catalog

Math == <<"Math">>
Grade == Append(Math, "2nd grade")
Addition == Append(Grade, "Addition")
Counting == Append(Grade, "Counting")
MCFirstLesson == Append(Addition, "Repeated addition")

Lessons == {MCFirstLesson, Append(Addition, "Number line"),
            Append(Counting, "Skip counting")}

MCDocuments == {Math, Grade, Addition, Counting} \union Lessons
                 \union {Append(l, "video") : l \in Lessons}
=============================================================================
