------------------------------- MODULE MCITS --------------------------------
(***************************************************************************)
(* Instances of ITS: lessons 1 and 2 are in the category Addition,         *)
(* lesson 3 in another; video 1 is listed in both lessons of Addition.     *)
(* A student who taps in the catalog before it has answered can make it    *)
(* take a document below lesson 1 for the lesson.                          *)
(***************************************************************************)
EXTENDS ITS

Addition == <<10>>
Counting == <<20>>

MCCategoryOf == [l \in Lessons |-> IF l = 3 THEN Counting ELSE Addition]

MCListed == [l \in Lessons |-> CASE l = 1 -> {1, 2}
                                 [] l = 2 -> {1}
                                 [] l = 3 -> {3}]

\* Video 2 is the better one of lesson 1.
MCScore == [l \in Lessons |-> [v \in MCListed[l] |-> v]]

MCCatalogRefs == {RefOf(l) : l \in Lessons} \union {Append(RefOf(1), 2)}
=============================================================================
