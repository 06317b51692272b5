------------------------------- MODULE MCApp --------------------------------
(***************************************************************************)
(* An instance of App: lessons 1 and 2 in one category, lesson 3 in        *)
(* another; video 1 is listed in lessons 1 and 2.                          *)
(***************************************************************************)
EXTENDS App

Addition == <<10>>
Counting == <<20>>

MCCategoryOf == [l \in Lessons |-> IF l = 3 THEN Counting ELSE Addition]

MCListed == [l \in Lessons |-> IF l = 3 THEN {3} ELSE {1}]

MCScore == [l \in Lessons |-> [v \in MCListed[l] |-> v]]

\* The names of the categories, the lessons and the videos.
MCNames == {Addition[1], Counting[1]} \union Lessons

\* Taps before the answer leave the catalog anywhere.
MCCatalogRefs == UNION {[1 .. n -> MCNames] : n \in 2 .. MaxRequests - 1}
=============================================================================
