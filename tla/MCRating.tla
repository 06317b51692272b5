------------------------------ MODULE MCRating ------------------------------
(***************************************************************************)
(* An instance of Rating: video 3 becomes popular with one rating, video 4 *)
(* is popular from the start.  The numbers 11 and 12 stand for two tags.   *)
(***************************************************************************)
EXTENDS Rating

MCPopularity0 == [d \in {1, 2, 3, 4} |-> CASE d = 3 -> 9 [] d = 4 -> 10 [] OTHER -> 0]

MCTags == <<11, 12>>
=============================================================================
