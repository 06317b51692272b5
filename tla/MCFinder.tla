------------------------------ MODULE MCFinder ------------------------------
(***************************************************************************)
(* An instance of Finder: a page of two categories, one whose categories   *)
(* are mixed, one with a row that has no category; videos of four    *)
(* minutes, of ten, of a second more, of an hour, and a live stream        *)
(* without a duration.                                                     *)
(***************************************************************************)
EXTENDS Finder

MCTables ==
  LET a == <<"Number line", "Addition">>
      b == <<"Repeated addition", "Addition">>
      c == <<"Skip counting", "Counting">>
  IN  {<<a, b, c>>, <<a, c, b>>, <<c, <<"Review">>>>}

Time(d, h, m, s) == [days |-> d, hours |-> h, minutes |-> m, seconds |-> s]

MCLength == [short |-> Time(0, 0, 4, 13), ten |-> Time(0, 0, 10, 0),
             longer |-> Time(0, 0, 10, 1), hour |-> Time(0, 1, 0, 0),
             live |-> Time(0, 0, 0, 0)]

MCVideos == DOMAIN MCLength
=============================================================================
