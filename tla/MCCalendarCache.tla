--------------------------- MODULE MCCalendarCache ---------------------------
(***************************************************************************)
(* A small instance of CalendarCache for TLC.                              *)
(***************************************************************************)
EXTENDS CalendarCache, TLC

LoadSymmetry == Permutations(Loads)
=============================================================================
