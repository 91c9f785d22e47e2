--------------------------- MODULE MCBookingTrail ---------------------------
(* One appointment and one client, with an invoice, a waiting list entry and *)
(* two calls at a time, for TLC.                                             *)
EXTENDS BookingTrail, TLC

RequestSymmetry == Permutations(Requests)
=============================================================================
