----------------------------- MODULE MCBookings -----------------------------
(***************************************************************************)
(* Small instances of Bookings for TLC.                                    *)
(***************************************************************************)
EXTENDS Bookings, TLC

CONSTANTS cut, chair, anna, bob, mia, leo

OneChair == {[staff |-> anna, resource |-> chair]}
TwoPeopleOneChair == {[staff |-> anna, resource |-> chair], [staff |-> bob, resource |-> chair]}

CutAnywhere == [s \in Services |-> Places]
CutTakesOne == [s \in Services |-> 1]
Tight == {[before |-> 0, after |-> 0]}
TightOrWide == {[before |-> 0, after |-> 0], [before |-> 0, after |-> 1]}

OwnerAlone == [m \in Sessions |-> "owner"]
OwnerAndStaff == [m \in Sessions |-> IF m = mia THEN "owner" ELSE "staff"]

ApptSymmetry == Permutations(Appts)
=============================================================================
