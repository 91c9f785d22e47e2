--------------------------- MODULE MCWorkPipeline ---------------------------
(* The work pipeline with few rows, for TLC. *)
EXTENDS WorkPipeline, TLC

CONSTANTS r1, r2, r3

\* Two calls of owners and one of a member
AllRequests == {r1, r2, r3}
TwoOwners == {r1, r2}

\* The owners' calls are alike
OwnerSymmetry == Permutations(TwoOwners)
=============================================================================
