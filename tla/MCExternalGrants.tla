--------------------------- MODULE MCExternalGrants --------------------------
(***************************************************************************)
(* Small instances of ExternalGrants for TLC.                              *)
(***************************************************************************)
EXTENDS ExternalGrants, TLC

CONSTANTS s1, s2, a1, a2

Nobody == [subject |-> Unknown, account |-> Unknown]
FirstBefore == [s \in Staff |->
    IF s = s1 THEN [subject |-> a1, account |-> a1] ELSE Nobody]
TokensEach == [a \in Accounts |-> IF a = a1 THEN 2 ELSE 1]
=============================================================================
