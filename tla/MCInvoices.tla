----------------------------- MODULE MCInvoices -----------------------------
(***************************************************************************)
(* Small instances of Invoices for TLC.                                    *)
(***************************************************************************)
EXTENDS Invoices, TLC

CONSTANTS i1, i2

\* i1 carries the money; i2 has no lines, it is there for its number.
TwoAndNone == [i \in Invoices |-> IF i = i1 THEN 2 ELSE 0]

RequestSymmetry == Permutations(Requests)
=============================================================================
