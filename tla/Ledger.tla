------------------------------- MODULE Ledger -------------------------------
(***************************************************************************)
(* What the invoices of a workspace promise about money, whoever edits,    *)
(* pays or cancels at the same time: an account is charged only while it   *)
(* is open and never below what was paid on it, a settled one is left      *)
(* alone until a payment is taken back, and a closed one is final and      *)
(* holds no money.                                                         *)
(***************************************************************************)
EXTENDS Naturals

CONSTANT Accounts

VARIABLES phase, total, paid

vars == <<phase, total, paid>>

\* Of the sums f only that of a changes, and g is what they are then.
OnlyAt(a, f, g) == g[a] \in Nat /\ g = [f EXCEPT ![a] = g[a]]

Settled(a) == paid[a] > 0 /\ paid[a] = total[a]
Live(a) == phase[a] \in {"draft", "open"}

Create(a) ==
    /\ phase[a] = "none"
    /\ \E p \in {"draft", "open"} : phase' = [phase EXCEPT ![a] = p]
    /\ OnlyAt(a, total, total')
    /\ UNCHANGED paid

Issue(a) ==
    /\ phase[a] = "draft" /\ paid[a] = 0
    /\ phase' = [phase EXCEPT ![a] = "open"]
    /\ UNCHANGED <<total, paid>>

Charge(a) ==
    /\ Live(a) /\ ~Settled(a)
    /\ OnlyAt(a, total, total') /\ total'[a] >= paid[a]
    /\ UNCHANGED <<phase, paid>>

\* Money moves the account out of draft.
Pay(a) ==
    /\ Live(a)
    /\ OnlyAt(a, paid, paid') /\ paid[a] < paid'[a] /\ paid'[a] <= total[a]
    /\ phase' = [phase EXCEPT ![a] = "open"]
    /\ UNCHANGED total

TakeBack(a) ==
    /\ phase[a] = "open"
    /\ OnlyAt(a, paid, paid') /\ paid'[a] < paid[a]
    /\ UNCHANGED <<phase, total>>

Close(a) ==
    /\ Live(a) /\ paid[a] = 0
    /\ phase' = [phase EXCEPT ![a] = "closed"]
    /\ UNCHANGED <<total, paid>>

Init ==
    /\ phase = [a \in Accounts |-> "none"]
    /\ total = [a \in Accounts |-> 0]
    /\ paid = [a \in Accounts |-> 0]

Next == \E a \in Accounts :
    Create(a) \/ Issue(a) \/ Charge(a) \/ Pay(a) \/ TakeBack(a) \/ Close(a)

Spec == Init /\ [][Next]_vars
=============================================================================
