------------------------------ MODULE Invoices ------------------------------
(***************************************************************************)
(* The invoices of one workspace: their numbers, their lines, their        *)
(* payments and the status the triggers derive from both                   *)
(* (supabase/migrations/0022_finance_invoices.sql), with the requests of   *)
(* the app that read first and write later                                 *)
(* (src/server/services/finance.service.ts, invoicesSupabaseRepository.ts).*)
(*                                                                         *)
(* Every write takes the row lock of its invoice, keeps it until it        *)
(* commits and reads lines and payments after it got it, so what a         *)
(* transaction does under the lock is one step here; what it, or the app,  *)
(* read before the lock is kept in the request's own record and may be     *)
(* stale. A transaction that raises, is cancelled as the victim of a       *)
(* deadlock, or loses its connection changes nothing (Abandon).            *)
(*                                                                         *)
(* Abstractions. A list of lines is written by one statement and is one    *)
(* row here, with its sum; the empty list is no row. Money is counted in   *)
(* minor units. "overdue" is derived when read and never stored.           *)
(***************************************************************************)
EXTENDS Naturals, FiniteSets, FiniteSetsExt

CONSTANTS
    Invoices,      \* ids an invoice can get
    Requests,      \* requests of members with finance.edit, at the same time
    Totals,        \* sums a list of lines can have; 0 is the empty list
    Amounts,       \* payments a member can enter
    MaxLists,      \* bound: lists of lines ever written, for each invoice
    MaxPayments,   \* bound: payments ever recorded
    MaxNumber      \* bound: the last invoice number of the year

ASSUME InvoicesAssumption ==
    /\ Invoices # {}
    /\ Totals \subseteq Nat /\ Amounts \subseteq Nat \ {0}
    /\ MaxLists \in [Invoices -> Nat]
    /\ MaxPayments \in Nat /\ MaxNumber \in Nat

Statuses == {"none", "draft", "sent", "partially_paid", "paid", "void"}

VARIABLES
    invoices,      \* the rows; status "none" is no row
    counter,       \* the committed last_value of the year's counter
    lines,         \* line rows of all invoices
    written,       \* lists ever written on each invoice: the next row's id
    payments,      \* payment rows, the voided ones too
    requests       \* what each request has read so far

vars == <<invoices, counter, lines, written, payments, requests>>

-----------------------------------------------------------------------------
(* The rows                                                                *)

Invoice == [status : Statuses, amount : Nat, number : 0..MaxNumber]
NoInvoice == [status |-> "none", amount |-> 0, number |-> 0]

Line == [id : Nat, of : Invoices, sum : Nat]
Payment == [id : 1..MaxPayments, of : Invoices, sum : Nat, voided : BOOLEAN]

SumOf(rows) == MapThenSumSet(LAMBDA r : r.sum, rows)

LinesOf(i) == {l \in lines : l.of = i}
ActiveOf(i) == {p \in payments : p.of = i /\ ~p.voided}

Exists(i) == invoices[i].status # "none"
Numbers == {invoices[i].number : i \in {j \in Invoices : Exists(j)}}

\* Mutant: an invoice whose payments were all voided stays paid.
StatusUnlessVoided(status, total, paid) ==
    IF status # "void" /\ paid > 0
    THEN IF paid >= total THEN "paid" ELSE "partially_paid"
    ELSE status

\* Mutant: the app's word for an invoice nothing was paid on.
StatusOfTheApp(status, total, paid) ==
    IF status # "void" /\ paid = 0 THEN "unpaid" ELSE status

\* The status recompute_invoice derives; a cancelled invoice is left alone.
StatusFor(status, total, paid) ==
    IF status = "void" THEN status
    ELSE IF paid > 0 /\ paid >= total THEN "paid"
    ELSE IF paid > 0 THEN "partially_paid"
    ELSE IF status \in {"paid", "partially_paid"} THEN "sent"
    ELSE status

\* Mutant: the row is written only when the status changes.
RecomputedOnStatusChange(r, total, paid) ==
    IF StatusFor(r.status, total, paid) = r.status THEN r
    ELSE [r EXCEPT !.amount = total, !.status = StatusFor(r.status, total, paid)]

\* recompute_invoice, with the sums it reads under the lock.
Recomputed(r, total, paid) ==
    [status |-> StatusFor(r.status, total, paid),
     amount |-> IF r.status = "void" THEN r.amount ELSE total,
     number |-> r.number]

-----------------------------------------------------------------------------
(* What a request holds between its reads and its write                    *)

Request == [step : {"idle", "numbered", "balance", "paying", "editing",
                    "issuing", "voiding"},
            of : Invoices, sum : Nat, number : 0..MaxNumber,
            rows : SUBSET Nat]

\* An idle request holds nothing; its invoice is of no meaning.
Nobody == CHOOSE i \in Invoices : TRUE
Idle == [step |-> "idle", of |-> Nobody, sum |-> 0, number |-> 0, rows |-> {}]

Goes(q, r) == requests' = [requests EXCEPT ![q] = r]
At(q, step) == requests[q].step = step

-----------------------------------------------------------------------------
(* Numbers and creation                                                    *)

\* The loop of next_invoice_number: hand-made numbers are skipped.
NextNumbers == {n \in (counter + 1)..MaxNumber :
                  n \notin Numbers /\ (counter + 1)..(n - 1) \subseteq Numbers}

\* The counter's row lock is held until the creating transaction ends.
CounterFree == \A q \in Requests : ~At(q, "numbered")

\* Mutant: the counter is a sequence, a rollback does not set it back.
DrawForGood(q) ==
    /\ At(q, "idle") /\ CounterFree
    /\ \E n \in NextNumbers :
          /\ Goes(q, [Idle EXCEPT !.step = "numbered", !.number = n])
          /\ counter' = n
    /\ UNCHANGED <<invoices, lines, written, payments>>

DrawNumber(q) ==
    /\ At(q, "idle") /\ CounterFree
    /\ \E n \in NextNumbers :
          Goes(q, [Idle EXCEPT !.step = "numbered", !.number = n])
    /\ UNCHANGED <<invoices, counter, lines, written, payments>>

\* The rows a list with this sum adds, and the row ids used by then.
NewLines(i, sum) ==
    IF sum = 0 THEN {} ELSE {[id |-> written[i] + 1, of |-> i, sum |-> sum]}

Writes(i, sum) ==
    /\ sum > 0 => written[i] < MaxLists[i]
    /\ written' = IF sum = 0 THEN written ELSE [written EXCEPT ![i] = @ + 1]

CreateInvoice(q, i, status, sum) ==
    /\ At(q, "numbered") /\ ~Exists(i)
    /\ requests[q].number \notin Numbers        \* unique (workspace_id, number)
    /\ invoices' = [invoices EXCEPT ![i] =
          [status |-> status, amount |-> SumOf(NewLines(i, sum)),
           number |-> requests[q].number]]
    /\ counter' = requests[q].number
    /\ Writes(i, sum)
    /\ lines' = lines \cup NewLines(i, sum)
    /\ Goes(q, Idle)
    /\ UNCHANGED payments

\* An invoice with a number of its own, imported or made by hand.
ImportInvoice(i, n) ==
    /\ ~Exists(i) /\ n \notin Numbers
    /\ invoices' = [invoices EXCEPT ![i] =
          [status |-> "sent", amount |-> 0, number |-> n]]
    /\ UNCHANGED <<counter, lines, written, payments, requests>>

-----------------------------------------------------------------------------
(* Lines                                                                   *)

\* replace_invoice_items reads the ids of the old lines before any lock.
ReadOldLines(q, i, sum) ==
    /\ At(q, "idle") /\ Exists(i)
    /\ Goes(q, [Idle EXCEPT !.step = "editing", !.of = i, !.sum = sum,
                            !.rows = {l.id : l \in LinesOf(i)}])
    /\ UNCHANGED <<invoices, counter, lines, written, payments>>

\* Mutant: a paid invoice can be edited.
EditableUntilVoid(i) == invoices[i].status \notin {"none", "void"}

\* guard_invoice_item_write
Editable(i) == invoices[i].status \notin {"none", "paid", "void"}

\* New lines in, the old ones that were read out; refused below what was paid.
ReplaceLines(q) ==
    LET r == requests[q]
        left == {l \in LinesOf(r.of) : l.id \notin r.rows} \cup NewLines(r.of, r.sum)
    IN
    /\ At(q, "editing") /\ Editable(r.of)
    /\ SumOf(ActiveOf(r.of)) <= SumOf(left)
    /\ Writes(r.of, r.sum)
    /\ lines' = (lines \ LinesOf(r.of)) \cup left
    /\ invoices' = [invoices EXCEPT ![r.of] =
          Recomputed(@, SumOf(left), SumOf(ActiveOf(r.of)))]
    /\ Goes(q, Idle)
    /\ UNCHANGED <<counter, payments>>

-----------------------------------------------------------------------------
(* Payments                                                                *)

NextPayment == Cardinality(payments) + 1

\* guard_payment_write: not on a cancelled invoice, and no overpayment.
Payable(i, amount) ==
    /\ invoices[i].status \notin {"none", "void"} /\ amount > 0
    /\ SumOf(ActiveOf(i)) + amount <= SumOf(LinesOf(i))

\* record_payment: the insert with its guard and the recomputation after it,
\* which refuses once more what would be above the total.
Pays(i, amount) ==
    LET active == ActiveOf(i) \cup
                  {[id |-> NextPayment, of |-> i, sum |-> amount, voided |-> FALSE]}
    IN
    /\ NextPayment <= MaxPayments
    /\ Payable(i, amount)
    /\ SumOf(active) <= SumOf(LinesOf(i))
    /\ payments' = payments \cup active
    /\ invoices' = [invoices EXCEPT ![i] =
          Recomputed(@, SumOf(LinesOf(i)), SumOf(active))]
    /\ UNCHANGED <<counter, lines, written>>

\* A payment a member entered.
RecordPayment(i, amount) == Pays(i, amount) /\ UNCHANGED requests

\* "Mark as paid": the row, then its payments, then a payment of the balance.
ReadInvoice(q, i) ==
    /\ At(q, "idle") /\ Exists(i)
    /\ Goes(q, [Idle EXCEPT !.step = "balance", !.of = i, !.sum = invoices[i].amount])
    /\ UNCHANGED <<invoices, counter, lines, written, payments>>

ReadPayments(q) ==
    LET r == requests[q]  paid == SumOf(ActiveOf(r.of)) IN
    /\ At(q, "balance")
    /\ Goes(q, IF paid < r.sum THEN [r EXCEPT !.step = "paying", !.sum = r.sum - paid]
               ELSE Idle)
    /\ UNCHANGED <<invoices, counter, lines, written, payments>>

PayBalance(q) ==
    /\ At(q, "paying")
    /\ Pays(requests[q].of, requests[q].sum)
    /\ Goes(q, Idle)

-----------------------------------------------------------------------------
(* "Mark as unpaid" and cancelling                                         *)

\* A draft is issued, anything else loses its payments. The repository loads
\* the draft once more before it writes; by then issued, nothing is written.
ReadDraft(q, i) ==
    /\ At(q, "idle") /\ invoices[i].status = "draft"
    /\ Goes(q, [Idle EXCEPT !.step = "issuing", !.of = i])
    /\ UNCHANGED <<invoices, counter, lines, written, payments>>

\* An issued invoice stays issued, so that read and the first one inside
\* void_invoice_payments are one: the payments active when its update starts.
ReadActive(q, i) ==
    /\ At(q, "idle") /\ invoices[i].status \notin {"none", "draft"}
    /\ Goes(q, [Idle EXCEPT !.step = "voiding", !.of = i,
                            !.rows = {p.id : p \in ActiveOf(i)}])
    /\ UNCHANGED <<invoices, counter, lines, written, payments>>

\* A direct write of the status; the amount is derived again with it.
WithStatus(i, status) ==
    [status |-> status, amount |-> SumOf(LinesOf(i)), number |-> invoices[i].number]

\* The update of the row alone, with guard_invoice_write on the row as it is.
Issue(q) ==
    LET i == requests[q].of IN
    /\ At(q, "issuing")
    /\ invoices[i].status \notin {"none", "void"}
    /\ SumOf(ActiveOf(i)) = 0
    /\ invoices' = [invoices EXCEPT ![i] = WithStatus(i, "sent")]
    /\ Goes(q, Idle)
    /\ UNCHANGED <<counter, lines, written, payments>>

Voided(p, i, ids) ==
    IF p.of = i /\ p.id \in ids THEN [p EXCEPT !.voided = TRUE] ELSE p

\* The update and the recomputation after it, from those active under the lock,
\* a payment recorded since the update started included.
VoidPayments(q) ==
    LET r == requests[q]
        active == {p \in ActiveOf(r.of) : p.id \notin r.rows}
    IN
    /\ At(q, "voiding") /\ Exists(r.of)
    /\ SumOf(active) <= SumOf(LinesOf(r.of))
    /\ payments' = {Voided(p, r.of, r.rows) : p \in payments}
    /\ invoices' = [invoices EXCEPT ![r.of] =
          Recomputed(@, SumOf(LinesOf(r.of)), SumOf(active))]
    /\ Goes(q, Idle)
    /\ UNCHANGED <<counter, lines, written>>

\* One update; guard_invoice_write refuses while payments are active.
CancelInvoice(i) ==
    /\ invoices[i].status \notin {"none", "void"}
    /\ SumOf(ActiveOf(i)) = 0
    /\ invoices' = [invoices EXCEPT ![i] = WithStatus(i, "void")]
    /\ UNCHANGED <<counter, lines, written, payments, requests>>

\* Refused, rolled back, or the caller is gone.
Abandon(q) ==
    /\ ~At(q, "idle")
    /\ Goes(q, Idle)
    /\ UNCHANGED <<invoices, counter, lines, written, payments>>

-----------------------------------------------------------------------------
Init ==
    /\ invoices = [i \in Invoices |-> NoInvoice]
    /\ counter = 0
    /\ lines = {} /\ written = [i \in Invoices |-> 0]
    /\ payments = {}
    /\ requests = [q \in Requests |-> Idle]

RequestNext ==
    \E q \in Requests :
        \/ DrawNumber(q) \/ ReplaceLines(q) \/ ReadPayments(q) \/ PayBalance(q)
        \/ Issue(q) \/ VoidPayments(q) \/ Abandon(q)
        \/ \E i \in Invoices :
              \/ \E status \in {"draft", "sent"}, sum \in Totals :
                    CreateInvoice(q, i, status, sum)
              \/ \E sum \in Totals : ReadOldLines(q, i, sum)
              \/ ReadInvoice(q, i)
              \/ ReadDraft(q, i) \/ ReadActive(q, i)

Next ==
    \/ RequestNext
    \/ \E i \in Invoices :
          \/ \E n \in 1..MaxNumber : ImportInvoice(i, n)
          \/ \E amount \in Amounts : RecordPayment(i, amount)
          \/ CancelInvoice(i)

Spec == Init /\ [][Next]_vars

-----------------------------------------------------------------------------
(* Properties                                                              *)

TypeOK ==
    /\ invoices \in [Invoices -> Invoice]
    /\ counter \in 0..MaxNumber
    /\ lines \subseteq Line /\ written \in [Invoices -> Nat]
    /\ payments \subseteq Payment
    /\ requests \in [Requests -> Request]

\* "amount and items can never disagree" (0022): the stored amount of every
\* invoice is the sum of its lines, also when two edits, made from the same
\* old lines, both leave theirs behind.
AmountIsItsLines == \A i \in Invoices : invoices[i].amount = SumOf(LinesOf(i))

\* A status and the sums it may stand beside.
Agrees(status, due, paid) ==
    /\ paid <= due
    /\ status = "paid" <=> paid > 0 /\ paid >= due
    /\ status = "partially_paid" <=> paid > 0 /\ ~(paid >= due)

\* The status tells the truth about the money, whatever order edits, payments,
\* "mark as paid" from a stale balance and voidings come in: never more paid
\* than due, paid means all of it, partially paid some, every other status
\* none (recompute_invoice and the guards).
StatusTellsThePayments ==
    \A i \in Invoices :
        invoices[i].status # "void"
        => Agrees(invoices[i].status, invoices[i].amount, SumOf(ActiveOf(i)))

\* "Concurrent callers queue and each gets a new value", "gapless": no two
\* invoices share a number and, however many creations were rolled back, every
\* number up to the counter belongs to an invoice.
NumbersGapless ==
    /\ \A i, j \in Invoices :
          i # j /\ Exists(i) /\ Exists(j) => invoices[i].number # invoices[j].number
    /\ 1..counter \subseteq Numbers

\* Invoices keep the promises of the ledger: in particular a paid invoice keeps
\* its lines until a payment is voided, and a cancelled one is final.
Phase(status) ==
    IF status \in {"none", "draft"} THEN status
    ELSE IF status = "void" THEN "closed" ELSE "open"

Money == INSTANCE Ledger WITH
    Accounts <- Invoices,
    phase <- [i \in Invoices |-> Phase(invoices[i].status)],
    total <- [i \in Invoices |-> SumOf(LinesOf(i))],
    paid <- [i \in Invoices |-> SumOf(ActiveOf(i))]

KeepsTheLedger == Money!Init /\ [][Money!Next]_(Money!vars)
=============================================================================
