---------------------------- MODULE InvoicesProofs ----------------------------
(***************************************************************************)
(* Proofs about Invoices, for every number of invoices and requests and    *)
(* every choice of sums, in two layers.                                    *)
(*                                                                         *)
(* IInv: each write takes the sums it stores from the rows it leaves       *)
(* behind, so the stored amounts, the statuses and the numbers are right   *)
(* whatever a sum is; of addition only the empty sum is needed.            *)
(*                                                                         *)
(* Solid: the rows are finite, payments are told apart by their ids and a  *)
(* cancelled invoice holds no money. With it sums are natural numbers that *)
(* grow and shrink with their rows (InvoiceSums), and every step keeps the *)
(* promises of Ledger.                                                     *)
(***************************************************************************)
EXTENDS InvoiceSums

\* Rows and requests are records; which sums they hold is left open.
Fields(r) == r \in [status : Statuses, amount : {r.amount}, number : 0..MaxNumber]
Held(r) == r \in [step : {r.step}, of : Invoices, sum : {r.sum},
                  number : 0..MaxNumber, rows : {r.rows}]
Voidable(p) == p \in [id : {p.id}, of : {p.of}, sum : {p.sum}, voided : {p.voided}]

Shape ==
    /\ invoices = [i \in Invoices |-> invoices[i]]
    /\ \A i \in Invoices : Fields(invoices[i])
    /\ counter \in 0..MaxNumber
    /\ \A p \in payments : Voidable(p)
    /\ requests = [q \in Requests |-> requests[q]]
    /\ \A q \in Requests : Held(requests[q])

\* An invoice that is not there owns no lines and no payments.
NothingWithoutRow ==
    \A i \in Invoices : ~Exists(i) => LinesOf(i) = {} /\ ActiveOf(i) = {}

\* One request holds the counter; its number is next but for numbers taken.
Drawn ==
    /\ \A q, s \in Requests : At(q, "numbered") /\ At(s, "numbered") => q = s
    /\ \A q \in Requests : At(q, "numbered") =>
          /\ requests[q].number > counter
          /\ (counter + 1)..(requests[q].number - 1) \subseteq Numbers

IInv ==
    /\ Shape /\ NothingWithoutRow /\ Drawn
    /\ AmountIsItsLines /\ StatusTellsThePayments /\ NumbersGapless

-----------------------------------------------------------------------------
(* Lemmas about the operators                                              *)

LEMMA EmptySum == SumOf({}) = 0
BY FS_EmptySet, SumUnfolded

LEMMA SingleSum ==
    ASSUME NEW r, r.sum \in Nat
    PROVE  SumOf({r}) = r.sum
<1>1. Counted({})
  BY FS_EmptySet DEF Counted
<1>2. {} \cup {r} = {r}
  OBVIOUS
<1>3. SumOf({} \cup {r}) = SumOf({}) + r.sum
  BY <1>1, SumAdd
<1> QED BY <1>2, <1>3, EmptySum

\* Nothing paid agrees with every status that is not about payments.
LEMMA UnpaidAgrees ==
    ASSUME NEW s \in Statuses \ {"paid", "partially_paid"}, NEW due, NEW paid,
           ~(paid > 0), paid <= due
    PROVE  Agrees(s, due, paid)
BY DEF Agrees

\* What recompute_invoice leaves: the sums it was given and a status that
\* agrees with them; a cancelled row as it was.
LEMMA RecomputedOK ==
    ASSUME NEW r, Fields(r), r.status # "none",
           NEW total, NEW paid, paid <= total
    PROVE  LET n == Recomputed(r, total, paid) IN
           /\ Fields(n) /\ n.number = r.number
           /\ n.status # "none"
           /\ r.status = "void" => n = r
           /\ r.status # "void" => /\ n.status # "void"
                                   /\ n.amount = total
                                   /\ Agrees(n.status, total, paid)
<1> DEFINE n == Recomputed(r, total, paid)
<1>1. n = [status |-> StatusFor(r.status, total, paid),
           amount |-> IF r.status = "void" THEN r.amount ELSE total,
           number |-> r.number]
  BY DEF Recomputed, Fields
<1>2. Fields(n) /\ n.number = r.number /\ n.status # "none"
  BY <1>1 DEF Fields, StatusFor, Statuses
<1>4. r.status = "void" => n = r
  BY <1>1 DEF StatusFor, Fields
<1>5. ASSUME r.status # "void"
      PROVE  n.status # "void" /\ n.amount = total /\ Agrees(n.status, total, paid)
  BY <1>1, <1>5 DEF StatusFor, Statuses, Agrees
<1> QED BY <1>2, <1>4, <1>5

\* A row of the instance, taken out of the invariant.
LEMMA RowFacts ==
    ASSUME IInv, NEW i \in Invoices, Exists(i)
    PROVE  /\ Fields(invoices[i])
           /\ invoices[i].status # "none"
           /\ invoices[i].amount = SumOf(LinesOf(i))
           /\ invoices[i].status # "void" => SumOf(ActiveOf(i)) <= SumOf(LinesOf(i))
BY DEF IInv, Shape, Exists, AmountIsItsLines, StatusTellsThePayments, Agrees

-----------------------------------------------------------------------------
(* Kinds of steps                                                          *)

\* A request reads, or gives up: nothing else changes.
LEMMA RequestMoves ==
    ASSUME IInv, NEW q \in Requests, NEW r, Held(r),
           r.step # "numbered", Goes(q, r),
           UNCHANGED <<invoices, counter, lines, written, payments>>
    PROVE  IInv'
<1>1. \A i \in Invoices : LinesOf(i)' = LinesOf(i) /\ ActiveOf(i)' = ActiveOf(i)
  BY DEF LinesOf, ActiveOf
<1>2. /\ requests' = [s \in Requests |-> IF s = q THEN r ELSE requests[s]]
  BY DEF IInv, Shape, Goes
<1>3. Shape'
  BY <1>2 DEF IInv, Shape, Held, Fields, Voidable
<1>4. NothingWithoutRow' /\ AmountIsItsLines' /\ StatusTellsThePayments'
  BY <1>1 DEF IInv, NothingWithoutRow, AmountIsItsLines, StatusTellsThePayments, Exists
<1>5. Numbers' = Numbers /\ NumbersGapless'
  BY DEF IInv, NumbersGapless, Numbers, Exists
<1>6. \A s \in Requests : At(s, "numbered")' => s # q /\ requests'[s] = requests[s]
  BY <1>2 DEF At
<1>7. Drawn'
  BY <1>5, <1>6 DEF IInv, Drawn, At
<1> QED BY <1>3, <1>4, <1>5, <1>7 DEF IInv

\* One existing row is written, with the sums of its rows afterwards; the
\* request that did it is idle again.
LEMMA RowWritten ==
    ASSUME IInv, NEW i \in Invoices, Exists(i), NEW n,
           Fields(n), n.status # "none",
           n.number = invoices[i].number,
           invoices' = [invoices EXCEPT ![i] = n],
           UNCHANGED counter,
           \/ UNCHANGED requests
           \/ \E q \in Requests : Goes(q, Idle),
           \A j \in Invoices \ {i} :
               LinesOf(j)' = LinesOf(j) /\ ActiveOf(j)' = ActiveOf(j),
           n.amount = SumOf(LinesOf(i)'),
           n.status # "void" => Agrees(n.status, n.amount, SumOf(ActiveOf(i)')),
           \A p \in payments' : Voidable(p)
    PROVE  IInv'
<1>1. invoices' = [j \in Invoices |-> IF j = i THEN n ELSE invoices[j]]
  BY DEF IInv, Shape
<1>2. \A q \in Requests : requests'[q] = Idle \/ requests'[q] = requests[q]
  BY DEF IInv, Shape, Goes
<1>3. Held(Idle) /\ Idle.step = "idle"
  BY InvoicesAssumption DEF Held, Idle, Nobody
<1>4. requests' = [q \in Requests |-> requests'[q]]
  BY DEF IInv, Shape, Goes
<1>5. Shape'
  <2>1. \A q \in Requests : Held(requests'[q])
    BY <1>2, <1>3 DEF IInv, Shape
  <2>2. \A j \in Invoices : Fields(invoices'[j])
    BY <1>1 DEF IInv, Shape
  <2>3. invoices' = [j \in Invoices |-> invoices'[j]]
    BY <1>1
  <2>4. counter' \in 0..MaxNumber
    BY DEF IInv, Shape
  <2> HIDE DEF Goes
  <2> QED BY <1>4, <2>1, <2>2, <2>3, <2>4 DEF Shape, Held, Fields, Voidable
<1>6. \A j \in Invoices : /\ Exists(j)' <=> Exists(j)
                          /\ invoices'[j].number = invoices[j].number
  BY <1>1 DEF Exists
<1>7. NothingWithoutRow'
  BY <1>6 DEF IInv, NothingWithoutRow
<1>8. AmountIsItsLines'
  BY <1>1 DEF IInv, AmountIsItsLines
<1>9. StatusTellsThePayments'
  BY <1>1 DEF IInv, StatusTellsThePayments
<1>10. Numbers' = Numbers
  BY <1>6 DEF Numbers
<1>11. NumbersGapless'
  BY <1>6, <1>10 DEF IInv, NumbersGapless
<1>12. \A q \in Requests : At(q, "numbered")' => requests'[q] = requests[q]
  BY <1>2, <1>3 DEF At
<1>13. Drawn'
  BY <1>10, <1>12 DEF IInv, Drawn, At
<1> QED BY <1>5, <1>7, <1>8, <1>9, <1>11, <1>13 DEF IInv

-----------------------------------------------------------------------------
(* The actions                                                             *)

\* The record an idle request becomes when it has read.
LEMMA IdleRecord ==
    Idle \in [step : {"idle"}, of : Invoices, sum : {0}, number : 0..MaxNumber, rows : {{}}]
<1>1. Nobody \in Invoices
  BY InvoicesAssumption DEF Nobody
<1> QED BY <1>1, InvoicesAssumption DEF Idle

LEMMA DrawNumberOK ==
    ASSUME IInv, NEW q \in Requests, DrawNumber(q)
    PROVE  IInv'
<1> PICK n \in NextNumbers : Goes(q, [Idle EXCEPT !.step = "numbered", !.number = n])
  BY DEF DrawNumber
<1> DEFINE r == [Idle EXCEPT !.step = "numbered", !.number = n]
<1>1. /\ n \in Nat /\ n > counter /\ n <= MaxNumber
      /\ (counter + 1)..(n - 1) \subseteq Numbers
  BY InvoicesAssumption DEF NextNumbers, IInv, Shape
<1>2. r.number = n /\ Held(r)
  <2>1. /\ r \in [step : {"numbered"}, of : Invoices, sum : {0},
                 number : 0..MaxNumber, rows : {{}}]
        /\ r.number = n
    <3>1. n \in 0..MaxNumber
      BY <1>1, InvoicesAssumption
    <3> QED BY <3>1, IdleRecord
  <2> HIDE DEF r
  <2> QED BY <2>1 DEF Held
<1>3. UNCHANGED <<invoices, counter, lines, written, payments>>
  BY DEF DrawNumber
<1>4. requests' = [s \in Requests |-> IF s = q THEN r ELSE requests[s]]
  BY DEF IInv, Shape, Goes
<1> HIDE DEF r
<1>5. \A i \in Invoices : LinesOf(i)' = LinesOf(i) /\ ActiveOf(i)' = ActiveOf(i)
  BY <1>3 DEF LinesOf, ActiveOf
<1>6. Shape'
  BY <1>2, <1>3, <1>4 DEF IInv, Shape, Held, Fields, Voidable
<1>7. NothingWithoutRow' /\ AmountIsItsLines' /\ StatusTellsThePayments'
  BY <1>3, <1>5 DEF IInv, NothingWithoutRow, AmountIsItsLines, StatusTellsThePayments, Exists
<1>8. Numbers' = Numbers /\ NumbersGapless'
  BY <1>3 DEF IInv, NumbersGapless, Numbers, Exists
<1>9. \A s \in Requests : At(s, "numbered")' => s = q
  BY <1>4 DEF DrawNumber, CounterFree, At
<1>10. requests'[q] = r
  BY <1>4
<1>11. Drawn'
  BY <1>1, <1>2, <1>3, <1>8, <1>9, <1>10 DEF Drawn
<1> QED BY <1>6, <1>7, <1>8, <1>11 DEF IInv

\* A row that appears, with its number and its lines.
LEMMA RowAppears ==
    ASSUME IInv, NEW i \in Invoices, ~Exists(i), NEW n, Fields(n),
           n.status \in {"draft", "sent"}, n.number \notin Numbers,
           invoices' = [invoices EXCEPT ![i] = n],
           \A j \in Invoices \ {i} : LinesOf(j)' = LinesOf(j),
           n.amount = SumOf(LinesOf(i)'), n.amount \in Nat,
           UNCHANGED payments
    PROVE  /\ invoices' = [j \in Invoices |-> invoices'[j]]
           /\ \A j \in Invoices : Fields(invoices'[j])
           /\ NothingWithoutRow' /\ AmountIsItsLines' /\ StatusTellsThePayments'
           /\ Numbers' = Numbers \cup {n.number}
           /\ \A j, k \in Invoices : j # k /\ Exists(j)' /\ Exists(k)'
                                    => invoices'[j].number # invoices'[k].number
<1>1. invoices' = [j \in Invoices |-> IF j = i THEN n ELSE invoices[j]]
  BY DEF IInv, Shape
<1>2. \A j \in Invoices : Fields(invoices'[j])
  BY <1>1 DEF IInv, Shape
<1>3. \A j \in Invoices : ActiveOf(j)' = ActiveOf(j)
  BY DEF ActiveOf
<1>4. \A j \in Invoices : Exists(j)' <=> j = i \/ Exists(j)
  BY <1>1 DEF Exists
<1>5. NothingWithoutRow'
  BY <1>3, <1>4 DEF IInv, NothingWithoutRow
<1>6. AmountIsItsLines'
  BY <1>1 DEF IInv, AmountIsItsLines
<1>7. Agrees(n.status, n.amount, SumOf(ActiveOf(i)))
  <2>1. SumOf(ActiveOf(i)) = 0
    BY EmptySum DEF IInv, NothingWithoutRow
  <2> QED BY <2>1 DEF Agrees
<1>8. StatusTellsThePayments'
  BY <1>1, <1>3, <1>7 DEF IInv, StatusTellsThePayments
<1>9. Numbers' = Numbers \cup {n.number}
  BY <1>1, <1>4 DEF Numbers
<1>10. \A j, k \in Invoices : j # k /\ Exists(j)' /\ Exists(k)'
                             => invoices'[j].number # invoices'[k].number
  BY <1>1, <1>4 DEF IInv, NumbersGapless, Numbers
<1>11. invoices' = [j \in Invoices |-> invoices'[j]]
  BY <1>1
<1> QED BY <1>2, <1>5, <1>6, <1>8, <1>9, <1>10, <1>11

LEMMA CreateInvoiceOK ==
    ASSUME IInv, NEW q \in Requests, NEW i \in Invoices,
           NEW status \in {"draft", "sent"}, NEW sum \in Totals,
           CreateInvoice(q, i, status, sum)
    PROVE  IInv'
<1> DEFINE n == [status |-> status, amount |-> SumOf(NewLines(i, sum)),
                 number |-> requests[q].number]
<1>1. /\ At(q, "numbered") /\ ~Exists(i) /\ requests[q].number \notin Numbers
      /\ invoices' = [invoices EXCEPT ![i] = n]
      /\ counter' = requests[q].number
      /\ lines' = lines \cup NewLines(i, sum)
      /\ Goes(q, Idle) /\ UNCHANGED payments
  BY DEF CreateInvoice
<1>2. requests[q].number \in 0..MaxNumber /\ requests[q].number > counter
      /\ (counter + 1)..(requests[q].number - 1) \subseteq Numbers
  BY <1>1 DEF IInv, Shape, Held, Drawn
<1>3. n.amount \in Nat
  <2>1. CASE sum = 0
    BY <2>1, EmptySum DEF NewLines
  <2>2. CASE sum # 0
    <3> DEFINE l == [id |-> written[i] + 1, of |-> i, sum |-> sum]
    <3>1. NewLines(i, sum) = {l} /\ l.sum = sum
      BY <2>2 DEF NewLines
    <3>2. SumOf({l}) = sum
      BY <3>1, SingleSum, InvoicesAssumption
    <3> QED BY <3>1, <3>2, InvoicesAssumption
  <2> QED BY <2>1, <2>2
<1>4. \A l \in NewLines(i, sum) : l.of = i
  BY DEF NewLines
<1>5. LinesOf(i)' = NewLines(i, sum)
  BY <1>1, <1>4 DEF IInv, NothingWithoutRow, LinesOf
<1>6. \A j \in Invoices \ {i} : LinesOf(j)' = LinesOf(j)
  BY <1>1, <1>4 DEF LinesOf
<1>7. Fields(n) /\ n.status = status /\ n.number = requests[q].number
  BY <1>2 DEF Fields, Statuses
<1>8. n.amount = SumOf(LinesOf(i)')
  BY <1>5
<1> HIDE DEF n
<1>9. /\ invoices' = [j \in Invoices |-> invoices'[j]]
      /\ \A j \in Invoices : Fields(invoices'[j])
      /\ NothingWithoutRow' /\ AmountIsItsLines' /\ StatusTellsThePayments'
      /\ Numbers' = Numbers \cup {n.number}
      /\ \A j, k \in Invoices : j # k /\ Exists(j)' /\ Exists(k)'
                               => invoices'[j].number # invoices'[k].number
  BY <1>1, <1>3, <1>6, <1>7, <1>8, RowAppears
<1>10. requests' = [s \in Requests |-> IF s = q THEN Idle ELSE requests[s]]
  BY <1>1 DEF IInv, Shape, Goes
<1>11. Shape'
  BY <1>1, <1>2, <1>9, <1>10, IdleRecord DEF IInv, Shape, Held, Fields, Voidable
<1>12. 1..counter' \subseteq Numbers'
  <2>1. 1..counter \subseteq Numbers /\ counter \in Nat
    BY InvoicesAssumption DEF IInv, NumbersGapless, Shape
  <2> QED BY <1>1, <1>2, <1>7, <1>9, <2>1, InvoicesAssumption
<1>13. NumbersGapless'
  BY <1>9, <1>12 DEF NumbersGapless
<1>14. \A s \in Requests : ~At(s, "numbered")'
  BY <1>1, <1>10, IdleRecord DEF IInv, Drawn, At
<1>15. Drawn'
  BY <1>14 DEF Drawn
<1> QED BY <1>9, <1>11, <1>13, <1>15 DEF IInv

LEMMA ImportInvoiceOK ==
    ASSUME IInv, NEW i \in Invoices, NEW m \in 1..MaxNumber, ImportInvoice(i, m)
    PROVE  IInv'
<1> DEFINE n == [status |-> "sent", amount |-> 0, number |-> m]
<1>1. /\ ~Exists(i) /\ m \notin Numbers /\ invoices' = [invoices EXCEPT ![i] = n]
      /\ UNCHANGED <<counter, lines, payments, requests>>
  BY DEF ImportInvoice
<1>2. /\ Fields(n) /\ n.status = "sent" /\ n.number = m /\ n.amount \in Nat
  BY InvoicesAssumption DEF Fields, Statuses
<1>3. \A j \in Invoices : LinesOf(j)' = LinesOf(j)
  BY <1>1 DEF LinesOf
<1>4. n.amount = SumOf(LinesOf(i)')
  BY <1>1, <1>3, EmptySum DEF IInv, NothingWithoutRow
<1> HIDE DEF n
<1>5. /\ invoices' = [j \in Invoices |-> invoices'[j]]
      /\ \A j \in Invoices : Fields(invoices'[j])
      /\ NothingWithoutRow' /\ AmountIsItsLines' /\ StatusTellsThePayments'
      /\ Numbers' = Numbers \cup {n.number}
      /\ \A j, k \in Invoices : j # k /\ Exists(j)' /\ Exists(k)'
                               => invoices'[j].number # invoices'[k].number
  BY <1>1, <1>2, <1>3, <1>4, RowAppears
<1>6. Shape'
  BY <1>1, <1>5 DEF IInv, Shape, Held, Fields, Voidable
<1>7. NumbersGapless'
  BY <1>1, <1>5 DEF IInv, NumbersGapless
<1>8. Drawn'
  BY <1>1, <1>5 DEF IInv, Drawn, At
<1> QED BY <1>5, <1>6, <1>7, <1>8 DEF IInv

LEMMA ReadOldLinesOK ==
    ASSUME IInv, NEW q \in Requests, NEW i \in Invoices, NEW sum \in Totals,
           ReadOldLines(q, i, sum)
    PROVE  IInv'
<1> DEFINE ids == {l.id : l \in LinesOf(i)}
           r == [Idle EXCEPT !.step = "editing", !.of = i, !.sum = sum, !.rows = ids]
<1>1. r \in [step : {"editing"}, of : Invoices, sum : {sum}, number : 0..MaxNumber, rows : {ids}]
  BY IdleRecord
<1>2. Goes(q, r) /\ UNCHANGED <<invoices, counter, lines, written, payments>>
  BY DEF ReadOldLines
<1> HIDE DEF r
<1>3. Held(r) /\ r.step # "numbered"
  BY <1>1 DEF Held
<1> QED BY <1>2, <1>3, RequestMoves

LEMMA ReadInvoiceOK ==
    ASSUME IInv, NEW q \in Requests, NEW i \in Invoices, ReadInvoice(q, i)
    PROVE  IInv'
<1> DEFINE sum == invoices[i].amount
           r == [Idle EXCEPT !.step = "balance", !.of = i, !.sum = sum]
<1>1. r \in [step : {"balance"}, of : Invoices, sum : {sum}, number : 0..MaxNumber, rows : {{}}]
  BY IdleRecord
<1>2. Goes(q, r) /\ UNCHANGED <<invoices, counter, lines, written, payments>>
  BY DEF ReadInvoice
<1> HIDE DEF r
<1>3. Held(r) /\ r.step # "numbered"
  BY <1>1 DEF Held
<1> QED BY <1>2, <1>3, RequestMoves

LEMMA ReadDraftOK ==
    ASSUME IInv, NEW q \in Requests, NEW i \in Invoices, ReadDraft(q, i)
    PROVE  IInv'
<1> DEFINE r == [Idle EXCEPT !.step = "issuing", !.of = i]
<1>1. r \in [step : {"issuing"}, of : Invoices, sum : {0}, number : 0..MaxNumber, rows : {{}}]
  BY IdleRecord
<1>2. Goes(q, r) /\ UNCHANGED <<invoices, counter, lines, written, payments>>
  BY DEF ReadDraft
<1> HIDE DEF r
<1>3. Held(r) /\ r.step # "numbered"
  BY <1>1 DEF Held
<1> QED BY <1>2, <1>3, RequestMoves

LEMMA ReadActiveOK ==
    ASSUME IInv, NEW q \in Requests, NEW i \in Invoices, ReadActive(q, i)
    PROVE  IInv'
<1> DEFINE ids == {p.id : p \in ActiveOf(i)}
           r == [Idle EXCEPT !.step = "voiding", !.of = i, !.rows = ids]
<1>1. r \in [step : {"voiding"}, of : Invoices, sum : {0}, number : 0..MaxNumber, rows : {ids}]
  BY IdleRecord
<1>2. Goes(q, r) /\ UNCHANGED <<invoices, counter, lines, written, payments>>
  BY DEF ReadActive
<1> HIDE DEF r
<1>3. Held(r) /\ r.step # "numbered"
  BY <1>1 DEF Held
<1> QED BY <1>2, <1>3, RequestMoves

LEMMA AbandonOK ==
    ASSUME IInv, NEW q \in Requests, Abandon(q)
    PROVE  IInv'
<1>1. Held(Idle) /\ Idle.step # "numbered"
  BY IdleRecord DEF Held
<1> QED BY <1>1, RequestMoves DEF Abandon

LEMMA ReadPaymentsOK ==
    ASSUME IInv, NEW q \in Requests, ReadPayments(q)
    PROVE  IInv'
<1> DEFINE r == requests[q]
           paid == SumOf(ActiveOf(r.of))
           n == [r EXCEPT !.step = "paying", !.sum = r.sum - paid]
<1>1. Held(r)
  BY DEF IInv, Shape
<1>2. n \in [step : {"paying"}, of : Invoices, sum : {r.sum - paid},
            number : 0..MaxNumber, rows : {r.rows}]
  <2> HIDE DEF r, paid
  <2> QED BY <1>1 DEF Held
<1>3. Goes(q, n) \/ Goes(q, Idle)
  BY DEF ReadPayments
<1>4. UNCHANGED <<invoices, counter, lines, written, payments>>
  BY DEF ReadPayments
<1>5. CASE Goes(q, Idle)
  <2>1. Held(Idle) /\ Idle.step # "numbered"
    BY IdleRecord DEF Held
  <2> QED BY <1>4, <1>5, <2>1, RequestMoves
<1>6. CASE Goes(q, n)
  <2> HIDE DEF n
  <2>1. Held(n) /\ n.step # "numbered"
    BY <1>2 DEF Held
  <2> QED BY <1>4, <1>6, <2>1, RequestMoves
<1> QED BY <1>3, <1>5, <1>6

LEMMA ReplaceLinesOK ==
    ASSUME IInv, NEW q \in Requests, ReplaceLines(q)
    PROVE  IInv'
<1> PICK i \in Invoices : i = requests[q].of
  BY DEF IInv, Shape, Held
<1> DEFINE r == requests[q]
           left == {l \in LinesOf(i) : l.id \notin r.rows} \cup NewLines(i, r.sum)
           n == Recomputed(invoices[i], SumOf(left), SumOf(ActiveOf(i)))
<1>2. /\ Editable(i) /\ SumOf(ActiveOf(i)) <= SumOf(left)
      /\ lines' = (lines \ LinesOf(i)) \cup left
      /\ invoices' = [invoices EXCEPT ![i] = n]
      /\ Goes(q, Idle) /\ UNCHANGED <<counter, payments>>
  BY DEF ReplaceLines
<1>3. \A l \in left : l.of = i
  BY DEF NewLines, LinesOf
<1> HIDE DEF left
<1>4. LinesOf(i)' = left
  BY <1>2, <1>3 DEF LinesOf
<1>5. \A j \in Invoices \ {i} : LinesOf(j)' = LinesOf(j)
  BY <1>2, <1>3 DEF LinesOf
<1>6. \A j \in Invoices : ActiveOf(j)' = ActiveOf(j)
  BY <1>2 DEF ActiveOf
<1>7. Exists(i) /\ invoices[i].status # "void"
  BY <1>2 DEF Editable, Exists
<1>8. Fields(invoices[i]) /\ invoices[i].status # "none"
  BY <1>7, RowFacts
<1>9. /\ Fields(n) /\ n.number = invoices[i].number /\ n.status # "none"
      /\ n.amount = SumOf(left) /\ Agrees(n.status, n.amount, SumOf(ActiveOf(i)))
  BY <1>2, <1>7, <1>8, RecomputedOK
<1>10. \A p \in payments' : Voidable(p)
  BY <1>2 DEF IInv, Shape
<1> HIDE DEF n
<1> QED BY <1>2, <1>4, <1>5, <1>6, <1>7, <1>9, <1>10, RowWritten

LEMMA PaysOK ==
    ASSUME IInv, NEW i \in Invoices, NEW amount, Pays(i, amount),
           UNCHANGED requests \/ \E q \in Requests : Goes(q, Idle)
    PROVE  IInv'
<1> DEFINE new == [id |-> NextPayment, of |-> i, sum |-> amount, voided |-> FALSE]
           active == ActiveOf(i) \cup {new}
           n == Recomputed(invoices[i], SumOf(LinesOf(i)), SumOf(active))
<1>1. /\ Payable(i, amount) /\ SumOf(active) <= SumOf(LinesOf(i))
      /\ payments' = payments \cup active
      /\ invoices' = [invoices EXCEPT ![i] = n]
      /\ UNCHANGED <<counter, lines>>
  BY DEF Pays
<1>2. new.of = i /\ new.voided = FALSE /\ Voidable(new)
  BY DEF Voidable
<1> HIDE DEF new
<1>3. ActiveOf(i)' = active
  BY <1>1, <1>2 DEF ActiveOf
<1>4. \A j \in Invoices \ {i} : ActiveOf(j)' = ActiveOf(j)
  BY <1>1, <1>2 DEF ActiveOf
<1>5. \A j \in Invoices : LinesOf(j)' = LinesOf(j)
  BY <1>1 DEF LinesOf
<1>6. \A p \in payments' : Voidable(p)
  BY <1>1, <1>2 DEF IInv, Shape, ActiveOf
<1>7. Exists(i) /\ invoices[i].status # "void"
  BY <1>1 DEF Payable, Exists
<1>8. Fields(invoices[i]) /\ invoices[i].status # "none"
  BY <1>7, RowFacts
<1> HIDE DEF active
<1>9. /\ Fields(n) /\ n.number = invoices[i].number /\ n.status # "none"
      /\ n.amount = SumOf(LinesOf(i)) /\ Agrees(n.status, n.amount, SumOf(active))
  BY <1>1, <1>7, <1>8, RecomputedOK
<1> HIDE DEF n
<1> QED BY <1>1, <1>3, <1>4, <1>5, <1>6, <1>7, <1>9, RowWritten

LEMMA VoidPaymentsOK ==
    ASSUME IInv, NEW q \in Requests, VoidPayments(q)
    PROVE  IInv'
<1> PICK i \in Invoices : i = requests[q].of
  BY DEF IInv, Shape, Held
<1> DEFINE r == requests[q]
           active == {p \in ActiveOf(i) : p.id \notin r.rows}
           n == Recomputed(invoices[i], SumOf(LinesOf(i)), SumOf(active))
<1>2. /\ Exists(i) /\ SumOf(active) <= SumOf(LinesOf(i))
      /\ payments' = {Voided(p, i, r.rows) : p \in payments}
      /\ invoices' = [invoices EXCEPT ![i] = n]
      /\ Goes(q, Idle) /\ UNCHANGED <<counter, lines>>
  BY DEF VoidPayments
<1>3. \A p \in payments :
         LET v == Voided(p, i, r.rows) IN
         /\ Voidable(v) /\ v.of = p.of
         /\ v = p \/ v.voided = TRUE
         /\ v = p <=> p.of # i \/ p.id \notin r.rows \/ p.voided = TRUE
  BY DEF Voided, Voidable, IInv, Shape
<1>4. ActiveOf(i)' = active
  BY <1>2, <1>3 DEF ActiveOf
<1>5. \A j \in Invoices \ {i} : ActiveOf(j)' = ActiveOf(j)
  BY <1>2, <1>3 DEF ActiveOf
<1>6. \A j \in Invoices : LinesOf(j)' = LinesOf(j)
  BY <1>2 DEF LinesOf
<1>7. \A p \in payments' : Voidable(p)
  BY <1>2, <1>3
<1>8. /\ Fields(invoices[i]) /\ invoices[i].status # "none"
      /\ invoices[i].amount = SumOf(LinesOf(i))
  BY <1>2, RowFacts
<1> HIDE DEF active
<1>9. /\ Fields(n) /\ n.number = invoices[i].number /\ n.status # "none"
      /\ n.amount = SumOf(LinesOf(i))
      /\ n.status # "void" => Agrees(n.status, n.amount, SumOf(active))
  BY <1>2, <1>8, RecomputedOK
<1> HIDE DEF n
<1> QED BY <1>2, <1>4, <1>5, <1>6, <1>7, <1>9, RowWritten

\* The two updates of the status alone: issuing and cancelling.
LEMMA StatusSetOK ==
    ASSUME IInv, NEW i \in Invoices, NEW status \in {"sent", "void"},
           invoices[i].status \notin {"none", "void"}, SumOf(ActiveOf(i)) = 0,
           invoices' = [invoices EXCEPT ![i] = WithStatus(i, status)],
           UNCHANGED <<counter, lines, payments>>,
           UNCHANGED requests \/ \E q \in Requests : Goes(q, Idle)
    PROVE  IInv'
<1> DEFINE n == [status |-> status, amount |-> SumOf(LinesOf(i)),
                 number |-> invoices[i].number]
<1>1. /\ Exists(i) /\ Fields(invoices[i])
      /\ SumOf(ActiveOf(i)) <= SumOf(LinesOf(i))
  BY RowFacts DEF Exists
<1>2. invoices' = [invoices EXCEPT ![i] = n]
  BY DEF WithStatus
<1>3. /\ Fields(n) /\ n.number = invoices[i].number /\ n.status = status
      /\ n.amount = SumOf(LinesOf(i))
  BY <1>1 DEF Fields, Statuses
<1>4. \A j \in Invoices : LinesOf(j)' = LinesOf(j) /\ ActiveOf(j)' = ActiveOf(j)
  BY DEF LinesOf, ActiveOf
<1>5. \A p \in payments' : Voidable(p)
  BY DEF IInv, Shape
<1>6. Agrees(status, SumOf(LinesOf(i)), SumOf(ActiveOf(i)))
  BY <1>1 DEF Agrees
<1> HIDE DEF n
<1> QED BY <1>1, <1>2, <1>3, <1>4, <1>5, <1>6, RowWritten

-----------------------------------------------------------------------------
(* The invariant                                                           *)

LEMMA InitIInv == Init => IInv
<1> SUFFICES ASSUME Init
             PROVE  IInv
  OBVIOUS
<1>1. \A i \in Invoices : LinesOf(i) = {} /\ ActiveOf(i) = {} /\ ~Exists(i)
                          /\ invoices[i] = NoInvoice
  BY DEF Init, LinesOf, ActiveOf, Exists, NoInvoice
<1>2. Shape
  BY IdleRecord, InvoicesAssumption
     DEF Init, Shape, Fields, Held, Voidable, NoInvoice, Statuses
<1>3. NothingWithoutRow
  BY <1>1 DEF NothingWithoutRow
<1>4. AmountIsItsLines
  BY <1>1, EmptySum DEF AmountIsItsLines, NoInvoice
<1>5. StatusTellsThePayments
  BY <1>1, EmptySum DEF StatusTellsThePayments, NoInvoice, Agrees
<1>6. NumbersGapless
  BY <1>1 DEF NumbersGapless, Init
<1>7. Drawn
  BY IdleRecord DEF Drawn, Init, At
<1> QED BY <1>2, <1>3, <1>4, <1>5, <1>6, <1>7 DEF IInv

LEMMA StepIInv == IInv /\ [Next]_vars => IInv'
<1> SUFFICES ASSUME IInv, [Next]_vars
             PROVE  IInv'
  OBVIOUS
<1>1. ASSUME NEW q \in Requests, DrawNumber(q) PROVE IInv'
  BY <1>1, DrawNumberOK
<1>2. ASSUME NEW q \in Requests, ReplaceLines(q) PROVE IInv'
  BY <1>2, ReplaceLinesOK
<1>3. ASSUME NEW q \in Requests, ReadPayments(q) PROVE IInv'
  BY <1>3, ReadPaymentsOK
<1>4. ASSUME NEW q \in Requests, PayBalance(q) PROVE IInv'
  <2>1. requests[q].of \in Invoices
    BY DEF IInv, Shape, Held
  <2> QED BY <1>4, <2>1, PaysOK DEF PayBalance
<1>5. ASSUME NEW q \in Requests, Issue(q) PROVE IInv'
  <2>1. requests[q].of \in Invoices
    BY DEF IInv, Shape, Held
  <2> QED BY <1>5, <2>1, StatusSetOK DEF Issue
<1>6. ASSUME NEW q \in Requests, VoidPayments(q) PROVE IInv'
  BY <1>6, VoidPaymentsOK
<1>7. ASSUME NEW q \in Requests, Abandon(q) PROVE IInv'
  BY <1>7, AbandonOK
<1>8. ASSUME NEW q \in Requests, NEW i \in Invoices,
             NEW status \in {"draft", "sent"}, NEW sum \in Totals,
             CreateInvoice(q, i, status, sum)
      PROVE  IInv'
  BY <1>8, CreateInvoiceOK
<1>9. ASSUME NEW q \in Requests, NEW i \in Invoices, NEW sum \in Totals,
             ReadOldLines(q, i, sum)
      PROVE  IInv'
  BY <1>9, ReadOldLinesOK
<1>10. ASSUME NEW q \in Requests, NEW i \in Invoices,
              ReadInvoice(q, i) \/ ReadDraft(q, i) \/ ReadActive(q, i)
       PROVE  IInv'
  BY <1>10, ReadInvoiceOK, ReadDraftOK, ReadActiveOK
<1>11. ASSUME NEW i \in Invoices, NEW m \in 1..MaxNumber, ImportInvoice(i, m)
       PROVE  IInv'
  BY <1>11, ImportInvoiceOK
<1>12. ASSUME NEW i \in Invoices, NEW amount \in Amounts, RecordPayment(i, amount)
       PROVE  IInv'
  BY <1>12, PaysOK DEF RecordPayment
<1>13. ASSUME NEW i \in Invoices, CancelInvoice(i)
       PROVE  IInv'
  BY <1>13, StatusSetOK DEF CancelInvoice
<1>14. CASE UNCHANGED vars
  <2>1. \A i \in Invoices : /\ LinesOf(i)' = LinesOf(i) /\ ActiveOf(i)' = ActiveOf(i)
                            /\ Exists(i)' = Exists(i)
    BY <1>14 DEF vars, LinesOf, ActiveOf, Exists
  <2>2. Shape' /\ Numbers' = Numbers
    BY <1>14 DEF vars, IInv, Shape, Numbers, Exists, Fields, Held, Voidable
  <2>3. NothingWithoutRow' /\ AmountIsItsLines' /\ StatusTellsThePayments'
    BY <1>14, <2>1 DEF vars, IInv, NothingWithoutRow, AmountIsItsLines, StatusTellsThePayments
  <2>4. NumbersGapless' /\ Drawn'
    BY <1>14, <2>1, <2>2 DEF vars, IInv, NumbersGapless, Drawn, At
  <2> QED BY <2>2, <2>3, <2>4 DEF IInv
<1> QED
  BY <1>1, <1>2, <1>3, <1>4, <1>5, <1>6, <1>7, <1>8, <1>9, <1>10, <1>11, <1>12,
     <1>13, <1>14
     DEF Next, RequestNext

\* The inductive invariant of the first layer holds in every state.
THEOREM Invariance == Spec => []IInv
BY InitIInv, StepIInv, PTL DEF Spec

\* Amount and lines never disagree, for any number of invoices, requests and
\* lists of lines (the item triggers of 0022).
THEOREM AmountsAgree == Spec => []AmountIsItsLines
<1>1. IInv => AmountIsItsLines
  BY DEF IInv
<1> QED BY Invariance, <1>1, PTL

\* The status of an invoice tells what was paid, in every order of edits,
\* payments, voidings and cancellations (recompute_invoice and the guards).
THEOREM StatusTells == Spec => []StatusTellsThePayments
<1>1. IInv => StatusTellsThePayments
  BY DEF IInv
<1> QED BY Invariance, <1>1, PTL

\* Numbers are unique and without a gap, however many creations are rolled back
\* and numbers made by hand (next_invoice_number).
THEOREM Gapless == Spec => []NumbersGapless
<1>1. IInv => NumbersGapless
  BY DEF IInv
<1> QED BY Invariance, <1>1, PTL

-----------------------------------------------------------------------------
(* The types, and what finite sums add                                     *)

\* Payments have been numbered one after the other.
Numbered ==
    /\ \A p \in payments : p.id <= Cardinality(payments)
    /\ \A p, s \in payments : p.id = s.id => p = s

\* A cancelled invoice holds no money.
CancelledUnpaid ==
    \A i \in Invoices : invoices[i].status = "void" => SumOf(ActiveOf(i)) = 0

Solid == TypeOK /\ IsFiniteSet(lines) /\ IsFiniteSet(payments) /\ Numbered /\ CancelledUnpaid

LEMMA IdleTyped == Idle \in Request
<1>1. Nobody \in Invoices
  BY InvoicesAssumption DEF Nobody
<1> QED BY <1>1, InvoicesAssumption DEF Idle, Request

LEMMA SumsTyped ==
    ASSUME Solid, NEW i \in Invoices
    PROVE  /\ Counted(LinesOf(i)) /\ SumOf(LinesOf(i)) \in Nat
           /\ Counted(ActiveOf(i)) /\ SumOf(ActiveOf(i)) \in Nat
<1>1. Counted(lines) /\ Counted(payments)
  BY DEF Solid, TypeOK, Line, Payment, Counted
<1>2. Counted(LinesOf(i)) /\ Counted(ActiveOf(i))
  BY <1>1, CountedSubset DEF LinesOf, ActiveOf
<1> QED BY <1>2, SumNat

LEMMA RecomputedTyped ==
    ASSUME NEW r \in Invoice, NEW total \in Nat, NEW paid \in Nat
    PROVE  Recomputed(r, total, paid) \in Invoice
BY DEF Recomputed, Invoice, StatusFor, Statuses

\* Only a request changes.
LEMMA RequestSolid ==
    ASSUME Solid, NEW q \in Requests, NEW r \in Request, Goes(q, r),
           UNCHANGED <<invoices, counter, lines, written, payments>>
    PROVE  Solid'
<1>1. TypeOK'
  BY DEF Solid, TypeOK, Goes
<1> QED BY <1>1 DEF Solid, Numbered, CancelledUnpaid, ActiveOf

LEMMA RequestsTyped ==
    ASSUME Solid, UNCHANGED requests \/ \E q \in Requests : Goes(q, Idle)
    PROVE  requests' \in [Requests -> Request]
BY IdleTyped DEF Solid, TypeOK, Goes

LEMMA DrawNumberSolid ==
    ASSUME Solid, NEW q \in Requests, DrawNumber(q)
    PROVE  Solid'
<1>1. PICK n \in NextNumbers : Goes(q, [Idle EXCEPT !.step = "numbered", !.number = n])
  BY DEF DrawNumber
<1>2. n \in 0..MaxNumber
  BY InvoicesAssumption DEF NextNumbers, Solid, TypeOK
<1>3. [Idle EXCEPT !.step = "numbered", !.number = n] \in Request
  BY <1>2, IdleTyped DEF Request
<1> QED BY <1>1, <1>3, RequestSolid DEF DrawNumber

LEMMA ReadOldLinesSolid ==
    ASSUME Solid, NEW q \in Requests, NEW i \in Invoices, NEW sum \in Totals,
           ReadOldLines(q, i, sum)
    PROVE  Solid'
<1> DEFINE ids == {l.id : l \in LinesOf(i)}
           r == [Idle EXCEPT !.step = "editing", !.of = i, !.sum = sum, !.rows = ids]
<1>1. ids \in SUBSET Nat
  BY DEF Solid, TypeOK, LinesOf, Line
<1>2. sum \in Nat
  BY InvoicesAssumption
<1> HIDE DEF ids
<1>3. r \in Request
  BY <1>1, <1>2, IdleTyped DEF Request
<1>4. Goes(q, r) /\ UNCHANGED <<invoices, counter, lines, written, payments>>
  BY DEF ReadOldLines, ids
<1> HIDE DEF r
<1> QED BY <1>3, <1>4, RequestSolid

LEMMA ReadInvoiceSolid ==
    ASSUME Solid, NEW q \in Requests, NEW i \in Invoices, ReadInvoice(q, i)
    PROVE  Solid'
<1> DEFINE r == [Idle EXCEPT !.step = "balance", !.of = i, !.sum = invoices[i].amount]
<1>1. invoices[i].amount \in Nat
  BY DEF Solid, TypeOK, Invoice
<1>2. r \in Request
  BY <1>1, IdleTyped DEF Request
<1> QED BY <1>2, RequestSolid DEF ReadInvoice

LEMMA ReadDraftSolid ==
    ASSUME Solid, NEW q \in Requests, NEW i \in Invoices, ReadDraft(q, i)
    PROVE  Solid'
<1>1. [Idle EXCEPT !.step = "issuing", !.of = i] \in Request
  BY IdleTyped DEF Request
<1> QED BY <1>1, RequestSolid DEF ReadDraft

LEMMA ReadActiveSolid ==
    ASSUME Solid, NEW q \in Requests, NEW i \in Invoices, ReadActive(q, i)
    PROVE  Solid'
<1> DEFINE ids == {p.id : p \in ActiveOf(i)}
           r == [Idle EXCEPT !.step = "voiding", !.of = i, !.rows = ids]
<1>1. ids \in SUBSET Nat
  BY InvoicesAssumption DEF Solid, TypeOK, ActiveOf, Payment
<1> HIDE DEF ids
<1>2. r \in Request
  BY <1>1, IdleTyped DEF Request
<1>3. Goes(q, r) /\ UNCHANGED <<invoices, counter, lines, written, payments>>
  BY DEF ReadActive, ids
<1> HIDE DEF r
<1> QED BY <1>2, <1>3, RequestSolid

LEMMA AbandonSolid ==
    ASSUME Solid, NEW q \in Requests, Abandon(q)
    PROVE  Solid'
BY IdleTyped, RequestSolid DEF Abandon

LEMMA ReadPaymentsSolid ==
    ASSUME Solid, NEW q \in Requests, ReadPayments(q)
    PROVE  Solid'
<1> DEFINE r == requests[q]
           paid == SumOf(ActiveOf(r.of))
           n == [r EXCEPT !.step = "paying", !.sum = r.sum - paid]
<1>1. r \in Request /\ r.of \in Invoices /\ r.sum \in Nat
  BY DEF Solid, TypeOK, Request
<1>2. paid \in Nat
  BY <1>1, SumsTyped
<1>3. UNCHANGED <<invoices, counter, lines, written, payments>>
  BY DEF ReadPayments
<1>4. (paid < r.sum /\ Goes(q, n)) \/ Goes(q, Idle)
  BY DEF ReadPayments
<1>5. CASE Goes(q, Idle)
  BY <1>3, <1>5, IdleTyped, RequestSolid
<1>6. CASE paid < r.sum /\ Goes(q, n)
  <2> HIDE DEF r, paid
  <2>1. r.sum - paid \in Nat
    BY <1>1, <1>2, <1>6
  <2>2. n \in Request
    BY <1>1, <2>1 DEF Request
  <2> HIDE DEF n
  <2> QED BY <1>3, <1>6, <2>2, RequestSolid
<1> QED BY <1>4, <1>5, <1>6

\* A list of lines is written.
LEMMA LinesTyped ==
    ASSUME Solid, NEW i \in Invoices, NEW sum \in Nat, Writes(i, sum)
    PROVE  /\ written' \in [Invoices -> Nat]
           /\ NewLines(i, sum) \subseteq Line /\ IsFiniteSet(NewLines(i, sum))
           /\ SumOf(NewLines(i, sum)) = sum
<1>1. written' \in [Invoices -> Nat]
  BY DEF Solid, TypeOK, Writes
<1> DEFINE l == [id |-> written[i] + 1, of |-> i, sum |-> sum]
<1>2. l \in Line /\ l.sum = sum
  BY DEF Solid, TypeOK, Line
<1>3. NewLines(i, sum) = IF sum = 0 THEN {} ELSE {l}
  BY DEF NewLines
<1> HIDE DEF l
<1> QED BY <1>1, <1>2, <1>3, EmptySum, SingleSum, FS_EmptySet, FS_Singleton

LEMMA CreateInvoiceSolid ==
    ASSUME Solid, NEW q \in Requests, NEW i \in Invoices,
           NEW status \in {"draft", "sent"}, NEW sum \in Totals,
           CreateInvoice(q, i, status, sum)
    PROVE  Solid'
<1> DEFINE n == [status |-> status, amount |-> SumOf(NewLines(i, sum)),
                 number |-> requests[q].number]
<1>0. sum \in Nat /\ requests[q].number \in 0..MaxNumber
  BY InvoicesAssumption DEF Solid, TypeOK, Request
<1>1. /\ invoices' = [invoices EXCEPT ![i] = n] /\ counter' = requests[q].number
      /\ Writes(i, sum) /\ lines' = lines \cup NewLines(i, sum)
      /\ Goes(q, Idle) /\ UNCHANGED payments
  BY DEF CreateInvoice
<1>2. /\ written' \in [Invoices -> Nat]
      /\ NewLines(i, sum) \subseteq Line /\ IsFiniteSet(NewLines(i, sum))
      /\ SumOf(NewLines(i, sum)) = sum
  BY <1>0, <1>1, LinesTyped
<1>3. n \in Invoice /\ n.status # "void"
  BY <1>0, <1>2 DEF Invoice, Statuses
<1>4. requests' \in [Requests -> Request]
  BY <1>1, RequestsTyped
<1> HIDE DEF n
<1>5. TypeOK'
  BY <1>0, <1>1, <1>2, <1>3, <1>4 DEF Solid, TypeOK
<1>6. IsFiniteSet(lines') /\ IsFiniteSet(payments')
  BY <1>1, <1>2, FS_Union DEF Solid
<1>7. Numbered'
  BY <1>1 DEF Solid, Numbered
<1>8. CancelledUnpaid'
  BY <1>1, <1>3 DEF Solid, TypeOK, CancelledUnpaid, ActiveOf
<1> QED BY <1>5, <1>6, <1>7, <1>8 DEF Solid

LEMMA ImportInvoiceSolid ==
    ASSUME Solid, NEW i \in Invoices, NEW m \in 1..MaxNumber, ImportInvoice(i, m)
    PROVE  Solid'
<1> DEFINE n == [status |-> "sent", amount |-> 0, number |-> m]
<1>1. /\ invoices' = [invoices EXCEPT ![i] = n]
      /\ UNCHANGED <<counter, lines, written, payments, requests>>
  BY DEF ImportInvoice
<1>2. n \in Invoice /\ n.status # "void"
  BY InvoicesAssumption DEF Invoice, Statuses
<1> HIDE DEF n
<1>3. TypeOK'
  BY <1>1, <1>2 DEF Solid, TypeOK
<1>4. CancelledUnpaid'
  BY <1>1, <1>2 DEF Solid, TypeOK, CancelledUnpaid, ActiveOf
<1> QED BY <1>1, <1>3, <1>4 DEF Solid, Numbered

LEMMA ReplaceLinesSolid ==
    ASSUME Solid, NEW q \in Requests, ReplaceLines(q)
    PROVE  Solid'
<1> DEFINE r == requests[q]
           i == r.of
           left == {l \in LinesOf(i) : l.id \notin r.rows} \cup NewLines(i, r.sum)
           n == Recomputed(invoices[i], SumOf(left), SumOf(ActiveOf(i)))
<1>1. i \in Invoices /\ r.sum \in Nat /\ invoices[i] \in Invoice
  BY DEF Solid, TypeOK, Request
<1>2. /\ Editable(i) /\ Writes(i, r.sum)
      /\ lines' = (lines \ LinesOf(i)) \cup left
      /\ invoices' = [invoices EXCEPT ![i] = n]
      /\ Goes(q, Idle) /\ UNCHANGED <<counter, payments>>
  BY DEF ReplaceLines
<1>3. /\ written' \in [Invoices -> Nat]
      /\ NewLines(i, r.sum) \subseteq Line /\ IsFiniteSet(NewLines(i, r.sum))
  BY <1>1, <1>2, LinesTyped
<1> DEFINE kept == {l \in LinesOf(i) : l.id \notin r.rows}
<1>4. left \subseteq Line /\ IsFiniteSet(left)
  <2>1. kept \subseteq lines /\ left = kept \cup NewLines(i, r.sum)
    BY DEF LinesOf
  <2> HIDE DEF kept, left
  <2>2. IsFiniteSet(kept) /\ kept \subseteq Line
    BY <2>1, FS_Subset DEF Solid, TypeOK
  <2> QED BY <1>3, <2>1, <2>2, FS_Union
<1>5. SumOf(left) \in Nat /\ SumOf(ActiveOf(i)) \in Nat
  <2> HIDE DEF left
  <2>1. Counted(left)
    BY <1>4 DEF Counted, Line
  <2> QED BY <1>1, <2>1, SumNat, SumsTyped
<1>6. n \in Invoice /\ n.status # "void"
  <2>1. n \in Invoice
    BY <1>1, <1>5, RecomputedTyped
  <2>2. invoices[i].status # "void"
    BY <1>2 DEF Editable
  <2> QED BY <2>1, <2>2 DEF Recomputed, StatusFor
<1>7. requests' \in [Requests -> Request]
  BY <1>2, RequestsTyped
<1> HIDE DEF n, left
<1>8. lines' \subseteq Line /\ IsFiniteSet(lines')
  <2>1. IsFiniteSet(lines \ LinesOf(i)) /\ lines \ LinesOf(i) \subseteq Line
    BY FS_Difference DEF Solid, TypeOK
  <2> QED BY <1>2, <1>4, <2>1, FS_Union
<1> HIDE DEF i
<1>9. TypeOK'
  BY <1>1, <1>2, <1>3, <1>6, <1>7, <1>8 DEF Solid, TypeOK
<1>10. CancelledUnpaid'
  BY <1>1, <1>2, <1>6 DEF Solid, TypeOK, CancelledUnpaid, ActiveOf
<1> QED BY <1>2, <1>8, <1>9, <1>10 DEF Solid, Numbered

\* The payment a member makes is a new row.
LEMMA NewPayment ==
    ASSUME Solid, NEW i \in Invoices, NEW amount \in Nat, NextPayment <= MaxPayments
    PROVE  LET new == [id |-> NextPayment, of |-> i, sum |-> amount, voided |-> FALSE] IN
           /\ new \in Payment /\ new.sum = amount
           /\ \A p \in payments : p.id # new.id
           /\ Cardinality(payments) \in Nat /\ NextPayment = Cardinality(payments) + 1
<1>1. Cardinality(payments) \in Nat /\ NextPayment = Cardinality(payments) + 1
  BY FS_CardinalityType DEF Solid, NextPayment
<1>2. NextPayment \in 1..MaxPayments
  BY <1>1, InvoicesAssumption
<1>3. \A p \in payments : p.id # NextPayment
  BY <1>1, InvoicesAssumption DEF Solid, TypeOK, Numbered, Payment
<1> QED BY <1>1, <1>2, <1>3 DEF Payment

LEMMA PaysSolid ==
    ASSUME Solid, NEW i \in Invoices, NEW amount \in Nat, Pays(i, amount),
           UNCHANGED requests \/ \E q \in Requests : Goes(q, Idle)
    PROVE  /\ Solid'
           /\ SumOf(ActiveOf(i)') = SumOf(ActiveOf(i)) + amount
<1> DEFINE new == [id |-> NextPayment, of |-> i, sum |-> amount, voided |-> FALSE]
           active == ActiveOf(i) \cup {new}
           n == Recomputed(invoices[i], SumOf(LinesOf(i)), SumOf(active))
<1>1. /\ Payable(i, amount) /\ NextPayment <= MaxPayments
      /\ payments' = payments \cup active
      /\ invoices' = [invoices EXCEPT ![i] = n]
      /\ UNCHANGED <<counter, lines, written>>
  BY DEF Pays
<1>2. /\ new \in Payment /\ new.sum = amount /\ new.id = NextPayment
      /\ new.of = i /\ new.voided = FALSE
      /\ \A p \in payments : p.id # new.id
      /\ Cardinality(payments) \in Nat /\ NextPayment = Cardinality(payments) + 1
  BY <1>1, NewPayment
<1>3. new \notin payments /\ new \notin ActiveOf(i)
  BY <1>2 DEF ActiveOf
<1> HIDE DEF new
<1>4. payments' = payments \cup {new} /\ ActiveOf(i)' = active
  BY <1>1, <1>2 DEF ActiveOf
<1>5. Counted(active) /\ SumOf(active) = SumOf(ActiveOf(i)) + amount
  BY <1>2, <1>3, SumsTyped, SumAdd
<1>6. SumOf(active) \in Nat /\ SumOf(LinesOf(i)) \in Nat /\ invoices[i] \in Invoice
  BY <1>5, SumNat, SumsTyped DEF Solid, TypeOK
<1>7. n \in Invoice /\ n.status # "void"
  <2>1. invoices[i].status # "void"
    BY <1>1 DEF Payable
  <2> QED BY <1>6, <2>1, RecomputedTyped DEF Recomputed, StatusFor
<1> HIDE DEF n
<1>8. requests' \in [Requests -> Request]
  BY RequestsTyped
<1>9. IsFiniteSet(payments') /\ Cardinality(payments') = Cardinality(payments) + 1
  BY <1>3, <1>4, FS_AddElement DEF Solid
<1>10. TypeOK'
  BY <1>1, <1>2, <1>4, <1>7, <1>8 DEF Solid, TypeOK
<1>11. Numbered'
  <2>1. \A p \in payments : p.id \in Nat /\ p.id <= Cardinality(payments)
    BY InvoicesAssumption DEF Solid, TypeOK, Payment, Numbered
  <2> QED BY <1>2, <1>4, <1>9, <2>1 DEF Solid, Numbered
<1>12. CancelledUnpaid'
  <2>1. \A j \in Invoices \ {i} : ActiveOf(j)' = ActiveOf(j)
    BY <1>2, <1>4 DEF ActiveOf
  <2> QED BY <1>1, <1>7, <2>1 DEF Solid, TypeOK, CancelledUnpaid
<1> QED BY <1>1, <1>4, <1>5, <1>9, <1>10, <1>11, <1>12 DEF Solid

AfterVoiding(i, ids) == {Voided(p, i, ids) : p \in payments}

\* Voiding replaces rows one for one, so their number stays.
LEMMA VoidedRows ==
    ASSUME Solid, NEW i \in Invoices, NEW ids
    PROVE  /\ AfterVoiding(i, ids) \subseteq Payment /\ IsFiniteSet(AfterVoiding(i, ids))
           /\ Cardinality(AfterVoiding(i, ids)) = Cardinality(payments)
           /\ \A p \in AfterVoiding(i, ids) : p.id <= Cardinality(payments)
           /\ \A p, s \in AfterVoiding(i, ids) : p.id = s.id => p = s
<1> DEFINE after == AfterVoiding(i, ids)
           f == [p \in payments |-> Voided(p, i, ids)]
<1>1. \A p \in payments : Voided(p, i, ids) \in Payment /\ Voided(p, i, ids).id = p.id
  BY DEF Voided, Solid, TypeOK, Payment
<1>2. \A p, s \in payments : p.id = s.id => p = s
  BY DEF Solid, Numbered
<1>3. f \in Bijection(payments, after)
  <2>1. f \in [payments -> after] /\ \A y \in after : \E p \in payments : f[p] = y
    BY DEF AfterVoiding
  <2>2. \A p, s \in payments : f[p] = f[s] => p = s
    BY <1>1, <1>2
  <2> HIDE DEF f, after
  <2> QED BY <2>1, <2>2 DEF Bijection, Injection, Surjection, IsInjective
<1>4. IsFiniteSet(after) /\ Cardinality(after) = Cardinality(payments)
  BY <1>3, FS_Bijection DEF ExistsBijection, Solid
<1>5. /\ after \subseteq Payment
      /\ \A p \in after : p.id <= Cardinality(payments)
      /\ \A p, s \in after : p.id = s.id => p = s
  BY <1>1, <1>2 DEF Solid, Numbered, AfterVoiding
<1> QED BY <1>4, <1>5

LEMMA VoidPaymentsSolid ==
    ASSUME Solid, NEW q \in Requests, VoidPayments(q),
           NEW i \in Invoices, i = requests[q].of
    PROVE  /\ Solid'
           /\ ActiveOf(i)' = {p \in ActiveOf(i) : p.id \notin requests[q].rows}
           /\ SumOf(ActiveOf(i)') <= SumOf(ActiveOf(i))
           /\ \A j \in Invoices \ {i} : ActiveOf(j)' = ActiveOf(j)
<1> DEFINE ids == requests[q].rows
           active == {p \in ActiveOf(i) : p.id \notin ids}
           n == Recomputed(invoices[i], SumOf(LinesOf(i)), SumOf(active))
<1>1. /\ payments' = {Voided(p, i, ids) : p \in payments}
      /\ invoices' = [invoices EXCEPT ![i] = n]
      /\ Goes(q, Idle) /\ UNCHANGED <<counter, lines, written>>
  BY DEF VoidPayments
<1>2. /\ payments' \subseteq Payment /\ IsFiniteSet(payments')
      /\ Cardinality(payments') = Cardinality(payments)
      /\ Numbered'
  <2>1. payments' = AfterVoiding(i, ids)
    BY <1>1 DEF AfterVoiding
  <2> HIDE DEF ids
  <2> QED BY <2>1, VoidedRows DEF Numbered
<1>3. \A p \in payments :
         LET v == Voided(p, i, ids) IN
         /\ v.of = p.of
         /\ v = p \/ v.voided = TRUE
         /\ v = p <=> p.of # i \/ p.id \notin ids \/ p.voided = TRUE
  BY DEF Voided, Solid, TypeOK, Payment
<1>4. ActiveOf(i)' = active /\ \A j \in Invoices \ {i} : ActiveOf(j)' = ActiveOf(j)
  BY <1>1, <1>3 DEF ActiveOf
<1>5. SumOf(active) \in Nat /\ SumOf(active) <= SumOf(ActiveOf(i))
  <2>1. active \in SUBSET ActiveOf(i)
    OBVIOUS
  <2> HIDE DEF active
  <2> QED BY <2>1, SumsTyped, SumMonotone, CountedSubset, SumNat
<1>6. SumOf(LinesOf(i)) \in Nat /\ invoices[i] \in Invoice /\ SumOf(ActiveOf(i)) \in Nat
  BY SumsTyped DEF Solid, TypeOK
<1> HIDE DEF active
<1>7. n \in Invoice /\ (n.status = "void" => invoices[i].status = "void")
  <2>1. n \in Invoice
    BY <1>5, <1>6, RecomputedTyped
  <2> QED BY <2>1, <1>6 DEF Recomputed, StatusFor
<1> HIDE DEF n
<1>8. requests' \in [Requests -> Request]
  BY <1>1, RequestsTyped
<1>9. TypeOK'
  BY <1>1, <1>2, <1>7, <1>8 DEF Solid, TypeOK
<1>10. CancelledUnpaid'
  BY <1>1, <1>4, <1>5, <1>6, <1>7 DEF Solid, TypeOK, CancelledUnpaid
<1> QED BY <1>1, <1>2, <1>4, <1>5, <1>9, <1>10 DEF Solid, active

LEMMA StatusSetSolid ==
    ASSUME Solid, NEW i \in Invoices, NEW status \in {"sent", "void"},
           SumOf(ActiveOf(i)) = 0,
           invoices' = [invoices EXCEPT ![i] = WithStatus(i, status)],
           UNCHANGED <<counter, lines, written, payments>>,
           UNCHANGED requests \/ \E q \in Requests : Goes(q, Idle)
    PROVE  Solid'
<1>1. WithStatus(i, status) \in Invoice
  BY SumsTyped DEF WithStatus, Invoice, Statuses, Solid, TypeOK
<1>2. requests' \in [Requests -> Request]
  BY RequestsTyped
<1>3. TypeOK'
  BY <1>1, <1>2 DEF Solid, TypeOK
<1>4. CancelledUnpaid'
  BY <1>1 DEF Solid, TypeOK, CancelledUnpaid, ActiveOf
<1> QED BY <1>3, <1>4 DEF Solid, Numbered

LEMMA InitSolid == Init => Solid
<1> SUFFICES ASSUME Init
             PROVE  Solid
  OBVIOUS
<1>1. NoInvoice \in Invoice
  BY InvoicesAssumption DEF NoInvoice, Invoice, Statuses
<1>2. TypeOK
  BY <1>1, IdleTyped, InvoicesAssumption DEF Init, TypeOK
<1>3. CancelledUnpaid
  BY DEF Init, CancelledUnpaid, NoInvoice
<1> QED BY <1>2, <1>3, FS_EmptySet DEF Init, Solid, Numbered

LEMMA StepSolid == Solid /\ [Next]_vars => Solid'
<1> SUFFICES ASSUME Solid, [Next]_vars
             PROVE  Solid'
  OBVIOUS
<1>0. ASSUME NEW q \in Requests
      PROVE  requests[q].of \in Invoices /\ requests[q].sum \in Nat
  BY DEF Solid, TypeOK, Request
<1>1. ASSUME NEW q \in Requests,
             \/ DrawNumber(q) \/ ReplaceLines(q) \/ ReadPayments(q)
             \/ VoidPayments(q) \/ Abandon(q)
      PROVE  Solid'
  BY <1>0, <1>1, DrawNumberSolid, ReplaceLinesSolid, ReadPaymentsSolid,
     VoidPaymentsSolid, AbandonSolid
<1>2. ASSUME NEW q \in Requests, PayBalance(q) PROVE Solid'
  BY <1>0, <1>2, PaysSolid DEF PayBalance
<1>3. ASSUME NEW q \in Requests, Issue(q) PROVE Solid'
  BY <1>0, <1>3, StatusSetSolid DEF Issue
<1>4. ASSUME NEW q \in Requests, NEW i \in Invoices,
             NEW status \in {"draft", "sent"}, NEW sum \in Totals,
             CreateInvoice(q, i, status, sum)
      PROVE  Solid'
  BY <1>4, CreateInvoiceSolid
<1>5. ASSUME NEW q \in Requests, NEW i \in Invoices, NEW sum \in Totals,
             ReadOldLines(q, i, sum)
      PROVE  Solid'
  BY <1>5, ReadOldLinesSolid
<1>6. ASSUME NEW q \in Requests, NEW i \in Invoices,
             ReadInvoice(q, i) \/ ReadDraft(q, i) \/ ReadActive(q, i)
      PROVE  Solid'
  BY <1>6, ReadInvoiceSolid, ReadDraftSolid, ReadActiveSolid
<1>7. ASSUME NEW i \in Invoices, NEW m \in 1..MaxNumber, ImportInvoice(i, m)
      PROVE  Solid'
  BY <1>7, ImportInvoiceSolid
<1>8. ASSUME NEW i \in Invoices, NEW amount \in Amounts, RecordPayment(i, amount)
      PROVE  Solid'
  BY <1>8, InvoicesAssumption, PaysSolid DEF RecordPayment
<1>9. ASSUME NEW i \in Invoices, CancelInvoice(i) PROVE Solid'
  BY <1>9, StatusSetSolid DEF CancelInvoice
<1>10. CASE UNCHANGED vars
  BY <1>10 DEF vars, Solid, TypeOK, Numbered, CancelledUnpaid, ActiveOf
<1> QED
  BY <1>1, <1>2, <1>3, <1>4, <1>5, <1>6, <1>7, <1>8, <1>9, <1>10 DEF Next, RequestNext

-----------------------------------------------------------------------------
(* The ledger                                                              *)

\* What the ledger sees of the invoices.
phases == [i \in Invoices |-> Phase(invoices[i].status)]
totals == [i \in Invoices |-> SumOf(LinesOf(i))]
paids == [i \in Invoices |-> SumOf(ActiveOf(i))]

\* What a step that touches one invoice does to the ledger.
LEMMA AccountMoves ==
    ASSUME NEW i \in Invoices,
           \A j \in Invoices \ {i} :
               /\ invoices'[j].status = invoices[j].status
               /\ LinesOf(j)' = LinesOf(j) /\ ActiveOf(j)' = ActiveOf(j)
    PROVE  /\ phases' = [phases EXCEPT ![i] = Phase(invoices'[i].status)]
           /\ totals' = [totals EXCEPT ![i] = SumOf(LinesOf(i)')]
           /\ paids' = [paids EXCEPT ![i] = SumOf(ActiveOf(i)')]
<1>1. phases' = [phases EXCEPT ![i] = Phase(invoices'[i].status)]
  BY DEF phases, Phase
<1>2. totals' = [totals EXCEPT ![i] = SumOf(LinesOf(i)')]
  <2>1. totals' = [j \in Invoices |-> SumOf(LinesOf(j)')]
    BY DEF totals
  <2>2. \A j \in Invoices : j # i => SumOf(LinesOf(j)') = SumOf(LinesOf(j))
    OBVIOUS
  <2> QED BY <2>1, <2>2 DEF totals
<1>3. paids' = [paids EXCEPT ![i] = SumOf(ActiveOf(i)')]
  <2>1. paids' = [j \in Invoices |-> SumOf(ActiveOf(j)')]
    BY DEF paids
  <2>2. \A j \in Invoices : j # i => SumOf(ActiveOf(j)') = SumOf(ActiveOf(j))
    OBVIOUS
  <2> QED BY <2>1, <2>2 DEF paids
<1> QED BY <1>1, <1>2, <1>3

\* An invoice and its account.
LEMMA Account ==
    ASSUME IInv, Solid, NEW i \in Invoices
    PROVE  LET status == invoices[i].status IN
           /\ invoices[i] \in Invoice
           /\ phases[i] = Phase(status)
           /\ totals[i] = SumOf(LinesOf(i)) /\ totals[i] \in Nat
           /\ paids[i] = SumOf(ActiveOf(i)) /\ paids[i] \in Nat
           /\ status \notin {"partially_paid", "paid"} => paids[i] = 0
           /\ status \in {"partially_paid", "paid"} => paids[i] > 0
           /\ status = "partially_paid" => paids[i] < totals[i]
<1>1. SumOf(LinesOf(i)) \in Nat /\ SumOf(ActiveOf(i)) \in Nat
  BY SumsTyped
<1>2. invoices[i].status = "void" => SumOf(ActiveOf(i)) = 0
  BY DEF Solid, CancelledUnpaid
<1>3. /\ invoices[i].amount = SumOf(LinesOf(i))
      /\ invoices[i].status # "void"
         => Agrees(invoices[i].status, SumOf(LinesOf(i)), SumOf(ActiveOf(i)))
  BY DEF IInv, AmountIsItsLines, StatusTellsThePayments
<1>4. invoices[i] \in Invoice
  BY DEF Solid, TypeOK
<1>5. /\ phases[i] = Phase(invoices[i].status)
      /\ totals[i] = SumOf(LinesOf(i)) /\ paids[i] = SumOf(ActiveOf(i))
  BY DEF phases, totals, paids
<1> QED BY <1>1, <1>2, <1>3, <1>4, <1>5 DEF Agrees

\* What the requests read and keep, the ledger does not see.
LEMMA Unseen ==
    ASSUME UNCHANGED <<invoices, lines, payments>>
    PROVE  UNCHANGED <<phases, totals, paids>>
<1>1. UNCHANGED phases
  BY DEF phases, Phase
<1>2. UNCHANGED totals
  BY DEF totals, LinesOf
<1>3. UNCHANGED paids
  BY DEF paids, ActiveOf
<1> QED BY <1>1, <1>2, <1>3

LEMMA CreateKeeps ==
    ASSUME IInv, Solid, NEW i \in Invoices, NEW n \in Invoice,
           ~Exists(i), n.status \in {"draft", "sent"},
           invoices' = [invoices EXCEPT ![i] = n],
           UNCHANGED payments, SumOf(LinesOf(i)') \in Nat,
           \A j \in Invoices \ {i} : LinesOf(j)' = LinesOf(j)
    PROVE  Money!Next
<1>1. \A j \in Invoices : ActiveOf(j)' = ActiveOf(j)
  BY DEF ActiveOf
<1>2. /\ invoices'[i] = n
      /\ \A j \in Invoices \ {i} : invoices'[j] = invoices[j]
  BY DEF Solid, TypeOK
<1>3. /\ phases' = [phases EXCEPT ![i] = Phase(n.status)]
      /\ totals' = [totals EXCEPT ![i] = SumOf(LinesOf(i)')]
      /\ paids' = [paids EXCEPT ![i] = SumOf(ActiveOf(i)')]
  BY <1>1, <1>2, AccountMoves
<1>4. paids' = paids /\ phases[i] = "none"
  BY <1>1, <1>3 DEF paids, phases, Exists, Phase
<1>5. Phase(n.status) \in {"draft", "open"}
  BY DEF Phase
<1>6. totals'[i] = SumOf(LinesOf(i)')
  BY <1>3 DEF totals
<1>7. Money!Create(i)
  BY <1>3, <1>4, <1>5, <1>6 DEF Money!Create, Money!OnlyAt, phases, totals, paids
<1> QED BY <1>7 DEF Money!Next

LEMMA ReplaceKeeps ==
    ASSUME IInv, Solid, NEW q \in Requests, ReplaceLines(q)
    PROVE  Money!Next
<1>1. requests[q].of \in Invoices /\ requests[q].sum \in Nat
  BY DEF Solid, TypeOK, Request
<1> PICK i \in Invoices : i = requests[q].of
  BY <1>1
<1> DEFINE r == requests[q]
           left == {l \in LinesOf(i) : l.id \notin r.rows} \cup NewLines(i, r.sum)
           paid == SumOf(ActiveOf(i))
           n == Recomputed(invoices[i], SumOf(left), paid)
<1>2. /\ Editable(i) /\ paid <= SumOf(left)
      /\ Writes(i, r.sum)
      /\ lines' = (lines \ LinesOf(i)) \cup left
      /\ invoices' = [invoices EXCEPT ![i] = n]
      /\ UNCHANGED payments
  BY DEF ReplaceLines
<1>3. \A l \in left : l.of = i
  BY DEF NewLines, LinesOf
<1>4. Counted(left)
  <2> DEFINE kept == {l \in LinesOf(i) : l.id \notin r.rows}
  <2>1. kept \subseteq lines
    BY DEF LinesOf
  <2> HIDE DEF kept
  <2>2. IsFiniteSet(kept) /\ kept \subseteq Line
    BY <2>1, FS_Subset DEF Solid, TypeOK
  <2>3. NewLines(i, r.sum) \subseteq Line /\ IsFiniteSet(NewLines(i, r.sum))
    BY <1>1, <1>2, LinesTyped
  <2>4. IsFiniteSet(kept \cup NewLines(i, r.sum))
    BY <2>2, <2>3, FS_Union
  <2> QED BY <2>2, <2>3, <2>4 DEF Counted, Line, kept
<1> HIDE DEF left
<1>5. LinesOf(i)' = left /\ \A j \in Invoices \ {i} : LinesOf(j)' = LinesOf(j)
  BY <1>2, <1>3 DEF LinesOf
<1>6. \A j \in Invoices : ActiveOf(j)' = ActiveOf(j)
  BY <1>2 DEF ActiveOf
<1>7. SumOf(left) \in Nat
  BY <1>4, SumNat
<1>8. LET status == invoices[i].status IN
      /\ invoices[i] \in Invoice /\ phases[i] = Phase(status)
      /\ paids[i] = paid /\ paids[i] \in Nat /\ totals[i] \in Nat
      /\ status \notin {"partially_paid", "paid"} => paids[i] = 0
      /\ status \in {"partially_paid", "paid"} => paids[i] > 0
      /\ status = "partially_paid" => paids[i] < totals[i]
  BY Account
<1> DEFINE status == invoices[i].status
<1>9. status \in {"draft", "sent", "partially_paid"}
  BY <1>2, <1>8 DEF Editable, Invoice, Statuses
<1> HIDE DEF paid
<1>10. Phase(n.status) = Phase(status) /\ Phase(status) \in {"draft", "open"}
  BY <1>7, <1>8, <1>9 DEF Recomputed, StatusFor, Phase
<1>11. /\ invoices'[i] = n
       /\ \A j \in Invoices \ {i} : invoices'[j] = invoices[j]
  BY <1>2 DEF Solid, TypeOK
<1>12. /\ phases' = [phases EXCEPT ![i] = Phase(n.status)]
       /\ totals' = [totals EXCEPT ![i] = SumOf(left)]
       /\ paids' = [paids EXCEPT ![i] = paid]
  BY <1>5, <1>6, <1>11, AccountMoves DEF paid
<1> HIDE DEF n, status
<1>13. phases' = phases /\ paids' = paids /\ totals'[i] = SumOf(left)
  BY <1>8, <1>10, <1>12 DEF phases, paids, totals, status
<1>14. /\ phases[i] \in {"draft", "open"}
       /\ ~(paids[i] > 0 /\ paids[i] = totals[i])
       /\ totals'[i] >= paids[i]
  BY <1>2, <1>7, <1>8, <1>9, <1>10, <1>13 DEF status
<1>15. Money!Charge(i)
  BY <1>7, <1>12, <1>13, <1>14
     DEF Money!Charge, Money!OnlyAt, Money!Live, Money!Settled, phases, totals, paids
<1> QED BY <1>15 DEF Money!Next

LEMMA PayKeeps ==
    ASSUME IInv, Solid, NEW i \in Invoices, NEW amount \in Nat, Pays(i, amount),
           UNCHANGED requests \/ \E q \in Requests : Goes(q, Idle)
    PROVE  Money!Next
<1> DEFINE new == [id |-> NextPayment, of |-> i, sum |-> amount, voided |-> FALSE]
           active == ActiveOf(i) \cup {new}
           n == Recomputed(invoices[i], SumOf(LinesOf(i)), SumOf(active))
<1>1. /\ Payable(i, amount)
      /\ SumOf(active) <= SumOf(LinesOf(i))
      /\ payments' = payments \cup active
      /\ invoices' = [invoices EXCEPT ![i] = n]
      /\ UNCHANGED lines
  BY DEF Pays
<1>2. new.of = i /\ new.voided = FALSE
  OBVIOUS
<1> HIDE DEF new
<1>3. ActiveOf(i)' = active /\ \A j \in Invoices \ {i} : ActiveOf(j)' = ActiveOf(j)
  BY <1>1, <1>2 DEF ActiveOf
<1>4. \A j \in Invoices : LinesOf(j)' = LinesOf(j)
  BY <1>1 DEF LinesOf
<1>5. SumOf(active) = SumOf(ActiveOf(i)) + amount
  BY <1>3, PaysSolid
<1>6. /\ invoices[i] \in Invoice /\ phases[i] = Phase(invoices[i].status)
      /\ paids[i] = SumOf(ActiveOf(i)) /\ paids[i] \in Nat
      /\ totals[i] = SumOf(LinesOf(i)) /\ totals[i] \in Nat
  BY Account
<1>7. invoices[i].status \notin {"none", "void"} /\ amount > 0
  BY <1>1 DEF Payable
<1> HIDE DEF active
<1>8. Phase(n.status) = "open" /\ phases[i] \in {"draft", "open"}
  BY <1>5, <1>6, <1>7 DEF Recomputed, StatusFor, Phase, Invoice, Statuses
<1> HIDE DEF n
<1>9. /\ invoices'[i] = n
      /\ \A j \in Invoices \ {i} : invoices'[j] = invoices[j]
  BY <1>1 DEF Solid, TypeOK
<1>10. /\ phases' = [phases EXCEPT ![i] = "open"]
       /\ totals' = [totals EXCEPT ![i] = SumOf(LinesOf(i))]
       /\ paids' = [paids EXCEPT ![i] = SumOf(active)]
  BY <1>3, <1>4, <1>8, <1>9, AccountMoves
<1>11. totals' = totals /\ paids'[i] = SumOf(active)
  BY <1>10 DEF totals, paids
<1>12. /\ paids'[i] \in Nat /\ paids[i] < paids'[i] /\ paids'[i] <= totals[i]
  BY <1>1, <1>5, <1>6, <1>7, <1>11
<1>13. Money!Pay(i)
  BY <1>8, <1>10, <1>11, <1>12
     DEF Money!Pay, Money!OnlyAt, Money!Live, phases, totals, paids
<1> QED BY <1>13 DEF Money!Next

LEMMA VoidKeeps ==
    ASSUME IInv, Solid, NEW q \in Requests, VoidPayments(q)
    PROVE  Money!Next \/ UNCHANGED <<phases, totals, paids>>
<1> PICK i \in Invoices : i = requests[q].of
  BY DEF Solid, TypeOK, Request
<1> DEFINE active == {p \in ActiveOf(i) : p.id \notin requests[q].rows}
           n == Recomputed(invoices[i], SumOf(LinesOf(i)), SumOf(active))
<1>1. /\ invoices' = [invoices EXCEPT ![i] = n]
      /\ Exists(i) /\ UNCHANGED lines
  BY DEF VoidPayments
<1>2. /\ SumOf(ActiveOf(i)') <= SumOf(ActiveOf(i))
      /\ ActiveOf(i)' = active
      /\ \A j \in Invoices \ {i} : ActiveOf(j)' = ActiveOf(j)
  BY VoidPaymentsSolid
<1>3. \A j \in Invoices : LinesOf(j)' = LinesOf(j)
  BY <1>1 DEF LinesOf
<1>4. SumOf(active) \in Nat
  <2>1. active \in SUBSET ActiveOf(i)
    OBVIOUS
  <2> HIDE DEF active
  <2> QED BY <2>1, SumsTyped, CountedSubset, SumNat
<1>5. LET status == invoices[i].status IN
      /\ invoices[i] \in Invoice /\ phases[i] = Phase(status)
      /\ paids[i] = SumOf(ActiveOf(i)) /\ paids[i] \in Nat
      /\ totals[i] = SumOf(LinesOf(i))
      /\ status \notin {"partially_paid", "paid"} => paids[i] = 0
  BY Account
<1> HIDE DEF active
<1>6. Phase(n.status) = phases[i]
  BY <1>1, <1>2, <1>4, <1>5 DEF Recomputed, StatusFor, Phase, Exists, Invoice, Statuses
<1>7. paids[i] > 0 => phases[i] = "open"
  BY <1>5 DEF Phase
<1> HIDE DEF n
<1>8. /\ invoices'[i] = n
      /\ \A j \in Invoices \ {i} : invoices'[j] = invoices[j]
  BY <1>1 DEF Solid, TypeOK
<1>9. /\ phases' = [phases EXCEPT ![i] = phases[i]]
      /\ totals' = [totals EXCEPT ![i] = SumOf(LinesOf(i))]
      /\ paids' = [paids EXCEPT ![i] = SumOf(active)]
  BY <1>2, <1>3, <1>6, <1>8, AccountMoves
<1>10. phases' = phases /\ totals' = totals /\ paids'[i] = SumOf(active)
  BY <1>5, <1>9 DEF phases, totals, paids
<1>11. CASE SumOf(active) = paids[i]
  <2>1. paids' = paids
    BY <1>9, <1>11 DEF paids
  <2> QED BY <1>10, <2>1
<1>12. CASE SumOf(active) # paids[i]
  <2>1. paids'[i] \in Nat /\ paids'[i] < paids[i] /\ phases[i] = "open"
    BY <1>2, <1>4, <1>5, <1>7, <1>10, <1>12
  <2>2. Money!TakeBack(i)
    BY <1>9, <1>10, <2>1 DEF Money!TakeBack, Money!OnlyAt, phases, totals, paids
  <2> QED BY <2>2 DEF Money!Next
<1> QED BY <1>11, <1>12

LEMMA StatusKeeps ==
    ASSUME IInv, Solid, NEW i \in Invoices, NEW status \in {"sent", "void"},
           invoices[i].status \notin {"none", "void"}, SumOf(ActiveOf(i)) = 0,
           invoices' = [invoices EXCEPT ![i] = WithStatus(i, status)],
           UNCHANGED <<lines, payments>>
    PROVE  Money!Next \/ UNCHANGED <<phases, totals, paids>>
<1>1. /\ invoices'[i].status = status
      /\ \A j \in Invoices \ {i} : invoices'[j] = invoices[j]
  BY DEF Solid, TypeOK, WithStatus
<1>2. \A j \in Invoices : LinesOf(j)' = LinesOf(j) /\ ActiveOf(j)' = ActiveOf(j)
  BY DEF LinesOf, ActiveOf
<1>3. /\ phases' = [phases EXCEPT ![i] = Phase(status)]
      /\ totals' = [totals EXCEPT ![i] = SumOf(LinesOf(i))]
      /\ paids' = [paids EXCEPT ![i] = SumOf(ActiveOf(i))]
  BY <1>1, <1>2, AccountMoves
<1>4. totals' = totals /\ paids' = paids /\ paids[i] = 0
  BY <1>3 DEF totals, paids
<1>5. /\ invoices[i] \in Invoice /\ phases[i] = Phase(invoices[i].status)
      /\ invoices[i].status \in {"partially_paid", "paid"} => paids[i] > 0
  BY Account
<1>6. invoices[i].status \in {"draft", "sent"}
  BY <1>4, <1>5 DEF Invoice, Statuses
<1>7. CASE status = "void"
  <2>1. Money!Close(i)
    BY <1>3, <1>4, <1>5, <1>6, <1>7
       DEF Money!Close, Money!Live, Phase, phases, totals, paids
  <2> QED BY <2>1 DEF Money!Next
<1>8. CASE status = "sent" /\ invoices[i].status = "draft"
  <2>1. Money!Issue(i)
    BY <1>3, <1>4, <1>5, <1>8 DEF Money!Issue, Phase, phases, totals, paids
  <2> QED BY <2>1 DEF Money!Next
<1>9. CASE status = "sent" /\ invoices[i].status = "sent"
  <2>1. phases' = phases
    BY <1>3, <1>5, <1>9 DEF phases
  <2> QED BY <1>4, <2>1
<1> QED BY <1>6, <1>7, <1>8, <1>9

LEMMA InitKeeps == Init => Money!Init
<1> SUFFICES ASSUME Init
             PROVE  Money!Init
  OBVIOUS
<1>1. \A i \in Invoices : /\ Phase(invoices[i].status) = "none"
                          /\ LinesOf(i) = {} /\ ActiveOf(i) = {}
  BY DEF Init, NoInvoice, Phase, LinesOf, ActiveOf
<1>2. \A i \in Invoices : SumOf(LinesOf(i)) = 0 /\ SumOf(ActiveOf(i)) = 0
  BY <1>1, EmptySum
<1> QED BY <1>1, <1>2 DEF Money!Init

LEMMA StepKeeps == IInv /\ Solid /\ [Next]_vars => [Money!Next]_(Money!vars)
<1> SUFFICES ASSUME IInv, Solid, [Next]_vars
             PROVE  Money!Next \/ UNCHANGED <<phases, totals, paids>>
  BY DEF Money!vars, phases, totals, paids
<1> DEFINE Kept == Money!Next \/ UNCHANGED <<phases, totals, paids>>
<1>0. ASSUME NEW q \in Requests
      PROVE  /\ requests[q].of \in Invoices /\ requests[q].sum \in Nat
             /\ requests[q].number \in 0..MaxNumber
  BY DEF Solid, TypeOK, Request
<1>1. ASSUME NEW q \in Requests,
             DrawNumber(q) \/ ReadPayments(q) \/ Abandon(q)
      PROVE  Kept
  BY <1>1, Unseen DEF DrawNumber, ReadPayments, Abandon
<1>2. ASSUME NEW q \in Requests, NEW i \in Invoices,
             \/ \E sum \in Totals : ReadOldLines(q, i, sum)
             \/ ReadInvoice(q, i) \/ ReadDraft(q, i) \/ ReadActive(q, i)
      PROVE  Kept
  BY <1>2, Unseen DEF ReadOldLines, ReadInvoice, ReadDraft, ReadActive
<1>3. ASSUME UNCHANGED vars PROVE Kept
  BY <1>3, Unseen DEF vars
<1>4. ASSUME NEW q \in Requests, ReplaceLines(q) PROVE Kept
  BY <1>4, ReplaceKeeps
<1>5. ASSUME NEW q \in Requests, PayBalance(q) PROVE Kept
  BY <1>0, <1>5, PayKeeps DEF PayBalance
<1>6. ASSUME NEW i \in Invoices, NEW amount \in Amounts, RecordPayment(i, amount)
      PROVE  Kept
  BY <1>6, InvoicesAssumption, PayKeeps DEF RecordPayment
<1>7. ASSUME NEW q \in Requests, VoidPayments(q) PROVE Kept
  BY <1>7, VoidKeeps
<1>8. ASSUME NEW q \in Requests, Issue(q) PROVE Kept
  BY <1>0, <1>8, StatusKeeps DEF Issue
<1>9. ASSUME NEW i \in Invoices, CancelInvoice(i) PROVE Kept
  BY <1>9, StatusKeeps DEF CancelInvoice
<1>10. ASSUME NEW i \in Invoices, NEW m \in 1..MaxNumber, ImportInvoice(i, m)
       PROVE  Kept
  <2> DEFINE n == [status |-> "sent", amount |-> 0, number |-> m]
  <2>1. n \in Invoice /\ n.status = "sent"
    BY InvoicesAssumption DEF Invoice, Statuses
  <2>2. \A j \in Invoices : LinesOf(j)' = LinesOf(j)
    BY <1>10 DEF ImportInvoice, LinesOf
  <2>3. SumOf(LinesOf(i)') \in Nat
    BY <2>2, SumsTyped
  <2>4. ~Exists(i) /\ invoices' = [invoices EXCEPT ![i] = n] /\ UNCHANGED payments
    BY <1>10 DEF ImportInvoice
  <2> HIDE DEF n
  <2> QED BY <2>1, <2>2, <2>3, <2>4, CreateKeeps
<1>11. ASSUME NEW q \in Requests, NEW i \in Invoices,
              NEW status \in {"draft", "sent"}, NEW sum \in Totals,
              CreateInvoice(q, i, status, sum)
       PROVE  Kept
  <2> DEFINE n == [status |-> status, amount |-> SumOf(NewLines(i, sum)),
                   number |-> requests[q].number]
  <2>1. /\ ~Exists(i) /\ invoices' = [invoices EXCEPT ![i] = n]
        /\ Writes(i, sum) /\ lines' = lines \cup NewLines(i, sum)
        /\ UNCHANGED payments
    BY <1>11 DEF CreateInvoice
  <2>2. \A l \in NewLines(i, sum) : l.of = i
    BY DEF NewLines
  <2>3. LinesOf(i)' = NewLines(i, sum)
    BY <2>1, <2>2 DEF IInv, NothingWithoutRow, LinesOf
  <2>4. \A j \in Invoices \ {i} : LinesOf(j)' = LinesOf(j)
    BY <2>1, <2>2 DEF LinesOf
  <2>5. sum \in Nat /\ SumOf(NewLines(i, sum)) = sum
    BY <2>1, InvoicesAssumption, LinesTyped
  <2>6. n \in Invoice /\ n.status \in {"draft", "sent"}
    BY <1>0, <2>5 DEF Invoice, Statuses
  <2> HIDE DEF n
  <2> QED BY <2>1, <2>3, <2>4, <2>5, <2>6, CreateKeeps
<1> HIDE DEF Kept
<1>12. Kept
  BY <1>1, <1>2, <1>3, <1>4, <1>5, <1>6, <1>7, <1>8, <1>9, <1>10, <1>11
     DEF Next, RequestNext
<1> QED BY <1>12 DEF Kept

\* The second layer holds in every state.
THEOREM SolidAlways == Spec => []Solid
BY InitSolid, StepSolid, PTL DEF Spec

\* Every row, counter and request keeps its type; a payment always gets an id
\* within the bound and sums stay natural numbers.
THEOREM TypeCorrect == Spec => []TypeOK
<1>1. Solid => TypeOK
  BY DEF Solid
<1> QED BY SolidAlways, <1>1, PTL

\* Invoices implement Ledger: whatever requests read too early, lines change only
\* on a live invoice that is not settled and never below what was paid, payments
\* stay within the total, money leaves only an issued invoice, and a cancelled
\* invoice is final and holds none (the guards and triggers of 0022).
THEOREM InvoicesKeepTheLedger == Spec => KeepsTheLedger
BY Invariance, SolidAlways, InitKeeps, StepKeeps, PTL DEF Spec, KeepsTheLedger
-----------------------------------------------------------------------------
(* What the ledger's promises mean for an invoice                          *)

\* A cancelled invoice stays cancelled with the lines and payments it ended
\* with, and what is due on a fully paid one does not change.
Final(i) ==
    /\ invoices[i].status = "void"
       => /\ invoices'[i].status = "void"
          /\ SumOf(LinesOf(i))' = SumOf(LinesOf(i)) /\ SumOf(ActiveOf(i))' = 0
    /\ invoices[i].status = "paid" => SumOf(LinesOf(i))' = SumOf(LinesOf(i))

\* In the ledger: a closed account is left alone, a settled one not charged.
LEMMA LedgerStep ==
    ASSUME NEW i \in Invoices, Money!Next \/ UNCHANGED <<phases, totals, paids>>
    PROVE  /\ phases[i] = "closed" => /\ phases'[i] = "closed"
                                      /\ totals'[i] = totals[i] /\ paids'[i] = paids[i]
           /\ phases[i] # "none" /\ Money!Settled(i) => totals'[i] = totals[i]
<1> USE DEF Money!OnlyAt, Money!Live
<1>1. CASE UNCHANGED <<phases, totals, paids>>
  BY <1>1
<1>2. ASSUME NEW j \in Invoices, Money!Create(j)
      PROVE  phases[j] = "none" /\ paids' = paids
             /\ phases' = [phases EXCEPT ![j] = phases'[j]]
             /\ totals' = [totals EXCEPT ![j] = totals'[j]]
  BY <1>2 DEF Money!Create, phases, totals, paids
<1>3. ASSUME NEW j \in Invoices, Money!Issue(j)
      PROVE  phases[j] = "draft" /\ UNCHANGED <<totals, paids>>
             /\ phases' = [phases EXCEPT ![j] = phases'[j]]
  BY <1>3 DEF Money!Issue, phases, totals, paids
<1>4. ASSUME NEW j \in Invoices, Money!Charge(j)
      PROVE  phases[j] # "closed" /\ ~Money!Settled(j) /\ UNCHANGED <<phases, paids>>
             /\ totals' = [totals EXCEPT ![j] = totals'[j]]
  BY <1>4 DEF Money!Charge, phases, totals, paids
<1>5. ASSUME NEW j \in Invoices, Money!Pay(j) \/ Money!TakeBack(j) \/ Money!Close(j)
      PROVE  phases[j] # "closed" /\ UNCHANGED totals
             /\ phases' = [phases EXCEPT ![j] = phases'[j]]
             /\ paids' = [paids EXCEPT ![j] = paids'[j]]
  BY <1>5 DEF Money!Pay, Money!TakeBack, Money!Close, phases, totals, paids
<1>6. /\ phases = [j \in Invoices |-> phases[j]] /\ totals = [j \in Invoices |-> totals[j]]
      /\ paids = [j \in Invoices |-> paids[j]]
  BY DEF phases, totals, paids
<1> QED BY <1>1, <1>2, <1>3, <1>4, <1>5, <1>6 DEF Money!Next

\* No request, however old what it read, changes the money of a cancelled invoice
\* or the lines of a paid one (guard_invoice_item_write, guard_payment_write).
THEOREM ClosedAreFinal == Spec => [][\A i \in Invoices : Final(i)]_vars
<1>1. IInv /\ Solid /\ Solid' /\ [Next]_vars => [\A i \in Invoices : Final(i)]_vars
  <2> SUFFICES ASSUME IInv, Solid, Solid', [Next]_vars, NEW i \in Invoices
               PROVE  Final(i)
    OBVIOUS
  <2>1. Money!Next \/ UNCHANGED <<phases, totals, paids>>
    BY StepKeeps DEF Money!vars, phases, totals, paids
  <2>2. /\ invoices[i] \in Invoice /\ invoices'[i] \in Invoice
        /\ phases[i] = Phase(invoices[i].status) /\ phases'[i] = Phase(invoices'[i].status)
        /\ totals[i] = SumOf(LinesOf(i)) /\ totals'[i] = SumOf(LinesOf(i))'
        /\ paids[i] = SumOf(ActiveOf(i)) /\ paids'[i] = SumOf(ActiveOf(i))'
    BY DEF phases, totals, paids, Solid, TypeOK
  <2>3. CASE invoices[i].status = "void"
    <3>1. paids[i] = 0 /\ phases[i] = "closed"
      BY <2>2, <2>3, Account DEF Phase
    <3>2. invoices'[i].status = "void"
      BY <2>1, <2>2, <3>1, LedgerStep DEF Phase, Invoice, Statuses
    <3> QED BY <2>1, <2>2, <2>3, <3>1, <3>2, LedgerStep DEF Final
  <2>4. CASE invoices[i].status = "paid"
    <3>1. phases[i] = "open" /\ paids[i] > 0
      BY <2>2, <2>4, Account DEF Phase
    <3>2. Agrees("paid", totals[i], paids[i])
      BY <2>2, <2>4 DEF IInv, AmountIsItsLines, StatusTellsThePayments
    <3>3. Money!Settled(i)
      <4>1. totals[i] \in Nat /\ paids[i] \in Nat
        BY Account
      <4>2. paids[i] > 0 /\ paids[i] = totals[i]
        BY <3>1, <3>2, <4>1 DEF Agrees
      <4> QED BY <4>2 DEF Money!Settled, totals, paids
    <3> QED BY <2>1, <2>2, <2>4, <3>1, <3>3, LedgerStep DEF Final
  <2>5. CASE invoices[i].status \notin {"void", "paid"}
    BY <2>5 DEF Final
  <2> QED BY <2>3, <2>4, <2>5
<1> QED BY Invariance, SolidAlways, <1>1, PTL DEF Spec
=============================================================================
