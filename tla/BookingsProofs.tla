---------------------------- MODULE BookingsProofs ----------------------------
(***************************************************************************)
(* Proofs about Bookings, for every number of rows, members, services and  *)
(* places and every choice of buffers and deadlines.                       *)
(*                                                                         *)
(* The argument has one hinge, StepsOfTheTable: whatever the requests      *)
(* remember, a step leaves the table alone, writes ONE row whose window    *)
(* fits it through the exclusion constraints, or empties one row.  The     *)
(* inductive invariant, IInv, the refinement of SlotCalendar and the       *)
(* safety of the windows follow from that lemma alone. What the requests   *)
(* do remember, and that it was checked (RemovalsByOwners, Judged), is     *)
(* needed only for who may remove a row and for what a stale read breaks.  *)
(***************************************************************************)
EXTENDS Bookings, TLAPS

\* The window of a row was computed from its own start and length.
Fits(r) == \E buf \in BufferChoices : r.busy = BusyWindow(r.start, r.length, buf)

-----------------------------------------------------------------------------
(* Rows                                                                    *)

\* The window of a known start, length and buffers is one the table can hold.
LEMMA WindowType ==
    ASSUME NEW t \in Starts, NEW n \in Lengths, NEW buf \in BufferChoices
    PROVE  BusyWindow(t, n, buf) \in BusyWindows
BY DEF BusyWindows

\* There is a blank row to start from, and it occupies nothing.
LEMMA BlankRow == Blank \in Row /\ Blank.status = "none"
<1>1. PICK s \in Services, p \in Places, t \in Starts, n \in Lengths, buf \in BufferChoices : TRUE
  BY BookingsAssumption
<1> DEFINE r == [status |-> "none", source |-> "user", service |-> s, place |-> p,
                 start |-> t, length |-> n, busy |-> BusyWindow(t, n, buf)]
<1>2. r \in Row /\ r.status = "none"
  BY <1>1, WindowType DEF Row
<1> QED
  BY <1>2 DEF Blank

\* A row of the right columns, rewritten with the buffers of the moment, is a
\* row again and its window fits it.
LEMMA RewrittenRow ==
    ASSUME NEW r \in Row, buffers \in [Services -> BufferChoices]
    PROVE  /\ [r EXCEPT !.busy = WindowNow(r)] \in Row
           /\ Fits([r EXCEPT !.busy = WindowNow(r)])
<1>1. r.start \in Starts /\ r.length \in Lengths /\ buffers[r.service] \in BufferChoices
  BY DEF Row
<1>2. WindowNow(r) \in BusyWindows
  BY <1>1, WindowType DEF WindowNow
<1>3. [r EXCEPT !.busy = WindowNow(r)] \in Row
  BY <1>2 DEF Row
<1>4. [r EXCEPT !.busy = WindowNow(r)].busy = BusyWindow(r.start, r.length, buffers[r.service])
  BY DEF Row, WindowNow
<1>5. /\ [r EXCEPT !.busy = WindowNow(r)].start = r.start
      /\ [r EXCEPT !.busy = WindowNow(r)].length = r.length
  BY DEF Row
<1> QED
  BY <1>1, <1>3, <1>4, <1>5 DEF Fits

\* A new row is well formed and its window fits it.
LEMMA FreshRow ==
    ASSUME NEW st \in Statuses, NEW src \in {"user", "public"}, NEW s \in Services,
           NEW p \in Places, NEW t \in Starts, NEW n \in Lengths,
           buffers \in [Services -> BufferChoices]
    PROVE  NewRow(st, src, s, p, t, n) \in Row /\ Fits(NewRow(st, src, s, p, t, n))
<1>1. BusyWindow(t, n, buffers[s]) \in BusyWindows
  BY WindowType
<1>2. NewRow(st, src, s, p, t, n) \in Row
  BY <1>1 DEF NewRow, Row
<1>3. Fits(NewRow(st, src, s, p, t, n))
  BY DEF NewRow, Fits
<1> QED
  BY <1>2, <1>3

\* The merge of a patch with the row it is applied to is well formed.
LEMMA PatchedRow ==
    ASSUME TypeOK, NEW e \in edits, Live(e.appt)
    PROVE  Patched(e) \in Row /\ Patched(e).status \in Statuses
<1>1. e.appt \in Appts /\ e.to \in Snapshot
  BY DEF TypeOK, Edit
<1>2. appt[e.appt] \in Row /\ appt[e.appt].status \in Statuses
  BY <1>1 DEF TypeOK, Live
<1> QED
  BY <1>1, <1>2 DEF Patched, Row, Snapshot

-----------------------------------------------------------------------------
(* What a step does to the table                                           *)

\* One row is written through the constraints, or one row is emptied.
Writes(a, r) == r \in Row /\ r.status \in Statuses /\ Fits(r) /\ WriteRow(a, r)
Empties(a) == appt' = [appt EXCEPT ![a] = [Blank EXCEPT !.status = "deleted"]]

\* A trigger-computed rewrite of a well formed row is such a write.
LEMMA UpdateWrites ==
    ASSUME TypeOK, NEW a \in Appts, NEW r \in Row, r.status \in Statuses, UpdateRow(a, r)
    PROVE  \E q : Writes(a, q)
<1> DEFINE q == [r EXCEPT !.busy = WindowNow(r)]
<1>1. q \in Row /\ Fits(q)
  BY RewrittenRow DEF TypeOK
<1>2. q.status \in Statuses
  BY DEF Row
<1>3. WriteRow(a, q)
  BY DEF UpdateRow
<1> QED
  BY <1>1, <1>2, <1>3 DEF Writes

LEMMA OnlineStatusType == OnlineStatus \in Statuses
BY DEF OnlineStatus, Statuses, ActiveStatuses

\* The table changes only by the hand of one of these actions.
LEMMA WhoWrites ==
    ASSUME [Next]_vars, appt' # appt
    PROVE  \/ \E a \in Appts, s \in Services, p \in Places, t \in Starts :
                  CreatePublicBooking(a, s, p, t)
           \/ \E a \in Appts : CancelMyBooking(a)
           \/ \E a \in Appts, p \in Places, t \in Starts : RescheduleMyBooking(a, p, t)
           \/ \E d \in drafts, a \in Appts : InsertNew(d, a)
           \/ \E e \in edits : WriteEdit(e) \/ DeleteRow(e)
<1>1. ASSUME \/ \E a \in Appts : ClaimBooking(a)
             \/ \E m \in Sessions, st \in AskedStatuses, s \in Services, p \in Places,
                   t \in Starts, n \in Lengths : CheckNew(m, st, s, p, t, n)
             \/ \E m \in Sessions, a \in Appts :
                  \/ \E f \in Patches, to \in Snapshot : ReadForUpdate(m, a, f, to)
                  \/ \E t \in Starts : ReadForMove(m, a, t)
                  \/ ReadForCancel(m, a)
                  \/ ReadForRemove(m, a)
             \/ \E e \in edits : CheckEdit(e) \/ Reread(e)
             \/ \E m \in Sessions : Drop(m)
             \/ \E s \in Services, buf \in BufferChoices : SetServiceBuffers(s, buf)
             \/ Tick
             \/ UNCHANGED vars
      PROVE  appt' = appt
  BY <1>1 DEF ClaimBooking, CheckNew, ReadForUpdate, ReadForMove, ReadForCancel, ReadForRemove,
              BeginEdit, CheckEdit, Reread, Drop, SetServiceBuffers, Tick, vars
<1> QED
  BY <1>1 DEF Next, ClientNext, MemberNext

\* Every step, of anyone, changes at most one row, and only in these ways.
LEMMA StepsOfTheTable ==
    ASSUME TypeOK, [Next]_vars
    PROVE  \/ appt' = appt
           \/ \E a \in Appts, r \in Row : Writes(a, r)
           \/ \E e \in edits : DeleteRow(e) /\ e.appt \in Appts /\ Empties(e.appt)
<1> DEFINE Goal == \/ appt' = appt
                   \/ \E a \in Appts, r \in Row : Writes(a, r)
                   \/ \E e \in edits : DeleteRow(e) /\ e.appt \in Appts /\ Empties(e.appt)
<1>a. ASSUME NEW a \in Appts, NEW q, Writes(a, q) PROVE Goal
  BY <1>a DEF Writes
<1>1. ASSUME NEW a \in Appts, NEW s \in Services, NEW p \in Places, NEW t \in Starts,
             CreatePublicBooking(a, s, p, t)
      PROVE  Goal
  <2>1. NewRow(OnlineStatus, "public", s, p, t, Duration[s]) \in Row
        /\ Fits(NewRow(OnlineStatus, "public", s, p, t, Duration[s]))
    BY OnlineStatusType, FreshRow, BookingsAssumption DEF TypeOK
  <2>2. NewRow(OnlineStatus, "public", s, p, t, Duration[s]).status \in Statuses
    BY OnlineStatusType DEF NewRow
  <2>3. Writes(a, NewRow(OnlineStatus, "public", s, p, t, Duration[s]))
    BY <1>1, <2>1, <2>2 DEF CreatePublicBooking, Writes
  <2> QED
    BY <1>a, <2>3
<1>2. ASSUME NEW a \in Appts, CancelMyBooking(a)
      PROVE  Goal
  <2>1. [appt[a] EXCEPT !.status = "cancelled"] \in Row
        /\ [appt[a] EXCEPT !.status = "cancelled"].status \in Statuses
    BY DEF TypeOK, Row, Statuses, CorrectionSources
  <2>2. UpdateRow(a, [appt[a] EXCEPT !.status = "cancelled"])
    BY <1>2 DEF CancelMyBooking
  <2> QED
    BY <1>a, <2>1, <2>2, UpdateWrites
<1>3. ASSUME NEW a \in Appts, NEW p \in Places, NEW t \in Starts,
             RescheduleMyBooking(a, p, t)
      PROVE  Goal
  <2> DEFINE r == [appt[a] EXCEPT !.start = t, !.length = Duration[appt[a].service],
                               !.place = p, !.status = OnlineStatus]
  <2>1. r \in Row /\ r.status \in Statuses
    BY OnlineStatusType, BookingsAssumption DEF TypeOK, Row
  <2>2. UpdateRow(a, r)
    BY <1>3 DEF RescheduleMyBooking
  <2> QED
    BY <1>a, <2>1, <2>2, UpdateWrites
<1>4. ASSUME NEW d \in drafts, NEW a \in Appts, InsertNew(d, a)
      PROVE  Goal
  <2>1. d.row \in Row /\ d.row.status \in Statuses
    BY DEF TypeOK, Draft
  <2>2. UpdateRow(a, d.row)
    BY <1>4 DEF InsertNew
  <2> QED
    BY <1>a, <2>1, <2>2, UpdateWrites
<1>5. ASSUME NEW e \in edits, WriteEdit(e)
      PROVE  Goal
  <2>1. e.appt \in Appts
    BY DEF TypeOK, Edit
  <2>2. Patched(e) \in Row /\ Patched(e).status \in Statuses
    BY <1>5, PatchedRow DEF WriteEdit
  <2>3. UpdateRow(e.appt, Patched(e))
    BY <1>5 DEF WriteEdit
  <2> QED
    BY <1>a, <2>1, <2>2, <2>3, UpdateWrites
<1>6. ASSUME NEW e \in edits, DeleteRow(e)
      PROVE  Goal
  <2>1. e.appt \in Appts
    BY DEF TypeOK, Edit
  <2> QED
    BY <1>6, <2>1 DEF DeleteRow, Empties
<1> QED
  BY <1>1, <1>2, <1>3, <1>4, <1>5, <1>6, WhoWrites

-----------------------------------------------------------------------------
(* Type correctness                                                        *)

LEMMA TypeInit == Init => TypeOK
<1> SUFFICES ASSUME Init PROVE TypeOK
  OBVIOUS
<1>1. appt \in [Appts -> Row]
  BY BlankRow DEF Init
<1>2. now \in Times
  BY BookingsAssumption DEF Init, Times
<1> QED
  BY <1>1, <1>2 DEF Init, TypeOK

\* What a member remembers of a row, and asks to make of it, is well formed.
LEMMA SeenType ==
    ASSUME TypeOK, NEW a \in Appts, Live(a)
    PROVE  Seen(a) \in Snapshot
BY DEF TypeOK, Live, Seen, Snapshot, Row

LEMMA BeginEditType ==
    ASSUME TypeOK, NEW m \in Sessions, NEW a \in Appts,
           NEW op \in {"update", "move", "cancel", "remove"}, NEW fields \in SUBSET Fields,
           NEW to \in Snapshot, BeginEdit(m, a, op, fields, to)
    PROVE  edits' \subseteq Edit
<1> DEFINE e == [by |-> m, op |-> op, step |-> "read", appt |-> a,
                 before |-> Seen(a), fields |-> fields, to |-> to]
<1>1. Seen(a) \in Snapshot
  BY SeenType DEF BeginEdit
<1>2. e \in Edit
  BY <1>1 DEF Edit
<1>3. edits' = edits \cup {e}
  BY DEF BeginEdit
<1> QED
  BY <1>2, <1>3 DEF TypeOK

\* The second read of a row completes the request without changing whose and
\* what kind of request it is.
LEMMA RereadType ==
    ASSUME TypeOK, NEW e \in edits, Reread(e)
    PROVE  \E f \in Edit : /\ edits' = (edits \ {e}) \cup {f}
                           /\ f.step = "reread" /\ f.op = e.op /\ f.before = e.before
                           /\ f.to.status = e.to.status
                           /\ f.fields = e.fields
<1> DEFINE r == appt[e.appt]
           start == IF "start" \in e.fields THEN e.to.start ELSE r.start
           length == IF "length" \in e.fields THEN e.to.length ELSE r.length
           to == [e.to EXCEPT !.start = start, !.length = length]
           f == [e EXCEPT !.step = "reread", !.to = to]
<1>1. e \in Edit /\ r \in Row
  BY DEF TypeOK, Edit
<1>2. start \in Starts /\ length \in Lengths
  BY <1>1 DEF Edit, Snapshot, Row
<1>3. to \in Snapshot /\ to.status = e.to.status
  BY <1>1, <1>2 DEF Edit, Snapshot
<1>4. /\ f \in Edit /\ f.step = "reread" /\ f.op = e.op /\ f.before = e.before
      /\ f.to = to /\ f.fields = e.fields
  <2> HIDE DEF to
  <2> QED
    BY <1>1, <1>3 DEF Edit
<1>5. edits' = (edits \ {e}) \cup {f}
  BY DEF Reread
<1> QED
  <2> HIDE DEF f, to
  <2> QED
    BY <1>3, <1>4, <1>5

\* The requests keep their types: one case per action that starts or advances one.
LEMMA EditsStep == ASSUME TypeOK, [Next]_vars PROVE edits' \subseteq Edit
<1>1. ASSUME NEW m \in Sessions, NEW a \in Appts, NEW f \in Patches, NEW to \in Snapshot,
             ReadForUpdate(m, a, f, to)
      PROVE  edits' \subseteq Edit
  <2>1. f \in SUBSET Fields
    BY BookingsAssumption
  <2> QED
    BY <1>1, <2>1, BeginEditType DEF ReadForUpdate
<1>2. ASSUME NEW m \in Sessions, NEW a \in Appts, NEW t \in Starts, ReadForMove(m, a, t)
      PROVE  edits' \subseteq Edit
  <2>1. [Seen(a) EXCEPT !.start = t] \in Snapshot
    BY <1>2, SeenType DEF ReadForMove, BeginEdit, Snapshot
  <2>2. {"start"} \in SUBSET Fields
    BY DEF Fields
  <2> QED
    BY <1>2, <2>1, <2>2, BeginEditType DEF ReadForMove
<1>3. ASSUME NEW m \in Sessions, NEW a \in Appts, ReadForCancel(m, a)
      PROVE  edits' \subseteq Edit
  <2>1. [Seen(a) EXCEPT !.status = "cancelled"] \in Snapshot
    BY <1>3, SeenType DEF ReadForCancel, BeginEdit, Snapshot, Statuses, CorrectionSources
  <2>2. {"status"} \in SUBSET Fields
    BY DEF Fields
  <2> QED
    BY <1>3, <2>1, <2>2, BeginEditType DEF ReadForCancel
<1>4. ASSUME NEW m \in Sessions, NEW a \in Appts, ReadForRemove(m, a)
      PROVE  edits' \subseteq Edit
  <2>1. Seen(a) \in Snapshot
    BY <1>4, SeenType DEF ReadForRemove, BeginEdit
  <2>2. {} \in SUBSET Fields
    OBVIOUS
  <2> QED
    BY <1>4, <2>1, <2>2, BeginEditType DEF ReadForRemove
<1>5. ASSUME NEW e \in edits, CheckEdit(e)
      PROVE  edits' \subseteq Edit
  <2>1. [e EXCEPT !.step = "checked"] \in Edit
    BY DEF TypeOK, Edit
  <2> QED
    BY <1>5, <2>1 DEF CheckEdit, TypeOK
<1>8. ASSUME NEW e \in edits, Reread(e)
      PROVE  edits' \subseteq Edit
  BY <1>8, RereadType DEF TypeOK
<1>6. ASSUME \/ ClientNext
             \/ \E m \in Sessions, st \in AskedStatuses, s \in Services, p \in Places,
                   t \in Starts, n \in Lengths : CheckNew(m, st, s, p, t, n)
             \/ \E d \in drafts, a \in Appts : InsertNew(d, a)
             \/ \E e \in edits : WriteEdit(e) \/ DeleteRow(e)
             \/ \E m \in Sessions : Drop(m)
             \/ \E s \in Services, buf \in BufferChoices : SetServiceBuffers(s, buf)
             \/ Tick
             \/ UNCHANGED vars
      PROVE  edits' \subseteq edits
  BY <1>6 DEF ClientNext, CreatePublicBooking, ClaimBooking, CancelMyBooking, RescheduleMyBooking,
              CheckNew, InsertNew, WriteEdit, DeleteRow, Drop, SetServiceBuffers, Tick, vars
<1>7. edits \subseteq Edit
  BY DEF TypeOK
<1> QED
  BY <1>1, <1>2, <1>3, <1>4, <1>5, <1>6, <1>7, <1>8 DEF Next, MemberNext

LEMMA DraftsStep == ASSUME TypeOK, [Next]_vars PROVE drafts' \subseteq Draft
<1>1. ASSUME NEW m \in Sessions, NEW st \in AskedStatuses, NEW s \in Services,
             NEW p \in Places, NEW t \in Starts, NEW n \in Lengths, CheckNew(m, st, s, p, t, n)
      PROVE  drafts' \subseteq Draft
  <2>1. st \in Statuses
    BY BookingsAssumption
  <2>2. NewRow(st, "user", s, p, t, n) \in Row
    BY <2>1, FreshRow DEF TypeOK
  <2>3. /\ NewRow(st, "user", s, p, t, n).status \in Statuses
        /\ NewRow(st, "user", s, p, t, n).source = "user"
    BY <2>1 DEF NewRow
  <2>4. [by |-> m, row |-> NewRow(st, "user", s, p, t, n)] \in Draft
    BY <2>2, <2>3 DEF Draft
  <2> QED
    BY <1>1, <2>4 DEF CheckNew, TypeOK
<1>2. ASSUME \/ ClientNext
             \/ \E d \in drafts, a \in Appts : InsertNew(d, a)
             \/ \E m \in Sessions : Drop(m)
             \/ \E s \in Services, buf \in BufferChoices : SetServiceBuffers(s, buf)
             \/ Tick
             \/ UNCHANGED vars
      PROVE  drafts' \subseteq drafts
  BY <1>2 DEF ClientNext, CreatePublicBooking, ClaimBooking, CancelMyBooking, RescheduleMyBooking,
              InsertNew, Drop, SetServiceBuffers, Tick, vars
<1>3. ASSUME \/ \E m \in Sessions, a \in Appts :
                  \/ \E f \in Patches, to \in Snapshot : ReadForUpdate(m, a, f, to)
                  \/ \E t \in Starts : ReadForMove(m, a, t)
                  \/ ReadForCancel(m, a)
                  \/ ReadForRemove(m, a)
             \/ \E e \in edits : CheckEdit(e) \/ Reread(e) \/ WriteEdit(e) \/ DeleteRow(e)
      PROVE  drafts' = drafts
  BY <1>3 DEF ReadForUpdate, ReadForMove, ReadForCancel, ReadForRemove, BeginEdit,
              CheckEdit, Reread, WriteEdit, DeleteRow
<1>4. drafts \subseteq Draft
  BY DEF TypeOK
<1> QED
  BY <1>1, <1>2, <1>3, <1>4 DEF Next, MemberNext

\* The parts of the type invariant no row or request carries.
LEMMA SurroundingsStep ==
    ASSUME TypeOK, [Next]_vars
    PROVE  /\ claimed' \subseteq Appts
           /\ buffers' \in [Services -> BufferChoices]
           /\ now' \in Times
<1>1. ASSUME \/ \E a \in Appts : ClaimBooking(a)
             \/ \E s \in Services, buf \in BufferChoices : SetServiceBuffers(s, buf)
             \/ Tick
      PROVE  /\ claimed' \subseteq Appts
             /\ buffers' \in [Services -> BufferChoices]
             /\ now' \in Times
  BY <1>1, BookingsAssumption DEF TypeOK, ClaimBooking, SetServiceBuffers, Tick, Times
<1>2. ASSUME \E a \in Appts :
                \/ \E s \in Services, p \in Places, t \in Starts : CreatePublicBooking(a, s, p, t)
                \/ CancelMyBooking(a)
                \/ \E p \in Places, t \in Starts : RescheduleMyBooking(a, p, t)
      PROVE  UNCHANGED <<claimed, buffers, now>>
  BY <1>2 DEF CreatePublicBooking, CancelMyBooking, RescheduleMyBooking
<1>3. ASSUME MemberNext PROVE UNCHANGED <<claimed, buffers, now>>
  <2>1. ASSUME NEW m \in Sessions, NEW a \in Appts,
               \/ \E f \in Patches, to \in Snapshot : ReadForUpdate(m, a, f, to)
               \/ \E t \in Starts : ReadForMove(m, a, t)
               \/ ReadForCancel(m, a)
               \/ ReadForRemove(m, a)
        PROVE  UNCHANGED <<claimed, buffers, now>>
    BY <2>1 DEF ReadForUpdate, ReadForMove, ReadForCancel, ReadForRemove, BeginEdit
  <2>2. ASSUME NEW e \in edits, CheckEdit(e) \/ Reread(e) \/ WriteEdit(e) \/ DeleteRow(e)
        PROVE  UNCHANGED <<claimed, buffers, now>>
    BY <2>2 DEF CheckEdit, Reread, WriteEdit, DeleteRow
  <2>3. ASSUME \/ \E m \in Sessions, st \in AskedStatuses, s \in Services,
                     p \in Places, t \in Starts, n \in Lengths : CheckNew(m, st, s, p, t, n)
               \/ \E d \in drafts, a \in Appts : InsertNew(d, a)
               \/ \E m \in Sessions : Drop(m)
        PROVE  UNCHANGED <<claimed, buffers, now>>
    BY <2>3 DEF CheckNew, InsertNew, Drop
  <2> QED
    BY <1>3, <2>1, <2>2, <2>3 DEF MemberNext
<1>4. ASSUME UNCHANGED vars PROVE UNCHANGED <<claimed, buffers, now>>
  BY <1>4 DEF vars
<1> QED
  BY <1>1, <1>2, <1>3, <1>4 DEF Next, ClientNext, TypeOK

LEMMA RowsStep == ASSUME TypeOK, [Next]_vars PROVE appt' \in [Appts -> Row]
<1>1. appt \in [Appts -> Row]
  BY DEF TypeOK
<1>2. ASSUME NEW a \in Appts, NEW r \in Row, Writes(a, r)
      PROVE  appt' \in [Appts -> Row]
  BY <1>1, <1>2 DEF Writes, WriteRow
<1>3. [Blank EXCEPT !.status = "deleted"] \in Row
  BY BlankRow DEF Row
<1>4. ASSUME NEW a \in Appts, Empties(a)
      PROVE  appt' \in [Appts -> Row]
  BY <1>1, <1>3, <1>4 DEF Empties
<1> QED
  BY <1>1, <1>2, <1>4, StepsOfTheTable

LEMMA TypeStep == ASSUME TypeOK, [Next]_vars PROVE TypeOK'
BY RowsStep, SurroundingsStep, DraftsStep, EditsStep DEF TypeOK

\* The variables always have their types, in particular every row of the table
\* is one the columns and enumerations of the database can hold.
THEOREM TypeCorrect == Spec => []TypeOK
<1>1. TypeOK /\ [Next]_vars => TypeOK'
  BY TypeStep
<1> QED
  BY TypeInit, <1>1, PTL DEF Spec

-----------------------------------------------------------------------------
(* Windows and collisions                                                  *)

\* The exclusion constraints hold between all rows.
NoOverlap == \A a, b \in Appts : a # b => ~Excludes(appt[a], appt[b])

\* NoDoubleBooking alone is not inductive: a write compares busy windows, not
\* appointments.  With windows that fit their rows and do not overlap, it is.
IInv == TypeOK /\ WindowMatchesRow /\ NoOverlap

LEMMA BlankIsInactive == ~Active(Blank) /\ ~Active([Blank EXCEPT !.status = "deleted"])
BY BlankRow DEF Active, ActiveStatuses, Row

LEMMA DeletedRow ==
    /\ [Blank EXCEPT !.status = "deleted"] \in Row
    /\ [Blank EXCEPT !.status = "deleted"].status = "deleted"
BY BlankRow DEF Row

LEMMA ExcludesSymmetric ==
    ASSUME NEW r \in Row, NEW q \in Row, Excludes(r, q)
    PROVE  Excludes(q, r)
BY DEF Excludes, SameStaffOrResource, RangesOverlap

LEMMA WindowsStep == ASSUME TypeOK, WindowMatchesRow, [Next]_vars PROVE WindowMatchesRow'
<1> SUFFICES ASSUME NEW a \in Appts, Live(a)' PROVE Fits(appt'[a])
  BY DEF WindowMatchesRow, Fits
<1>1. ASSUME appt' = appt PROVE Fits(appt'[a])
  BY <1>1 DEF WindowMatchesRow, Fits, Live
<1>2. ASSUME NEW b \in Appts, NEW r \in Row, Writes(b, r) PROVE Fits(appt'[a])
  <2>1. CASE a = b
    BY <1>2, <2>1 DEF Writes, WriteRow, TypeOK
  <2>2. CASE a # b
    <3>1. appt'[a] = appt[a]
      BY <1>2, <2>2 DEF Writes, WriteRow, TypeOK
    <3> QED
      BY <3>1 DEF WindowMatchesRow, Fits, Live
  <2> QED
    BY <2>1, <2>2
<1>3. ASSUME NEW b \in Appts, Empties(b) PROVE Fits(appt'[a])
  <2>1. a # b
    BY <1>3, DeletedRow
       DEF Empties, TypeOK, Live, Statuses, ActiveStatuses, CorrectionSources
  <2>2. appt'[a] = appt[a]
    BY <1>3, <2>1 DEF Empties, TypeOK
  <2> QED
    BY <2>2 DEF WindowMatchesRow, Fits, Live
<1> QED
  BY <1>1, <1>2, <1>3, StepsOfTheTable

LEMMA OverlapStep == ASSUME TypeOK, NoOverlap, [Next]_vars PROVE NoOverlap'
<1> SUFFICES ASSUME NEW a \in Appts, NEW b \in Appts, a # b,
                    Excludes(appt'[a], appt'[b])
             PROVE  FALSE
  BY DEF NoOverlap
<1>1. CASE appt' = appt
  BY <1>1 DEF NoOverlap
<1>2. ASSUME NEW c \in Appts, NEW r \in Row, Writes(c, r) PROVE FALSE
  <2>1. /\ \A d \in Appts \ {c} : appt'[d] = appt[d] /\ ~Excludes(r, appt[d])
        /\ appt'[c] = r
    BY <1>2 DEF Writes, WriteRow, TypeOK
  <2>2. appt'[a] \in Row /\ appt'[b] \in Row
    BY RowsStep
  <2>3. CASE a = c
    BY <2>1, <2>3
  <2>4. CASE b = c
    BY <2>1, <2>2, <2>4, ExcludesSymmetric
  <2>5. CASE a # c /\ b # c
    BY <2>1, <2>5 DEF NoOverlap
  <2> QED
    BY <2>3, <2>4, <2>5
<1>3. ASSUME NEW c \in Appts, Empties(c) PROVE FALSE
  <2>1. /\ \A d \in Appts \ {c} : appt'[d] = appt[d]
        /\ ~Active(appt'[c])
    BY <1>3, BlankIsInactive DEF Empties, TypeOK
  <2>2. a # c /\ b # c
    BY <2>1 DEF Excludes
  <2> QED
    BY <2>1, <2>2 DEF NoOverlap
<1> QED
  BY <1>1, <1>2, <1>3, StepsOfTheTable

LEMMA IInvInit == Init => IInv
<1> SUFFICES ASSUME Init PROVE IInv
  OBVIOUS
<1>1. TypeOK
  BY TypeInit
<1>2. \A a \in Appts : ~Live(a) /\ ~Active(appt[a])
  BY BlankRow, BlankIsInactive DEF Init, Live, Statuses, ActiveStatuses, CorrectionSources
<1>3. WindowMatchesRow /\ NoOverlap
  BY <1>2 DEF WindowMatchesRow, NoOverlap, Excludes
<1> QED
  BY <1>1, <1>3 DEF IInv

LEMMA IInvStep == ASSUME IInv, [Next]_vars PROVE IInv'
BY TypeStep, WindowsStep, OverlapStep DEF IInv

\* A window that fits an active row contains the appointment itself.
LEMMA WindowCovers ==
    ASSUME NEW r \in Row, Fits(r)
    PROVE  /\ r.busy.from \in Int /\ r.busy.until \in Int
           /\ r.start \in Int /\ End(r) \in Int
           /\ r.busy.from <= r.start /\ End(r) <= r.busy.until
<1>1. PICK buf \in BufferChoices : r.busy = BusyWindow(r.start, r.length, buf)
  BY DEF Fits
<1>2. buf.before \in Nat /\ buf.after \in Nat
  BY BookingsAssumption
<1>3. r.start \in Nat /\ r.length \in Nat
  <2>1. r.start \in Starts /\ r.length \in Lengths
    BY DEF Row
  <2>2. Starts \subseteq Nat /\ Lengths \subseteq Nat
    BY BookingsAssumption DEF Times
  <2> QED
    BY <2>1, <2>2
<1>4. /\ r.busy.from = r.start - buf.before
      /\ r.busy.until = r.start + r.length + buf.after
  BY <1>1 DEF BusyWindow
<1>5. End(r) = r.start + r.length
  BY DEF End
<1> QED
  BY <1>2, <1>3, <1>4, <1>5

LEMMA IInvNoDoubleBooking == IInv => NoDoubleBooking
<1> SUFFICES ASSUME IInv, NEW a \in Appts, NEW b \in Appts, a # b,
                    Active(appt[a]), Active(appt[b]),
                    SameStaffOrResource(appt[a].place, appt[b].place)
             PROVE  End(appt[a]) <= appt[b].start \/ End(appt[b]) <= appt[a].start
  BY DEF NoDoubleBooking
<1> DEFINE v == appt[a].busy
           w == appt[b].busy
<1>1. appt[a] \in Row /\ Fits(appt[a]) /\ appt[b] \in Row /\ Fits(appt[b])
  BY DEF IInv, TypeOK, WindowMatchesRow, Fits, Live, Active, Statuses
<1>2. ~RangesOverlap(v, w)
  BY DEF IInv, NoOverlap, Excludes
<1>3. ~(v.from < w.until /\ w.from < v.until)
  BY <1>2 DEF RangesOverlap
<1>4. /\ v.from \in Int /\ v.until \in Int /\ appt[a].start \in Int /\ End(appt[a]) \in Int
      /\ v.from <= appt[a].start /\ End(appt[a]) <= v.until
  BY <1>1, WindowCovers
<1>5. /\ w.from \in Int /\ w.until \in Int /\ appt[b].start \in Int /\ End(appt[b]) \in Int
      /\ w.from <= appt[b].start /\ End(appt[b]) <= w.until
  BY <1>1, WindowCovers
<1> QED
  BY <1>3, <1>4, <1>5

LEMMA Invariance == Spec => []IInv
<1>1. IInv /\ [Next]_vars => IInv'
  BY IInvStep
<1> QED
  BY IInvInit, <1>1, PTL DEF Spec

\* No interleaving of clients, members, stale checks and buffer changes ever
\* books a person or a resource twice for the same moment.
THEOREM NeverDoubleBooked == Spec => []NoDoubleBooking
BY Invariance, IInvNoDoubleBooking, PTL

\* The busy window the database compares always belongs to the row it is on.
THEOREM WindowsFitTheirRows == Spec => []WindowMatchesRow
<1>1. IInv => WindowMatchesRow
  BY DEF IInv
<1> QED
  BY Invariance, <1>1, PTL

-----------------------------------------------------------------------------
(* The table implements the calendar of holds                              *)

HoldOf(a, r) == [id |-> a, place |-> r.place, busy |-> r.busy]

\* The refinement mapping: one hold for each row that occupies the calendar.
Holds == {HoldOf(a, appt[a]) : a \in {b \in Appts : Active(appt[b])}}

LEMMA HoldsFacts ==
    ASSUME NEW k
    PROVE  k \in Holds <=> \E a \in Appts : Active(appt[a]) /\ k = HoldOf(a, appt[a])
BY DEF Holds

LEMMA HoldsFactsNext ==
    ASSUME NEW k
    PROVE  k \in Holds' <=> \E a \in Appts : Active(appt'[a]) /\ k = HoldOf(a, appt'[a])
BY DEF Holds, Active, HoldOf

LEMMA OthersHolds ==
    ASSUME NEW a \in Appts, NEW k
    PROVE  k \in Calendar!HoldsOfOthers(a)
           <=> \E b \in Appts \ {a} : Active(appt[b]) /\ k = HoldOf(b, appt[b])
BY DEF Calendar!HoldsOfOthers, HoldOf

\* A row that leaves every other row alone gives its hold back or replaces it.
LEMMA HoldsAfter ==
    ASSUME NEW a \in Appts, \A b \in Appts \ {a} : appt'[b] = appt[b]
    PROVE  Holds' = IF Active(appt'[a])
                    THEN Calendar!HoldsOfOthers(a) \cup {HoldOf(a, appt'[a])}
                    ELSE Calendar!HoldsOfOthers(a)
<1>1. ASSUME NEW k
      PROVE  k \in Holds' <=> \/ k \in Calendar!HoldsOfOthers(a)
                              \/ Active(appt'[a]) /\ k = HoldOf(a, appt'[a])
  BY HoldsFactsNext, OthersHolds
<1> QED
  BY <1>1

LEMMA CalendarStep == ASSUME TypeOK, [Next]_vars PROVE [Calendar!Next]_Holds
<1>1. CASE appt' = appt
  BY <1>1 DEF Holds, Active, HoldOf
<1>2. ASSUME NEW a \in Appts, NEW r \in Row, Writes(a, r) PROVE Calendar!Next
  <2>1. /\ \A b \in Appts \ {a} : appt'[b] = appt[b] /\ ~Excludes(r, appt[b])
        /\ appt'[a] = r
    BY <1>2 DEF Writes, WriteRow, TypeOK
  <2>2. CASE Active(r)
    <3>1. HoldOf(a, r) \in Calendar!Hold
      BY DEF Calendar!Hold, HoldOf, Row
    <3>2. HoldOf(a, r).id = a
      BY DEF HoldOf
    <3>3. ASSUME NEW k \in Calendar!HoldsOfOthers(a)
          PROVE  ~Calendar!Clash(HoldOf(a, r), k)
      <4>1. PICK b \in Appts \ {a} : Active(appt[b]) /\ k = HoldOf(b, appt[b])
        BY OthersHolds
      <4>2. ~Excludes(r, appt[b])
        BY <2>1
      <4> QED
        BY <2>2, <4>1, <4>2
           DEF Excludes, SameStaffOrResource, RangesOverlap, HoldOf,
               Calendar!Clash, Calendar!SharePlace, Calendar!OverlapInTime
    <3>4. Holds' = Calendar!HoldsOfOthers(a) \cup {HoldOf(a, r)}
      BY <2>1, <2>2, HoldsAfter
    <3>5. Calendar!Take(HoldOf(a, r))
      BY <3>2, <3>3, <3>4 DEF Calendar!Take, Holds, HoldOf
    <3> QED
      BY <3>1, <3>5 DEF Calendar!Next
  <2>3. CASE ~Active(r)
    <3>1. Holds' = Calendar!HoldsOfOthers(a)
      BY <2>1, <2>3, HoldsAfter
    <3>2. Calendar!Release(a)
      BY <3>1 DEF Calendar!Release, Holds, HoldOf
    <3> QED
      BY <3>2 DEF Calendar!Next
  <2> QED
    BY <2>2, <2>3
<1>3. ASSUME NEW a \in Appts, Empties(a) PROVE Calendar!Next
  <2>1. (\A b \in Appts \ {a} : appt'[b] = appt[b]) /\ ~Active(appt'[a])
    BY <1>3, BlankIsInactive DEF Empties, TypeOK
  <2>2. Holds' = Calendar!HoldsOfOthers(a)
    BY <2>1, HoldsAfter
  <2>3. Calendar!Release(a)
    BY <2>2 DEF Calendar!Release, Holds, HoldOf
  <2> QED
    BY <2>3 DEF Calendar!Next
<1> QED
  BY <1>1, <1>2, <1>3, StepsOfTheTable

LEMMA CalendarInit == Init => Calendar!Init
BY BlankRow, BlankIsInactive DEF Init, Calendar!Init

\* The table of appointments implements the abstract calendar: every write of
\* anyone takes, replaces or releases the hold of one booking, and none lands
\* on a hold that competes for its person or resource.
THEOREM TableImplementsCalendar == Spec => ImplementsCalendar
<1>1. TypeOK /\ [Next]_vars => [Calendar!Next]_Holds
  BY CalendarStep
<1> QED
  BY TypeCorrect, CalendarInit, <1>1, PTL DEF Spec, ImplementsCalendar, Calendar!Spec, Holds, HoldOf

-----------------------------------------------------------------------------
(* What a step may never do to a row                                       *)

\* A write puts its row in place and leaves the others alone.
LEMMA WrittenRow ==
    ASSUME TypeOK, NEW a \in Appts, NEW r, WriteRow(a, r)
    PROVE  appt'[a] = r /\ \A b \in Appts \ {a} : appt'[b] = appt[b]
BY DEF TypeOK, WriteRow

LEMMA UpdatedRow ==
    ASSUME TypeOK, NEW a \in Appts, NEW r \in Row, UpdateRow(a, r)
    PROVE  /\ appt'[a].status = r.status /\ appt'[a].source = r.source
           /\ appt'[a].start = r.start
           /\ \A b \in Appts \ {a} : appt'[b] = appt[b]
<1>1. appt'[a] = [r EXCEPT !.busy = WindowNow(r)]
      /\ \A b \in Appts \ {a} : appt'[b] = appt[b]
  BY WrittenRow DEF UpdateRow
<1> QED
  BY <1>1 DEF Row

\* The request that wrote is over after its write.
LEMMA WriterEnds ==
    ASSUME NEW e \in edits, WriteEdit(e) \/ DeleteRow(e)
    PROVE  e \in Ended
BY DEF WriteEdit, DeleteRow, Ended

LEMMA RemovedRow ==
    ASSUME TypeOK, NEW e \in edits, DeleteRow(e)
    PROVE  /\ e.appt \in Appts /\ ~Live(e.appt)' /\ appt'[e.appt].status = "deleted"
           /\ \A b \in Appts \ {e.appt} : appt'[b] = appt[b]
<1>1. e.appt \in Appts
  BY DEF TypeOK, Edit
<1>2. appt'[e.appt] = [Blank EXCEPT !.status = "deleted"]
      /\ \A b \in Appts \ {e.appt} : appt'[b] = appt[b]
  BY <1>1 DEF DeleteRow, TypeOK
<1> QED
  BY <1>1, <1>2, DeletedRow DEF Live, Statuses, ActiveStatuses, CorrectionSources

\* The row an edit writes carries the patched status and start.
LEMMA EditedRow ==
    ASSUME TypeOK, NEW e \in edits, WriteEdit(e)
    PROVE  /\ e.appt \in Appts
           /\ appt'[e.appt].status = Patched(e).status
           /\ appt'[e.appt].start = Patched(e).start
           /\ \A b \in Appts \ {e.appt} : appt'[b] = appt[b]
<1>1. e.appt \in Appts
  BY DEF TypeOK, Edit
<1>2. Patched(e) \in Row /\ UpdateRow(e.appt, Patched(e))
  BY PatchedRow DEF WriteEdit
<1> QED
  BY <1>1, <1>2, UpdatedRow

LEMMA OutcomeStep ==
    ASSUME TypeOK, [Next]_vars, NEW a \in Appts, StatusChanges(a),
           appt[a].status \in CorrectionSources
    PROVE  \E e \in Ended : e.appt = a /\ MayCorrect(e.by)
<1>1. appt' # appt
  BY DEF StatusChanges
<1>2. ASSUME NEW b \in Appts, NEW s \in Services, NEW p \in Places, NEW t \in Starts,
             CreatePublicBooking(b, s, p, t)
      PROVE  FALSE
  BY <1>2, WrittenRow
     DEF CreatePublicBooking, StatusChanges, Live, Statuses, ActiveStatuses, CorrectionSources
<1>3. ASSUME NEW b \in Appts, CancelMyBooking(b) PROVE FALSE
  <2>1. [appt[b] EXCEPT !.status = "cancelled"] \in Row
    BY DEF TypeOK, Row, Statuses, CorrectionSources
  <2>2. a = b
    BY <1>3, <2>1, UpdatedRow DEF CancelMyBooking, StatusChanges
  <2> QED
    BY <1>3, <2>2 DEF CancelMyBooking, Manageable, CorrectionSources
<1>4. ASSUME NEW b \in Appts, NEW p \in Places, NEW t \in Starts, RescheduleMyBooking(b, p, t)
      PROVE  FALSE
  <2>1. [appt[b] EXCEPT !.start = t, !.length = Duration[appt[b].service],
                               !.place = p, !.status = OnlineStatus] \in Row
    BY OnlineStatusType, BookingsAssumption DEF TypeOK, Row
  <2>2. a = b
    BY <1>4, <2>1, UpdatedRow DEF RescheduleMyBooking, StatusChanges
  <2> QED
    BY <1>4, <2>2 DEF RescheduleMyBooking, Manageable, CorrectionSources
<1>5. ASSUME NEW d \in drafts, NEW b \in Appts, InsertNew(d, b) PROVE FALSE
  <2>1. d.row \in Row
    BY DEF TypeOK, Draft
  <2>2. a = b
    BY <1>5, <2>1, UpdatedRow DEF InsertNew, StatusChanges
  <2> QED
    BY <1>5, <2>2 DEF InsertNew, CorrectionSources
<1>6. ASSUME NEW e \in edits, WriteEdit(e)
      PROVE  e \in Ended /\ e.appt = a /\ MayCorrect(e.by)
  <2>1. e.appt = a /\ appt'[a].status = Patched(e).status
    BY <1>6, EditedRow DEF StatusChanges
  <2>2. HistoryGuard(e.by, appt[a], Patched(e)) /\ Patched(e).status # appt[a].status
    BY <1>6, <2>1 DEF WriteEdit, StatusChanges
  <2> QED
    BY <1>6, <2>1, <2>2, WriterEnds DEF HistoryGuard
<1>7. ASSUME NEW e \in edits, DeleteRow(e) PROVE FALSE
  BY <1>7, RemovedRow DEF StatusChanges
<1> QED
  BY <1>1, <1>2, <1>3, <1>4, <1>5, <1>6, <1>7, WhoWrites

\* A recorded outcome changes only by a request of a member who may correct
\* history, whatever was read before it and whenever.
THEOREM OutcomesStay == Spec => OutcomesOnlyCorrected
<1>1. TypeOK /\ [Next]_vars
      => [\A a \in Appts :
             StatusChanges(a) /\ appt[a].status \in CorrectionSources
             => \E e \in Ended : e.appt = a /\ MayCorrect(e.by)]_vars
  BY OutcomeStep
<1> QED
  BY TypeCorrect, <1>1, PTL DEF Spec, OutcomesOnlyCorrected

\* Which removal reaches the database: only one an owner asked for.  It is an
\* invariant of the requests, since nobody reads the role again.
RemovalsByOwners ==
    \A e \in edits : e.op = "remove" /\ e.step = "checked" => MayDelete(e.by)

LEMMA RemovalsInit == Init => RemovalsByOwners
BY DEF Init, RemovalsByOwners

LEMMA RemovalsStep == ASSUME TypeOK, RemovalsByOwners, [Next]_vars PROVE RemovalsByOwners'
<1>1. ASSUME NEW m \in Sessions, NEW a \in Appts, NEW op, NEW fields, NEW to,
             BeginEdit(m, a, op, fields, to)
      PROVE  RemovalsByOwners'
  BY <1>1 DEF BeginEdit, RemovalsByOwners, MayDelete
<1>2. ASSUME NEW m \in Sessions, NEW a \in Appts,
             \/ \E f \in Patches, to \in Snapshot : ReadForUpdate(m, a, f, to)
             \/ \E t \in Starts : ReadForMove(m, a, t)
             \/ ReadForCancel(m, a)
             \/ ReadForRemove(m, a)
      PROVE  RemovalsByOwners'
  BY <1>1, <1>2 DEF ReadForUpdate, ReadForMove, ReadForCancel, ReadForRemove
<1>3. ASSUME NEW e \in edits, CheckEdit(e) PROVE RemovalsByOwners'
  <2>1. [e EXCEPT !.step = "checked"].op = e.op /\ [e EXCEPT !.step = "checked"].by = e.by
    BY DEF TypeOK, Edit
  <2>2. e.op = "remove" => MayDelete(e.by)
    BY <1>3 DEF CheckEdit, RemoveRules
  <2>3. edits' = (edits \ {e}) \cup {[e EXCEPT !.step = "checked"]}
    BY <1>3 DEF CheckEdit
  <2> QED
    BY <2>1, <2>2, <2>3 DEF RemovalsByOwners, MayDelete
<1>6. ASSUME NEW e \in edits, Reread(e) PROVE RemovalsByOwners'
  <2>1. PICK f \in Edit : edits' = (edits \ {e}) \cup {f} /\ f.step = "reread"
    BY <1>6, RereadType
  <2> QED
    BY <2>1 DEF RemovalsByOwners, MayDelete
<1>4. ASSUME edits' \subseteq edits PROVE RemovalsByOwners'
  BY <1>4 DEF RemovalsByOwners, MayDelete
<1>5. ASSUME \/ ClientNext
             \/ \E m \in Sessions, st \in AskedStatuses, s \in Services, p \in Places,
                   t \in Starts, n \in Lengths : CheckNew(m, st, s, p, t, n)
             \/ \E d \in drafts, a \in Appts : InsertNew(d, a)
             \/ \E e \in edits : WriteEdit(e) \/ DeleteRow(e)
             \/ \E m \in Sessions : Drop(m)
             \/ \E s \in Services, buf \in BufferChoices : SetServiceBuffers(s, buf)
             \/ Tick
             \/ UNCHANGED vars
      PROVE  edits' \subseteq edits
  BY <1>5 DEF ClientNext, CreatePublicBooking, ClaimBooking, CancelMyBooking, RescheduleMyBooking,
              CheckNew, InsertNew, WriteEdit, DeleteRow, Drop, SetServiceBuffers, Tick, vars
<1> QED
  BY <1>2, <1>3, <1>4, <1>5, <1>6 DEF Next, MemberNext

\* A row leaves the table only through a delete.
LEMMA OnlyDeletesRemove ==
    ASSUME TypeOK, [Next]_vars, NEW a \in Appts, Live(a), ~Live(a)'
    PROVE  \E e \in edits : DeleteRow(e) /\ e.appt = a
<1>1. appt' # appt
  BY DEF Live
<1>2. ASSUME NEW b \in Appts, NEW r \in Row, Writes(b, r) PROVE FALSE
  <2>1. appt'[b] = r /\ r.status \in Statuses /\ \A c \in Appts \ {b} : appt'[c] = appt[c]
    BY <1>2, WrittenRow DEF Writes
  <2> QED
    BY <2>1 DEF Live
<1>3. ASSUME NEW e \in edits, DeleteRow(e) PROVE e.appt = a
  BY <1>3, RemovedRow DEF Live
<1> QED
  BY <1>1, <1>2, <1>3, StepsOfTheTable

LEMMA RemovalStep ==
    ASSUME TypeOK, RemovalsByOwners, [Next]_vars, NEW a \in Appts, Live(a), ~Live(a)'
    PROVE  /\ appt[a].source = "user" /\ a \notin claimed
           /\ appt[a].status \in {"pending", "confirmed", "cancelled"}
           /\ \E e \in Ended : e.appt = a /\ Role[e.by] = "owner"
<1>1. PICK e \in edits : DeleteRow(e) /\ e.appt = a
  BY OnlyDeletesRemove
<1>2. DeleteGuard(a)
  BY <1>1 DEF DeleteRow
<1>3. appt[a].status \in {"pending", "confirmed", "cancelled"}
  BY <1>2 DEF DeleteGuard, Live, Statuses, ActiveStatuses, CorrectionSources, HistoryStatuses
<1>4. Role[e.by] = "owner"
  BY <1>1 DEF DeleteRow, RemovalsByOwners, MayDelete
<1>5. e \in Ended
  BY <1>1, WriterEnds
<1> QED
  BY <1>1, <1>2, <1>3, <1>4, <1>5 DEF DeleteGuard

\* A row disappears only as a mistake of the business app, deleted by an owner,
\* whatever happened to it between the check and the delete.
THEOREM MistakesOnly == Spec => OnlyMistakesDeleted
<1> DEFINE Inv == TypeOK /\ RemovalsByOwners
<1>1. Init => Inv
  BY TypeInit, RemovalsInit
<1>2. Inv /\ [Next]_vars => Inv'
  BY TypeStep, RemovalsStep
<1>3. Inv /\ [Next]_vars
      => [\A a \in Appts :
             Live(a) /\ ~Live(a)'
             => /\ appt[a].source = "user" /\ a \notin claimed
                /\ appt[a].status \in {"pending", "confirmed", "cancelled"}
                /\ \E e \in Ended : e.appt = a /\ Role[e.by] = "owner"]_vars
  BY RemovalStep
<1> QED
  BY <1>1, <1>2, <1>3, PTL DEF Spec, OnlyMistakesDeleted

LEMMA ConfirmationStep ==
    ASSUME TypeOK, [Next]_vars, ~AutoConfirm, NEW a \in Appts,
           appt'[a].source = "public", appt'[a].status = "confirmed",
           appt[a].status = "confirmed" => appt'[a].start # appt[a].start
    PROVE  \E e \in Ended :
              /\ e.appt = a
              /\ \/ appt'[a].start \in TimesApproved(e)
                 \/ appt[a].start # e.before.start
                 \/ appt[a].start # e.to.start /\ "start" \notin e.fields
<1>1. appt' # appt
  OBVIOUS
<1>2. OnlineStatus = "pending"
  BY DEF OnlineStatus
<1>3. ASSUME NEW b \in Appts, NEW s \in Services, NEW p \in Places, NEW t \in Starts,
             CreatePublicBooking(b, s, p, t)
      PROVE  FALSE
  <2>1. appt'[b].status = "pending" /\ \A c \in Appts \ {b} : appt'[c] = appt[c]
    BY <1>2, <1>3, WrittenRow DEF CreatePublicBooking, NewRow
  <2> QED
    BY <2>1
<1>4. ASSUME NEW b \in Appts, CancelMyBooking(b) PROVE FALSE
  <2> DEFINE r == [appt[b] EXCEPT !.status = "cancelled"]
  <2>1. r \in Row /\ r.status = "cancelled"
    BY DEF TypeOK, Row, Statuses, CorrectionSources
  <2>2. appt'[b].status = "cancelled" /\ \A c \in Appts \ {b} : appt'[c] = appt[c]
    BY <1>4, <2>1, UpdatedRow DEF CancelMyBooking
  <2> QED
    BY <2>2
<1>5. ASSUME NEW b \in Appts, NEW p \in Places, NEW t \in Starts, RescheduleMyBooking(b, p, t)
      PROVE  FALSE
  <2> DEFINE r == [appt[b] EXCEPT !.start = t, !.length = Duration[appt[b].service],
                               !.place = p, !.status = OnlineStatus]
  <2>1. r \in Row /\ r.status = "pending"
    BY <1>2, OnlineStatusType, BookingsAssumption DEF TypeOK, Row
  <2>2. UpdateRow(b, r)
    BY <1>5 DEF RescheduleMyBooking
  <2>3. appt'[b].status = "pending" /\ \A c \in Appts \ {b} : appt'[c] = appt[c]
    BY <2>1, <2>2, UpdatedRow
  <2> QED
    BY <2>3
<1>6. ASSUME NEW d \in drafts, NEW b \in Appts, InsertNew(d, b) PROVE FALSE
  <2>1. d.row \in Row /\ d.row.source = "user"
    BY DEF TypeOK, Draft
  <2>2. appt'[b].source = "user" /\ \A c \in Appts \ {b} : appt'[c] = appt[c]
    BY <1>6, <2>1, UpdatedRow DEF InsertNew
  <2> QED
    BY <2>2
<1>7. ASSUME NEW e \in edits, WriteEdit(e)
      PROVE  /\ e \in Ended /\ e.appt = a
             /\ \/ appt'[a].start \in TimesApproved(e)
                \/ appt[a].start # e.before.start
                \/ appt[a].start # e.to.start /\ "start" \notin e.fields
  <2>1. e \in Ended /\ e.appt = a
    BY <1>7, WriterEnds, EditedRow
  <2>2. /\ appt[a] \in Row /\ e \in Edit
        /\ appt'[a].status = Patched(e).status /\ appt'[a].start = Patched(e).start
    BY <1>7, <2>1, EditedRow DEF TypeOK
  <2>3. e.before.start \in Starts /\ e.to.start \in Starts
    BY <2>2 DEF Edit, Snapshot
  <2>4. /\ appt'[a].start = IF SetsTimes(e) THEN e.to.start ELSE appt[a].start
        /\ appt'[a].status = IF "status" \in e.fields THEN e.to.status ELSE appt[a].status
    BY <2>1, <2>2 DEF Patched, Row
  <2>5. CASE "start" \in e.fields
    <3>1. appt'[a].start = e.to.start
      BY <2>4, <2>5 DEF SetsTimes
    <3> QED
      BY <2>1, <2>3, <2>5, <3>1 DEF TimesApproved
  <2>6. CASE "start" \notin e.fields /\ appt'[a].start = appt[a].start
    <3>1. "status" \in e.fields
      BY <2>4, <2>6
    <3> QED
      BY <2>1, <2>3, <2>6, <3>1 DEF TimesApproved
  <2>7. CASE "start" \notin e.fields /\ appt'[a].start # appt[a].start
    BY <2>1, <2>4, <2>7
  <2> QED
    BY <2>5, <2>6, <2>7
<1>8. ASSUME NEW e \in edits, DeleteRow(e) PROVE FALSE
  BY <1>8, RemovedRow
<1> QED
  BY <1>1, <1>3, <1>4, <1>5, <1>6, <1>7, <1>8, WhoWrites

\* Where the business confirms bookings itself, no write of a client confirms
\* an online booking, and a write of a member confirms a time it did not approve
\* only after the booking was moved behind one of its reads.
THEOREM StaleApprovalsOnly == Spec => UnapprovedOnlyIfMoved
<1>1. TypeOK /\ [Next]_vars
      => [\A a \in Appts :
             GetsApproval(a)
             => \E e \in Ended :
                   /\ e.appt = a
                   /\ \/ appt'[a].start \in TimesApproved(e)
                      \/ appt[a].start # e.before.start
                      \/ appt[a].start # e.to.start /\ "start" \notin e.fields]_vars
  BY ConfirmationStep DEF GetsApproval
<1> QED
  BY TypeCorrect, <1>1, PTL DEF Spec, UnapprovedOnlyIfMoved
-----------------------------------------------------------------------------
(* What only a stale read breaks                                           *)

\* What a request asks for, from the moment it has read the row.
Asks(e) ==
    /\ e.op = "move" => "status" \notin e.fields
    /\ e.op = "cancel" => e.to.status = "cancelled"

\* What its check has found of the row as it was read.
Allowed(e) ==
    /\ e.op \in {"update", "cancel"} => OnTheTable(e.before.status, e.to.status)
    /\ e.op = "move" => Active(e.before)

\* Nothing is written that was not checked against the row it read.
Judged ==
    \A e \in edits :
        /\ Asks(e)
        /\ e.step # "read" => Allowed(e)
        /\ e.op = "remove" => e.step # "reread"

\* The rules of the server ask for a change of the table.
LEMMA RulesFollowTheTable ==
    ASSUME NEW m, NEW before, NEW to, StatusChangeAllowed(m, before, to)
    PROVE  OnTheTable(before.status, to)
<1>1. CASE CheckStatusTransition(before.status, to, before.start, now)
  <2>1. /\ HasStarted(before.start, now) \in BOOLEAN
        /\ (Day(before.start) = Day(now)) \in BOOLEAN
    BY DEF HasStarted
  <2> QED
    BY <1>1, <2>1 DEF CheckStatusTransition, OnTheTable
<1>2. CASE TransitionWhateverTheTime(before.status, to)
  BY <1>2 DEF TransitionWhateverTheTime, OnTheTable
<1> QED
  BY <1>1, <1>2 DEF StatusChangeAllowed

LEMMA JudgedInit == Init => Judged
BY DEF Init, Judged

LEMMA JudgedBegins ==
    ASSUME Judged, NEW m, NEW a, NEW op, NEW fields, NEW to, BeginEdit(m, a, op, fields, to),
           op = "move" => "status" \notin fields, op = "cancel" => to.status = "cancelled"
    PROVE  Judged'
<1> DEFINE e == [by |-> m, op |-> op, step |-> "read", appt |-> a,
                 before |-> Seen(a), fields |-> fields, to |-> to]
<1>1. Asks(e) /\ e.step = "read"
  BY DEF Asks
<1>2. edits' = edits \cup {e}
  BY DEF BeginEdit
<1> HIDE DEF e
<1> QED
  BY <1>1, <1>2 DEF Judged

LEMMA JudgedChecks ==
    ASSUME TypeOK, Judged, NEW e \in edits, CheckEdit(e)
    PROVE  Judged'
<1> DEFINE f == [e EXCEPT !.step = "checked"]
<1>1. /\ f.step = "checked" /\ f.op = e.op /\ f.before = e.before
      /\ f.to = e.to /\ f.fields = e.fields
  BY DEF TypeOK, Edit
<1>2. Asks(e)
  BY DEF Judged
<1>3. Allowed(e)
  <2>1. CASE e.op = "update"
    BY <2>1, RulesFollowTheTable DEF CheckEdit, UpdateRules, Allowed
  <2>2. CASE e.op = "cancel"
    BY <1>2, <2>2, RulesFollowTheTable DEF CheckEdit, CancelRules, Allowed, Asks
  <2>3. CASE e.op = "move"
    BY <2>3 DEF CheckEdit, MoveRules, Allowed
  <2>4. CASE e.op = "remove"
    BY <2>4 DEF Allowed
  <2> QED
    BY <2>1, <2>2, <2>3, <2>4 DEF CheckEdit
<1>4. Asks(f) /\ Allowed(f)
  BY <1>1, <1>2, <1>3 DEF Asks, Allowed
<1>5. edits' = (edits \ {e}) \cup {f}
  BY DEF CheckEdit
<1> HIDE DEF f
<1> QED
  BY <1>1, <1>4, <1>5 DEF Judged

LEMMA JudgedRereads ==
    ASSUME TypeOK, Judged, NEW e \in edits, Reread(e)
    PROVE  Judged'
<1>1. PICK f \in Edit : /\ edits' = (edits \ {e}) \cup {f}
                        /\ f.step = "reread" /\ f.op = e.op /\ f.before = e.before
                        /\ f.to.status = e.to.status
                        /\ f.fields = e.fields
  BY RereadType
<1>2. Asks(e) /\ Allowed(e) /\ e.op # "remove"
  BY DEF Reread, Judged
<1>3. Asks(f) /\ Allowed(f) /\ f.op # "remove"
  BY <1>1, <1>2 DEF Asks, Allowed
<1> QED
  BY <1>1, <1>3 DEF Judged

LEMMA JudgedStep == ASSUME TypeOK, Judged, [Next]_vars PROVE Judged'
<1>1. ASSUME NEW m \in Sessions, NEW a \in Appts,
             \/ \E f \in Patches, to \in Snapshot : ReadForUpdate(m, a, f, to)
             \/ \E t \in Starts : ReadForMove(m, a, t)
             \/ ReadForCancel(m, a)
             \/ ReadForRemove(m, a)
      PROVE  Judged'
  <2>1. ASSUME NEW f, NEW to, ReadForUpdate(m, a, f, to) PROVE Judged'
    BY <2>1, JudgedBegins DEF ReadForUpdate
  <2>2. ASSUME NEW t, ReadForMove(m, a, t) PROVE Judged'
    BY <2>2, JudgedBegins DEF ReadForMove
  <2>3. CASE ReadForCancel(m, a)
    <3> DEFINE to == [Seen(a) EXCEPT !.status = "cancelled"]
    <3>1. to.status = "cancelled"
      BY DEF Seen
    <3>2. BeginEdit(m, a, "cancel", {"status"}, to)
      BY <2>3 DEF ReadForCancel
    <3> HIDE DEF to
    <3> QED
      BY <3>1, <3>2, JudgedBegins
  <2>4. CASE ReadForRemove(m, a)
    BY <2>4, JudgedBegins DEF ReadForRemove
  <2> QED
    BY <1>1, <2>1, <2>2, <2>3, <2>4
<1>2. ASSUME edits' \subseteq edits PROVE Judged'
  BY <1>2 DEF Judged
<1>3. ASSUME \/ ClientNext
             \/ \E m \in Sessions, st \in AskedStatuses, s \in Services, p \in Places,
                   t \in Starts, n \in Lengths : CheckNew(m, st, s, p, t, n)
             \/ \E d \in drafts, a \in Appts : InsertNew(d, a)
             \/ \E e \in edits : WriteEdit(e) \/ DeleteRow(e)
             \/ \E m \in Sessions : Drop(m)
             \/ \E s \in Services, buf \in BufferChoices : SetServiceBuffers(s, buf)
             \/ Tick
             \/ UNCHANGED vars
      PROVE  edits' \subseteq edits
  BY <1>3 DEF ClientNext, CreatePublicBooking, ClaimBooking, CancelMyBooking, RescheduleMyBooking,
              CheckNew, InsertNew, WriteEdit, DeleteRow, Drop, SetServiceBuffers, Tick, vars
<1> QED
  BY <1>1, <1>2, <1>3, JudgedChecks, JudgedRereads DEF Next, MemberNext

THEOREM AlwaysJudged == Spec => [](TypeOK /\ Judged)
<1>1. Init => TypeOK /\ Judged
  BY TypeInit, JudgedInit
<1>2. TypeOK /\ Judged /\ [Next]_vars => (TypeOK /\ Judged)'
  BY TypeStep, JudgedStep
<1> QED
  BY <1>1, <1>2, PTL DEF Spec

\* The client's own writes stay on the table: cancelling and moving need an
\* upcoming booking that is pending or confirmed.
LEMMA ClientsFollowTheTable ==
    ASSUME NEW from \in {"pending", "confirmed"}, NEW to \in {"cancelled", "pending", "confirmed"}
    PROVE  OnTheTable(from, to)
BY DEF OnTheTable, TransitionRule

LEMMA OffTheTableStep ==
    ASSUME TypeOK, Judged, [Next]_vars, NEW a \in Appts, StatusChanges(a),
           ~OnTheTable(appt[a].status, appt'[a].status)
    PROVE  \E e \in Ended : e.appt = a /\ e.before.status # appt[a].status
<1>1. appt' # appt
  BY DEF StatusChanges
<1>2. ASSUME NEW b \in Appts, NEW s \in Services, NEW p \in Places, NEW t \in Starts,
             CreatePublicBooking(b, s, p, t)
      PROVE  FALSE
  BY <1>2, WrittenRow
     DEF CreatePublicBooking, StatusChanges, Live, Statuses, ActiveStatuses, CorrectionSources
<1>3. ASSUME NEW b \in Appts, CancelMyBooking(b) PROVE FALSE
  <2> DEFINE r == [appt[b] EXCEPT !.status = "cancelled"]
  <2>1. r \in Row /\ r.status = "cancelled"
    BY DEF TypeOK, Row, Statuses, CorrectionSources
  <2>2. a = b /\ appt'[a].status = "cancelled"
    BY <1>3, <2>1, UpdatedRow DEF CancelMyBooking, StatusChanges
  <2> QED
    BY <1>3, <2>2, ClientsFollowTheTable DEF CancelMyBooking, Manageable
<1>4. ASSUME NEW b \in Appts, NEW p \in Places, NEW t \in Starts, RescheduleMyBooking(b, p, t)
      PROVE  FALSE
  <2> DEFINE r == [appt[b] EXCEPT !.start = t, !.length = Duration[appt[b].service],
                               !.place = p, !.status = OnlineStatus]
  <2>1. r \in Row /\ r.status = OnlineStatus
    BY OnlineStatusType, BookingsAssumption DEF TypeOK, Row
  <2>2. UpdateRow(b, r)
    BY <1>4 DEF RescheduleMyBooking
  <2>3. a = b /\ appt'[a].status = OnlineStatus
    BY <2>1, <2>2, UpdatedRow DEF StatusChanges
  <2> QED
    BY <1>4, <2>3, ClientsFollowTheTable DEF RescheduleMyBooking, Manageable, OnlineStatus
<1>5. ASSUME NEW d \in drafts, NEW b \in Appts, InsertNew(d, b) PROVE FALSE
  <2>1. d.row \in Row
    BY DEF TypeOK, Draft
  <2>2. a = b
    BY <1>5, <2>1, UpdatedRow DEF InsertNew, StatusChanges
  <2> QED
    BY <1>5, <2>2 DEF InsertNew, StatusChanges, Live, Statuses, ActiveStatuses, CorrectionSources
<1>6. ASSUME NEW e \in edits, WriteEdit(e)
      PROVE  e \in Ended /\ e.appt = a /\ e.before.status # appt[a].status
  <2>1. e.appt = a /\ appt'[a].status = Patched(e).status /\ appt'[a].status # appt[a].status
    BY <1>6, EditedRow DEF StatusChanges
  <2>2. "status" \in e.fields /\ appt'[a].status = e.to.status
    <3>1. appt[e.appt] \in Row
      BY <2>1 DEF TypeOK
    <3>2. Patched(e).status = IF "status" \in e.fields THEN e.to.status ELSE appt[e.appt].status
      BY <3>1 DEF Patched, Row
    <3> QED
      BY <2>1, <3>2
  <2>3. Asks(e) /\ Allowed(e) /\ e.op # "remove" /\ e \in Edit
    BY <1>6 DEF WriteEdit, Judged, TypeOK
  <2>4. e.op \in {"update", "cancel"}
    BY <2>2, <2>3 DEF Asks, Edit
  <2>5. e.before.status # appt[a].status
    BY <2>2, <2>3, <2>4 DEF Allowed
  <2> QED
    BY <1>6, <2>1, <2>5, WriterEnds
<1>7. ASSUME NEW e \in edits, DeleteRow(e) PROVE FALSE
  BY <1>7, RemovedRow DEF StatusChanges
<1> QED
  BY <1>1, <1>2, <1>3, <1>4, <1>5, <1>6, <1>7, WhoWrites

\* A status leaves the table of transitions only by the write of a member who
\* had read another status; no write of a client ever does
\* (assertStatusChange; cancel_my_booking, reschedule_my_booking).
THEOREM StaleStatusOnly == Spec => OffTheTableOnlyIfStale
<1>1. TypeOK /\ Judged /\ [Next]_vars
      => [\A a \in Appts :
             StatusChanges(a) /\ ~OnTheTable(appt[a].status, appt'[a].status)
             => \E e \in Ended : e.appt = a /\ e.before.status # appt[a].status]_vars
  BY OffTheTableStep
<1> QED
  BY AlwaysJudged, <1>1, PTL DEF Spec, OffTheTableOnlyIfStale

\* A step that writes the table ends no request but the one that writes.
LEMMA OneEnds ==
    ASSUME [Next]_vars, appt' # appt, NEW e \in Ended
    PROVE  WriteEdit(e) \/ DeleteRow(e)
<1>1. e \in edits /\ e \notin edits'
  BY DEF Ended
<1>2. ASSUME NEW f \in edits, WriteEdit(f) \/ DeleteRow(f) PROVE e = f
  BY <1>1, <1>2 DEF WriteEdit, DeleteRow
<1>3. ASSUME \/ \E a \in Appts, s \in Services, p \in Places, t \in Starts :
                   CreatePublicBooking(a, s, p, t)
             \/ \E a \in Appts : CancelMyBooking(a)
             \/ \E a \in Appts, p \in Places, t \in Starts : RescheduleMyBooking(a, p, t)
             \/ \E d \in drafts, a \in Appts : InsertNew(d, a)
      PROVE  FALSE
  BY <1>1, <1>3 DEF CreatePublicBooking, CancelMyBooking, RescheduleMyBooking, InsertNew
<1> QED
  BY <1>2, <1>3, WhoWrites

LEMMA MovedStep ==
    ASSUME TypeOK, Judged, [Next]_vars, NEW a \in Appts, NEW e \in Ended, Live(a)',
           appt[a].status \in CorrectionSources, appt'[a].start # appt[a].start,
           e.appt = a, e.op = "move"
    PROVE  e.before.status # appt[a].status
<1>1. appt' # appt
  OBVIOUS
<1>2. WriteEdit(e)
  <2>1. ~DeleteRow(e)
    BY DEF DeleteRow
  <2> QED
    BY <1>1, <2>1, OneEnds
<1>3. Active(e.before)
  BY <1>2 DEF WriteEdit, Judged, Allowed, Ended
<1> QED
  BY <1>3 DEF Active, ActiveStatuses, CorrectionSources

\* A recorded outcome is moved only by a request that had read the row before
\* the outcome was recorded (moveAppointment).
THEOREM StaleMovesOnly == Spec => OutcomesMovedOnlyIfStale
<1>1. TypeOK /\ Judged /\ [Next]_vars
      => [\A a \in Appts : \A e \in Ended :
             /\ Live(a)' /\ appt[a].status \in CorrectionSources /\ appt'[a].start # appt[a].start
             /\ e.appt = a /\ e.op = "move"
             => e.before.status # appt[a].status]_vars
  BY MovedStep
<1> QED
  BY AlwaysJudged, <1>1, PTL DEF Spec, OutcomesMovedOnlyIfStale
=============================================================================
