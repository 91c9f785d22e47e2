------------------------- MODULE BookingTrailProofs -------------------------
(***************************************************************************)
(* Proofs about what is left behind an appointment, for any number of      *)
(* appointments, clients, rows that point at them and calls.  The argument *)
(* is that of the locks: while a client is being deleted no event that     *)
(* names the client is stored, so what was cleared is all there is (Seen); *)
(* while an appointment is being deleted nothing points at it and nothing  *)
(* is being written that will (Alone). The events of moves are counted:    *)
(* every change has an event with a key of its own (Dated, OneOfAKey), so  *)
(* each one moves the balance with the appointment, and forgetting a       *)
(* client replaces events one for one (MovesInv).                          *)
(***************************************************************************)
EXTENDS BookingTrail, FiniteSetTheorems, TLAPS

Seen == \A r \in Requests : call[r].pc = "erasing" => Naming(call[r].client) \subseteq call[r].cleared

Alone == \A r \in Requests :
            call[r].pc = "deleting" => ~Linked(call[r].appt) /\ ~ApptShared(call[r].appt)

\* What a call is at
Aims(k) ==
    /\ k.pc \in {"changing", "looked", "deleting"} => k.appt \in Appointments
    /\ k.pc = "adding" => k.link \in Entries
    /\ k.pc = "erasing" => k.client \in Clients
Aimed == \A r \in Requests : Aims(call[r])

IInv == TypeOK /\ NamesForgotten /\ Seen /\ Alone /\ Aimed

-----------------------------------------------------------------------------
(* Types *)

LEMMA SomeContentTyped == SomeContent \in Content
<1>1. (CHOOSE s \in Starts : TRUE) \in Starts
  BY TrailAssumption, Zenon
<1>2. (CHOOSE s \in Statuses : TRUE) \in Statuses
  BY TrailAssumption, Zenon
<1> QED
  BY <1>1, <1>2 DEF SomeContent, Content

LEMMA IdleTyped == Idle \in Call
BY SomeContentTyped DEF Idle, Call

LEMMA InitTyped == Init => TypeOK
<1> SUFFICES ASSUME Init PROVE TypeOK
  OBVIOUS
<1>1. appt \in [Appointments -> ApptRow]
  BY SomeContentTyped DEF Init, ApptRow
<1>2. invoice \in [Invoices -> InvoiceRow] /\ entry \in [Entries -> EntryRow]
  BY DEF Init, InvoiceRow, EntryRow
<1>3. tx \in 0 .. MaxTx
  BY TrailAssumption DEF Init
<1> QED
  BY <1>1, <1>2, <1>3, IdleTyped DEF Init, TypeOK

\* What the trigger stores of a change has the shape of an event.
LEMMA TellingTyped ==
    ASSUME TypeOK, tx < MaxTx, NEW a \in Appointments, NEW is \in Content,
           NEW code \in {"created", "rescheduled"} \cup Told, NEW old \in Starts \cup {None},
           (code = "rescheduled") <=> (old # None)
    PROVE  Telling(a, code, is, old) \in Event
<1>1. tx + 1 \in 0 .. MaxTx
  BY TrailAssumption DEF TypeOK
<1>2. /\ is.start \in Starts /\ is.status \in Statuses
      /\ Named(is) \in Clients \cup {None}
  BY DEF Content, Named
<1> QED
  BY <1>1, <1>2 DEF Telling, Event

LEMMA CodeTyped ==
    ASSUME NEW was \in Content, NEW is \in Content, Code(was, is) # ""
    PROVE  /\ Code(was, is) \in {"rescheduled"} \cup Told
           /\ OldStart(was, is) \in Starts \cup {None}
           /\ (Code(was, is) = "rescheduled") <=> (OldStart(was, is) # None)
<1>1. CASE was.start # is.start
  BY <1>1, TrailAssumption DEF Code, OldStart, Content
<1>2. CASE was.start = is.start
  BY <1>2 DEF Code, OldStart, Told
<1> QED
  BY <1>1, <1>2

LEMMA TellTyped ==
    ASSUME TypeOK, NEW e \in Event, Tell(e)
    PROVE  events' \in SUBSET Event
BY DEF Tell, TypeOK

\* Actions that only change what a call is at
LEMMA CallTyped ==
    ASSUME TypeOK, UNCHANGED <<rows, events, tx, missed>>,
           NEW r \in Requests, NEW new \in Call, call' = [call EXCEPT ![r] = new]
    PROVE  TypeOK'
BY DEF TypeOK, rows

LEMMA BeginTyped ==
    ASSUME TypeOK, NEW r \in Requests,
           \/ \E a \in Appointments : Change(r, a) \/ LookToDelete(r, a)
           \/ \E i \in Invoices : Invoice(r, i)
           \/ \E e \in Entries : LinkEntry(r, e)
           \/ \E c \in Clients : LockToErase(r, c)
           \/ LockToDelete(r) \/ Abandon(r)
    PROVE  TypeOK'
<1>1. ASSUME NEW a \in Appointments, Change(r, a)
      PROVE  TypeOK'
  <2>1. PICK is \in Content :
            call' = [call EXCEPT ![r] = [Idle EXCEPT !.pc = "changing", !.appt = a, !.to = is]]
    BY <1>1 DEF Change
  <2>2. [Idle EXCEPT !.pc = "changing", !.appt = a, !.to = is] \in Call
    BY IdleTyped DEF Call
  <2> QED
    BY <1>1, <2>1, <2>2, CallTyped DEF Change
<1>2. ASSUME NEW a \in Appointments, LookToDelete(r, a)
      PROVE  TypeOK'
  <2>1. [Idle EXCEPT !.pc = "looked", !.appt = a] \in Call
    BY IdleTyped DEF Call
  <2> QED
    BY <1>2, <2>1, CallTyped DEF LookToDelete
<1>3. ASSUME NEW i \in Invoices, Invoice(r, i)
      PROVE  TypeOK'
  <2>1. PICK a \in Appointments \cup {None}, c \in Clients \cup {None} :
            call' = [call EXCEPT ![r] = [Idle EXCEPT !.pc = "linking", !.appt = a,
                                                     !.link = i, !.client = c]]
    BY <1>3 DEF Invoice
  <2>2. [Idle EXCEPT !.pc = "linking", !.appt = a, !.link = i, !.client = c] \in Call
    BY IdleTyped DEF Call
  <2> QED
    BY <1>3, <2>1, <2>2, CallTyped DEF Invoice
<1>4. ASSUME NEW e \in Entries, LinkEntry(r, e)
      PROVE  TypeOK'
  <2>1. PICK a \in (Appointments \cup {None}) \ {entry[e].appt} :
            call' = [call EXCEPT ![r] = [Idle EXCEPT !.pc = "linking", !.appt = a, !.link = e]]
    BY <1>4 DEF LinkEntry
  <2>2. [Idle EXCEPT !.pc = "linking", !.appt = a, !.link = e] \in Call
    BY IdleTyped DEF Call
  <2> QED
    BY <1>4, <2>1, <2>2, CallTyped DEF LinkEntry
<1>5. ASSUME NEW c \in Clients, LockToErase(r, c)
      PROVE  TypeOK'
  <2>1. Naming(c) \in SUBSET Event
    BY DEF Naming, TypeOK
  <2>2. [Idle EXCEPT !.pc = "erasing", !.client = c, !.cleared = Naming(c)] \in Call
    BY <2>1, IdleTyped DEF Call
  <2> QED
    BY <1>5, <2>2, CallTyped DEF LockToErase
<1>6. CASE LockToDelete(r)
  <2>1. [call[r] EXCEPT !.pc = "deleting"] \in Call
    BY DEF TypeOK, Call
  <2>2. PICK new \in Call : call' = [call EXCEPT ![r] = new]
    BY <1>6, <2>1, IdleTyped DEF LockToDelete
  <2> QED
    BY <1>6, <2>2, CallTyped DEF LockToDelete
<1>7. CASE Abandon(r)
  BY <1>7, IdleTyped, CallTyped DEF Abandon
<1> QED
  BY <1>1, <1>2, <1>3, <1>4, <1>5, <1>6, <1>7

LEMMA BookTyped ==
    ASSUME TypeOK, NEW a \in Appointments, Book(a)
    PROVE  TypeOK'
<1>1. PICK is \in Content, ours \in BOOLEAN :
          /\ appt' = [appt EXCEPT ![a] = [is |-> "here", ours |-> ours, now |-> is]]
          /\ Tell(Telling(a, "created", is, None))
  BY DEF Book
<1>2. Telling(a, "created", is, None) \in Event
  BY TellingTyped DEF Book
<1>3. events' \in SUBSET Event
  BY <1>1, <1>2, TellTyped
<1>4. appt' \in [Appointments -> ApptRow]
  BY <1>1 DEF TypeOK, ApptRow
<1>5. tx' \in 0 .. MaxTx
  BY TrailAssumption DEF TypeOK, Book
<1> QED
  BY <1>3, <1>4, <1>5 DEF TypeOK, Book

LEMMA CommitChangeTyped ==
    ASSUME TypeOK, NEW r \in Requests, call[r].appt \in Appointments, CommitChange(r)
    PROVE  TypeOK'
<1> DEFINE a == call[r].appt
           is == call[r].to
           code == Code(appt[a].now, is)
           old == OldStart(appt[a].now, is)
<1>1. is \in Content /\ appt[a].now \in Content /\ a \in Appointments
  BY DEF TypeOK, Call, ApptRow
<1>2. appt' \in [Appointments -> ApptRow]
  <2>1. [appt[a] EXCEPT !.now = is] \in ApptRow
    BY <1>1 DEF TypeOK, ApptRow
  <2> QED
    BY <2>1 DEF TypeOK, CommitChange
<1>3. tx' \in 0 .. MaxTx
  <2>1. tx \in 0 .. MaxTx /\ tx < MaxTx /\ tx' = tx + 1
    BY DEF TypeOK, CommitChange
  <2> QED
    BY <2>1, TrailAssumption
<1>4. call' \in [Requests -> Call]
  BY IdleTyped DEF TypeOK, CommitChange
<1>5. events' \in SUBSET Event
  <2>1. CASE events' = events
    BY <2>1 DEF TypeOK
  <2>2. CASE code # "" /\ Tell(Telling(a, code, is, old))
    <3>1. Telling(a, code, is, old) \in Event
      BY <1>1, <2>2, CodeTyped, TellingTyped DEF CommitChange
    <3> QED
      BY <2>2, <3>1, TellTyped
  <2> QED
    BY <2>1, <2>2 DEF CommitChange
<1>6. missed' \in SUBSET Appointments
  BY <1>1 DEF TypeOK, CommitChange
<1> QED
  BY <1>2, <1>3, <1>4, <1>5, <1>6 DEF TypeOK, CommitChange

LEMMA LinkTyped ==
    ASSUME TypeOK, NEW r \in Requests, CommitLink(r)
    PROVE  TypeOK'
<1> DEFINE a == call[r].appt
           l == call[r].link
<1>1. a \in Appointments \cup {None} /\ call[r].client \in Clients \cup {None}
  BY DEF TypeOK, Call
<1>2. invoice' \in [Invoices -> InvoiceRow] /\ entry' \in [Entries -> EntryRow]
  <2>1. CASE l \in Invoices /\ UNCHANGED entry
             /\ invoice' = [invoice EXCEPT ![l] = [is |-> "open", appt |-> a,
                                                   client |-> call[r].client]]
    BY <1>1, <2>1 DEF TypeOK, InvoiceRow
  <2>2. CASE l \in Entries /\ entry' = [entry EXCEPT ![l].appt = a] /\ UNCHANGED invoice
    <3>1. [entry[l] EXCEPT !.appt = a] \in EntryRow
      BY <1>1, <2>2 DEF TypeOK, EntryRow
    <3> QED
      BY <2>2, <3>1 DEF TypeOK
  <2> QED
    BY <2>1, <2>2 DEF CommitLink
<1> QED
  BY <1>2, IdleTyped DEF TypeOK, CommitLink

LEMMA CancelTyped ==
    ASSUME TypeOK, NEW i \in Invoices, CancelInvoice(i)
    PROVE  TypeOK'
<1>1. [invoice[i] EXCEPT !.is = "void"] \in InvoiceRow
  BY DEF TypeOK, InvoiceRow
<1> QED
  BY <1>1 DEF TypeOK, CancelInvoice

LEMMA AddTyped ==
    ASSUME TypeOK, NEW r \in Requests, NEW e \in Entries, AddEntry(r, e)
    PROVE  TypeOK'
<1>1. PICK c \in Clients \cup {None} :
          /\ entry' = [entry EXCEPT ![e] = [is |-> "here", appt |-> None, client |-> c]]
          /\ call' = [call EXCEPT ![r] = [Idle EXCEPT !.pc = "adding", !.link = e, !.client = c]]
  BY DEF AddEntry
<1>2. [Idle EXCEPT !.pc = "adding", !.link = e, !.client = c] \in Call
  BY IdleTyped DEF Call
<1>3. [is |-> "here", appt |-> None, client |-> c] \in EntryRow
  BY DEF EntryRow
<1> QED
  BY <1>1, <1>2, <1>3 DEF TypeOK, AddEntry

LEMMA TellEntryTyped ==
    ASSUME TypeOK, NEW r \in Requests, call[r].link \in Entries, TellEntry(r)
    PROVE  TypeOK'
<1> DEFINE e == [about |-> call[r].link, code |-> "added", start |-> None, old |-> None,
                 status |-> "waiting", names |-> call[r].client, tx |-> 0]
<1>1. e \in Event
  <2>1. call[r].client \in Clients \cup {None}
    BY DEF TypeOK, Call
  <2>2. 0 \in 0 .. MaxTx
    BY TrailAssumption
  <2> QED
    BY <2>1, <2>2 DEF Event
<1>2. events' \in SUBSET Event
  <2>1. CASE Tell(e)
    BY <1>1, <2>1, TellTyped
  <2>2. CASE UNCHANGED events
    BY <2>2 DEF TypeOK
  <2> QED
    BY <2>1, <2>2 DEF TellEntry
<1> QED
  BY <1>2, IdleTyped DEF TypeOK, TellEntry, rows

LEMMA DeleteTyped ==
    ASSUME TypeOK, NEW r \in Requests, Delete(r)
    PROVE  TypeOK'
<1> DEFINE a == call[r].appt
<1>1. appt' \in [Appointments -> ApptRow]
  <2>1. CASE a \in Appointments
    <3>1. [appt[a] EXCEPT !.is = "deleted"] \in ApptRow
      BY <2>1 DEF TypeOK, ApptRow
    <3> QED
      BY <2>1, <3>1 DEF TypeOK, Delete
  <2>2. CASE a \notin Appointments
    BY <2>2 DEF TypeOK, Delete
  <2> QED
    BY <2>1, <2>2
<1>2. invoice' \in [Invoices -> InvoiceRow]
  BY DEF TypeOK, Delete, InvoiceRow
<1>3. entry' \in [Entries -> EntryRow]
  BY DEF TypeOK, Delete, EntryRow
<1> QED
  BY <1>1, <1>2, <1>3, IdleTyped DEF TypeOK, Delete

LEMMA EraseTyped ==
    ASSUME TypeOK, NEW r \in Requests, Erase(r)
    PROVE  TypeOK'
<1> DEFINE c == call[r].client
<1>1. appt' \in [Appointments -> ApptRow]
  <2>1. ASSUME NEW a \in Appointments
        PROVE  [appt[a] EXCEPT !.now.client = None] \in ApptRow
    <3>1. [appt[a].now EXCEPT !.client = None] \in Content
      BY DEF TypeOK, ApptRow, Content
    <3> QED
      BY <3>1 DEF TypeOK, ApptRow
  <2> QED
    BY <2>1 DEF TypeOK, Erase, ApptsWithout
<1>2. invoice' \in [Invoices -> InvoiceRow]
  BY DEF TypeOK, Erase, InvoicesWithout, InvoiceRow
<1>3. entry' \in [Entries -> EntryRow]
  BY DEF TypeOK, Erase, EntriesWithout, EntryRow
<1>4. events' \in SUBSET Event
  <2>1. ASSUME NEW e \in Event PROVE [e EXCEPT !.names = None] \in Event
    BY DEF Event
  <2> QED
    BY <2>1 DEF TypeOK, Erase, Forgotten
<1>5. clients' \in SUBSET Clients
  BY DEF TypeOK, Erase
<1> QED
  BY <1>1, <1>2, <1>3, <1>4, <1>5, IdleTyped DEF TypeOK, Erase
-----------------------------------------------------------------------------
(* Steps *)

LEMMA StepTyped ==
    ASSUME TypeOK, Aimed, Next
    PROVE  TypeOK'
<1>1. ASSUME NEW r \in Requests, CommitChange(r) PROVE TypeOK'
  BY <1>1, CommitChangeTyped DEF Aimed, Aims, CommitChange
<1>2. ASSUME NEW r \in Requests, TellEntry(r) PROVE TypeOK'
  BY <1>2, TellEntryTyped DEF Aimed, Aims, TellEntry
<1>3. ASSUME NEW r \in Requests,
             \/ \E a \in Appointments : Change(r, a) \/ LookToDelete(r, a)
             \/ \E i \in Invoices : Invoice(r, i)
             \/ \E e \in Entries : LinkEntry(r, e)
             \/ \E c \in Clients : LockToErase(r, c)
             \/ LockToDelete(r) \/ Abandon(r)
      PROVE  TypeOK'
  BY <1>3, BeginTyped
<1>4. ASSUME NEW r \in Requests, CommitLink(r) PROVE TypeOK'
  BY <1>4, LinkTyped
<1>5. ASSUME NEW r \in Requests, NEW e \in Entries, AddEntry(r, e) PROVE TypeOK'
  BY <1>5, AddTyped
<1>6. ASSUME NEW r \in Requests, Delete(r) \/ Erase(r) PROVE TypeOK'
  BY <1>6, DeleteTyped, EraseTyped
<1>7. ASSUME NEW a \in Appointments, Book(a) PROVE TypeOK'
  BY <1>7, BookTyped
<1>8. ASSUME NEW i \in Invoices, CancelInvoice(i) PROVE TypeOK'
  BY <1>8, CancelTyped
<1> QED
  BY <1>1, <1>2, <1>3, <1>4, <1>5, <1>6, <1>7, <1>8 DEF Next

\* What a call may become: what it was, idle, or the next stage of what it does
Becomes(r, new) ==
    /\ Aims(new)
    /\ new.pc = "changing" => appt[new.appt].is = "here"
    /\ new.pc = "erasing" => new.cleared = Naming(new.client) /\ events' = events
    /\ new.pc = "linking" => MayPoint(new.appt)
    /\ new.pc = "deleting" => ~Linked(new.appt) /\ ~ApptShared(new.appt) /\ UNCHANGED rows

OneCall == \E r \in Requests, new \in Call : call' = [call EXCEPT ![r] = new] /\ Becomes(r, new)

LEMMA BecomesIdle ==
    ASSUME NEW r \in Requests, call' = [call EXCEPT ![r] = Idle]
    PROVE  OneCall
<1>1. Becomes(r, Idle)
  BY DEF Becomes, Idle, Aims
<1> QED
  BY <1>1, IdleTyped DEF OneCall

LEMMA StepCalls ==
    ASSUME TypeOK, Aimed, Next
    PROVE  call' = call \/ OneCall
<1>1. ASSUME NEW r \in Requests, NEW a \in Appointments, Change(r, a)
      PROVE  OneCall
  <2>1. PICK is \in Content :
            call' = [call EXCEPT ![r] = [Idle EXCEPT !.pc = "changing", !.appt = a, !.to = is]]
    BY <1>1 DEF Change
  <2> DEFINE new == [Idle EXCEPT !.pc = "changing", !.appt = a, !.to = is]
  <2>2. new \in Call /\ new.pc = "changing" /\ new.appt = a
    BY IdleTyped DEF Call, Idle
  <2>3. Becomes(r, new)
    BY <1>1, <2>2 DEF Becomes, Aims, Change
  <2> QED
    BY <2>1, <2>2, <2>3 DEF OneCall
<1>2. ASSUME NEW r \in Requests, NEW e \in Entries, AddEntry(r, e)
      PROVE  OneCall
  <2>1. PICK c \in Clients \cup {None} :
            call' = [call EXCEPT ![r] = [Idle EXCEPT !.pc = "adding", !.link = e, !.client = c]]
    BY <1>2 DEF AddEntry
  <2> DEFINE new == [Idle EXCEPT !.pc = "adding", !.link = e, !.client = c]
  <2>2. new \in Call /\ new.pc = "adding" /\ new.link = e
    BY IdleTyped DEF Call, Idle
  <2>3. Becomes(r, new)
    BY <2>2 DEF Becomes, Aims
  <2> QED
    BY <2>1, <2>2, <2>3 DEF OneCall
<1>3. ASSUME NEW r \in Requests, NEW a \in Appointments, LookToDelete(r, a)
      PROVE  OneCall
  <2> DEFINE new == [Idle EXCEPT !.pc = "looked", !.appt = a]
  <2>1. new \in Call /\ new.pc = "looked" /\ new.appt = a
    BY IdleTyped DEF Call, Idle
  <2>2. Becomes(r, new)
    BY <2>1 DEF Becomes, Aims
  <2> QED
    BY <1>3, <2>1, <2>2 DEF OneCall, LookToDelete
<1>4. ASSUME NEW r \in Requests, LockToDelete(r)
      PROVE  OneCall
  <2> DEFINE new == [call[r] EXCEPT !.pc = "deleting"]
  <2>1. CASE MayVanish(call[r].appt) /\ call' = [call EXCEPT ![r] = new]
    <3>1. /\ new \in Call /\ new.pc = "deleting"
          /\ new.appt = call[r].appt /\ new.appt \in Appointments
      BY <1>4 DEF TypeOK, Call, Aimed, Aims, LockToDelete
    <3>2. Becomes(r, new)
      BY <1>4, <2>1, <3>1 DEF Becomes, Aims, LockToDelete, MayVanish
    <3> QED
      BY <2>1, <3>1, <3>2 DEF OneCall
  <2>2. CASE call' = [call EXCEPT ![r] = Idle]
    BY <2>2, BecomesIdle
  <2> QED
    BY <1>4, <2>1, <2>2 DEF LockToDelete
<1>5. ASSUME NEW r \in Requests, NEW i \in Invoices, Invoice(r, i)
      PROVE  OneCall
  <2>1. PICK a \in Appointments \cup {None}, c \in Clients \cup {None} :
            /\ MayPoint(a)
            /\ call' = [call EXCEPT ![r] = [Idle EXCEPT !.pc = "linking", !.appt = a,
                                                        !.link = i, !.client = c]]
    BY <1>5 DEF Invoice
  <2> DEFINE new == [Idle EXCEPT !.pc = "linking", !.appt = a, !.link = i, !.client = c]
  <2>2. new \in Call /\ new.pc = "linking" /\ new.appt = a
    BY IdleTyped DEF Call, Idle
  <2>3. Becomes(r, new)
    BY <2>1, <2>2 DEF Becomes, Aims
  <2> QED
    BY <2>1, <2>2, <2>3 DEF OneCall
<1>6. ASSUME NEW r \in Requests, NEW e \in Entries, LinkEntry(r, e)
      PROVE  OneCall
  <2>1. PICK a \in (Appointments \cup {None}) \ {entry[e].appt} :
            /\ MayPoint(a)
            /\ call' = [call EXCEPT ![r] = [Idle EXCEPT !.pc = "linking", !.appt = a, !.link = e]]
    BY <1>6 DEF LinkEntry
  <2> DEFINE new == [Idle EXCEPT !.pc = "linking", !.appt = a, !.link = e]
  <2>2. new \in Call /\ new.pc = "linking" /\ new.appt = a
    BY IdleTyped DEF Call, Idle
  <2>3. Becomes(r, new)
    BY <2>1, <2>2 DEF Becomes, Aims
  <2> QED
    BY <2>1, <2>2, <2>3 DEF OneCall
<1>7. ASSUME NEW r \in Requests, NEW c \in Clients, LockToErase(r, c)
      PROVE  OneCall
  <2> DEFINE new == [Idle EXCEPT !.pc = "erasing", !.client = c, !.cleared = Naming(c)]
  <2>1. Naming(c) \in SUBSET Event
    BY DEF Naming, TypeOK
  <2>2. /\ new \in Call /\ new.pc = "erasing"
        /\ new.client = c /\ new.cleared = Naming(c)
    BY <2>1, IdleTyped DEF Call, Idle
  <2>3. Becomes(r, new)
    BY <1>7, <2>2 DEF Becomes, Aims, LockToErase
  <2> QED
    BY <1>7, <2>2, <2>3 DEF OneCall, LockToErase
<1>8. ASSUME NEW r \in Requests, CommitChange(r) \/ CommitLink(r) \/ TellEntry(r)
                                 \/ Delete(r) \/ Erase(r) \/ Abandon(r)
      PROVE  OneCall
  BY <1>8, BecomesIdle DEF CommitChange, CommitLink, TellEntry, Delete, Erase, Abandon
<1>9. ASSUME NEW a \in Appointments, Book(a) PROVE call' = call
  BY <1>9 DEF Book
<1>10. ASSUME NEW i \in Invoices, CancelInvoice(i) PROVE call' = call
  BY <1>10 DEF CancelInvoice
<1> QED
  BY <1>1, <1>2, <1>3, <1>4, <1>5, <1>6, <1>7, <1>8, <1>9, <1>10 DEF Next

\* The same, seen from one call
LEMMA CallBecomes ==
    ASSUME TypeOK, Aimed, Next, NEW r \in Requests
    PROVE  \/ call'[r] = call[r]
           \/ Becomes(r, call'[r]) /\ \A q \in Requests \ {r} : call'[q] = call[q]
BY StepCalls DEF OneCall, TypeOK

LEMMA StepAims ==
    ASSUME TypeOK, Aimed, Next
    PROVE  Aimed'
BY CallBecomes DEF Aimed, Becomes, Aims

-----------------------------------------------------------------------------
(* Names *)

\* A step that does not delete a client stores an event only for a client
\* that may be named.
Adds == events' = events \/ \E e \in Event : events' = events \cup {e} /\ MayName(e.names)

LEMMA TellAdds ==
    ASSUME NEW e \in Event, Tell(e), MayName(e.names)
    PROVE  Adds
BY DEF Tell, Adds

LEMMA StepAdds ==
    ASSUME TypeOK, Aimed, Next, \A r \in Requests : ~Erase(r)
    PROVE  Adds /\ clients' = clients
<1>1. ASSUME NEW a \in Appointments, Book(a)
      PROVE  Adds /\ clients' = clients
  <2>1. PICK is \in Content : MayName(is.client) /\ Tell(Telling(a, "created", is, None))
    BY <1>1 DEF Book
  <2>2. Telling(a, "created", is, None) \in Event
    BY <1>1, TellingTyped DEF Book
  <2>3. MayName(Telling(a, "created", is, None).names)
    BY <2>1 DEF Telling, Named, MayName
  <2> QED
    BY <1>1, <2>1, <2>2, <2>3, TellAdds DEF Book
<1>2. ASSUME NEW r \in Requests, CommitChange(r)
      PROVE  Adds /\ clients' = clients
  <2> DEFINE a == call[r].appt
             is == call[r].to
             code == Code(appt[a].now, is)
             old == OldStart(appt[a].now, is)
  <2>1. is \in Content /\ a \in Appointments /\ appt[a].now \in Content
    BY <1>2 DEF TypeOK, Call, ApptRow, Aimed, Aims, CommitChange
  <2>2. CASE code # "" /\ MayName(Named(is)) /\ Tell(Telling(a, code, is, old))
    <3>1. Telling(a, code, is, old) \in Event
      BY <1>2, <2>1, <2>2, CodeTyped, TellingTyped DEF CommitChange
    <3>2. MayName(Telling(a, code, is, old).names)
      BY <2>2 DEF Telling
    <3> QED
      BY <1>2, <2>2, <3>1, <3>2, TellAdds DEF CommitChange
  <2>3. CASE events' = events
    BY <1>2, <2>3 DEF Adds, CommitChange
  <2> QED
    BY <1>2, <2>2, <2>3 DEF CommitChange
<1>3. ASSUME NEW r \in Requests, TellEntry(r)
      PROVE  Adds /\ clients' = clients
  <2> DEFINE e == [about |-> call[r].link, code |-> "added", start |-> None, old |-> None,
                   status |-> "waiting", names |-> call[r].client, tx |-> 0]
  <2>1. CASE MayName(call[r].client) /\ Tell(e)
    <3>1. e \in Event
      <4>1. call[r].client \in Clients \cup {None} /\ call[r].link \in Entries
        BY <1>3 DEF TypeOK, Call, Aimed, Aims, TellEntry
      <4>2. 0 \in 0 .. MaxTx
        BY TrailAssumption
      <4> QED
        BY <4>1, <4>2 DEF Event
    <3> QED
      BY <1>3, <2>1, <3>1, TellAdds DEF TellEntry, rows
  <2>2. CASE events' = events
    BY <1>3, <2>2 DEF Adds, TellEntry, rows
  <2> QED
    BY <1>3, <2>1, <2>2 DEF TellEntry
<1>4. ASSUME NEW r \in Requests,
             \/ \E a \in Appointments : Change(r, a) \/ LookToDelete(r, a)
             \/ \E i \in Invoices : Invoice(r, i)
             \/ \E e \in Entries : AddEntry(r, e) \/ LinkEntry(r, e)
             \/ \E c \in Clients : LockToErase(r, c)
             \/ CommitLink(r) \/ LockToDelete(r) \/ Delete(r) \/ Abandon(r)
      PROVE  Adds /\ clients' = clients
  BY <1>4 DEF Adds, rows, Change, LookToDelete, Invoice, AddEntry, LinkEntry, LockToErase,
              CommitLink, LockToDelete, Delete, Abandon
<1>5. ASSUME NEW i \in Invoices, CancelInvoice(i)
      PROVE  Adds /\ clients' = clients
  BY <1>5 DEF Adds, CancelInvoice
<1> QED
  BY <1>1, <1>2, <1>3, <1>4, <1>5 DEF Next
LEMMA StepNames ==
    ASSUME TypeOK, NamesForgotten, Seen, Aimed, Next
    PROVE  NamesForgotten' /\ Seen'
<1>1. ASSUME NEW r \in Requests, Erase(r)
      PROVE  NamesForgotten'
  <2> DEFINE c == call[r].client
  <2>1. events' = Forgotten(call[r].cleared) /\ clients' = clients \ {c}
        /\ Naming(c) \subseteq call[r].cleared
    BY <1>1 DEF Erase, Seen
  <2>2. ASSUME NEW e \in events' PROVE e.names \in (clients \ {c}) \cup {None}
    <3>1. CASE e \in events \ call[r].cleared
      BY <2>1, <3>1 DEF NamesForgotten, Naming
    <3>2. ASSUME NEW f \in events, e = [f EXCEPT !.names = None]
          PROVE  e.names = None
      BY <3>2 DEF TypeOK, Event
    <3> QED
      BY <2>1, <3>1, <3>2 DEF Forgotten
  <2> QED
    BY <2>1, <2>2 DEF NamesForgotten
<1>2. ASSUME NEW r \in Requests, Erase(r), NEW q \in Requests, call'[q].pc = "erasing"
      PROVE  \A e \in events' : e.names = call'[q].client => e \in call'[q].cleared
  <2>1. q # r /\ call'[q] = call[q] /\ call[q].client \in Clients
    BY <1>2 DEF Erase, TypeOK, Idle, Aimed, Aims
  <2>2. ASSUME NEW e \in events', e.names = call[q].client
        PROVE  e \in call[q].cleared
    <3>1. e.names # None
      BY <2>1, <2>2, TrailAssumption
    <3>2. ASSUME NEW f \in events, e = [f EXCEPT !.names = None]
          PROVE  e.names = None
      BY <3>2 DEF TypeOK, Event
    <3>3. e \in events
      BY <1>2, <3>1, <3>2 DEF Erase, Forgotten
    <3> QED
      BY <1>2, <2>1, <2>2, <3>3 DEF Seen, Naming
  <2> QED
    BY <2>1, <2>2
<1>3. ASSUME \A r \in Requests : ~Erase(r)
      PROVE  NamesForgotten'
  <2>1. Adds /\ clients' = clients
    BY <1>3, StepAdds
  <2> QED
    BY <2>1 DEF Adds, NamesForgotten, MayName
<1>4. ASSUME \A r \in Requests : ~Erase(r), NEW q \in Requests, call'[q].pc = "erasing"
      PROVE  \A e \in events' : e.names = call'[q].client => e \in call'[q].cleared
  <2>1. CASE call'[q] = call[q]
    <3>1. Naming(call[q].client) \subseteq call[q].cleared /\ call[q].client \in Clients
      BY <1>4, <2>1 DEF Seen, Aimed, Aims
    <3>2. ASSUME NEW e \in events', e.names = call[q].client
          PROVE  e \in events
      <4>1. ClientLocked(e.names) /\ e.names # None
        BY <1>4, <2>1, <3>1, <3>2, TrailAssumption DEF ClientLocked
      <4> QED
        BY <1>4, <4>1, StepAdds DEF Adds, MayName
    <3> QED
      BY <2>1, <3>1, <3>2 DEF Naming
  <2>2. CASE Becomes(q, call'[q])
    BY <1>4, <2>2 DEF Becomes, Naming
  <2> QED
    BY <2>1, <2>2, CallBecomes
<1>5. ASSUME NEW q \in Requests, call'[q].pc = "erasing"
      PROVE  \A e \in events' : e.names = call'[q].client => e \in call'[q].cleared
  BY <1>2, <1>4, <1>5
<1>6. Seen'
  BY <1>5 DEF Seen, Naming
<1> QED
  BY <1>1, <1>3, <1>6

-----------------------------------------------------------------------------
(* Links *)

\* A row comes to point at an appointment by a link that was being written.
LEMMA StepLinks ==
    ASSUME TypeOK, Next, NEW a \in Appointments, Linked(a)'
    PROVE  Linked(a) \/ ApptShared(a)
<1>0. a # None
  BY TrailAssumption
<1>1. CASE UNCHANGED <<invoice, entry>>
  BY <1>1 DEF Linked
<1>2. ASSUME NEW r \in Requests, CommitLink(r)
      PROVE  Linked(a) \/ ApptShared(a)
  <2>1. CASE call[r].appt = a
    BY <1>2, <2>1 DEF CommitLink, ApptShared
  <2>2. CASE call[r].appt # a
    <3>1. ASSUME NEW i \in Invoices, invoice'[i].appt = a PROVE invoice[i].appt = a
      BY <1>2, <2>2, <3>1 DEF CommitLink, TypeOK
    <3>2. ASSUME NEW e \in Entries, entry'[e].appt = a PROVE entry[e].appt = a
      BY <1>2, <2>2, <3>2 DEF CommitLink, TypeOK, EntryRow
    <3> QED
      BY <3>1, <3>2 DEF Linked
  <2> QED
    BY <2>1, <2>2
<1>3. ASSUME NEW i \in Invoices, CancelInvoice(i)
      PROVE  Linked(a)
  <2>1. ASSUME NEW j \in Invoices PROVE invoice'[j].appt = invoice[j].appt
    BY <1>3 DEF CancelInvoice, TypeOK, InvoiceRow
  <2> QED
    BY <1>3, <2>1 DEF Linked, CancelInvoice
<1>4. ASSUME NEW r \in Requests, NEW e \in Entries, AddEntry(r, e)
      PROVE  Linked(a)
  <2>1. ASSUME NEW f \in Entries, entry'[f].appt = a PROVE entry[f].appt = a
    BY <1>0, <1>4, <2>1 DEF AddEntry, TypeOK
  <2> QED
    BY <1>4, <2>1 DEF Linked, AddEntry
<1>5. ASSUME NEW r \in Requests, Delete(r) \/ Erase(r)
      PROVE  Linked(a)
  <2>1. ASSUME NEW i \in Invoices, invoice'[i].appt = a PROVE invoice[i].appt = a
    BY <1>0, <1>5, <2>1 DEF Delete, Erase, InvoicesWithout, TypeOK, InvoiceRow
  <2>2. ASSUME NEW e \in Entries, entry'[e].appt = a PROVE entry[e].appt = a
    BY <1>0, <1>5, <2>2 DEF Delete, Erase, EntriesWithout, TypeOK, EntryRow
  <2> QED
    BY <2>1, <2>2 DEF Linked
<1>6. ASSUME NEW b \in Appointments, Book(b) PROVE UNCHANGED <<invoice, entry>>
  BY <1>6 DEF Book
<1>7. ASSUME NEW r \in Requests,
             \/ \E b \in Appointments : Change(r, b) \/ LookToDelete(r, b)
             \/ \E i \in Invoices : Invoice(r, i)
             \/ \E e \in Entries : LinkEntry(r, e)
             \/ \E c \in Clients : LockToErase(r, c)
             \/ CommitChange(r) \/ TellEntry(r) \/ LockToDelete(r) \/ Abandon(r)
      PROVE  UNCHANGED <<invoice, entry>>
  BY <1>7 DEF rows, Change, LookToDelete, Invoice, LinkEntry, LockToErase,
              CommitChange, TellEntry, LockToDelete, Abandon
<1> QED
  BY <1>1, <1>2, <1>3, <1>4, <1>5, <1>6, <1>7 DEF Next

LEMMA StepAlone ==
    ASSUME TypeOK, Alone, Aimed, Next
    PROVE  Alone'
<1> SUFFICES ASSUME NEW r \in Requests, call'[r].pc = "deleting",
                    NEW a \in Appointments, a = call'[r].appt
             PROVE  ~Linked(a)' /\ ~ApptShared(a)'
  <2>1. \A r \in Requests : call'[r].pc = "deleting" => call'[r].appt \in Appointments
    BY StepAims DEF Aimed, Aims
  <2> QED
    BY <2>1 DEF Alone, Linked, ApptShared
<1>1. CASE call'[r] = call[r]
  <2>1. ~Linked(a) /\ ~ApptShared(a)
    BY <1>1 DEF Alone
  <2>2. ~Linked(a)'
    BY <2>1, StepLinks
  <2>3. ASSUME NEW q \in Requests, call'[q].pc = "linking", call'[q].appt = a
        PROVE  FALSE
    <3>1. CASE call'[q] = call[q]
      BY <2>1, <2>3, <3>1 DEF ApptShared
    <3>2. CASE Becomes(q, call'[q])
      <4>1. MayPoint(a) /\ a # None
        BY <2>3, <3>2, TrailAssumption DEF Becomes
      <4> QED
        BY <1>1, <4>1 DEF MayPoint
    <3> QED
      BY <3>1, <3>2, CallBecomes
  <2> QED
    BY <2>2, <2>3 DEF ApptShared
<1>2. CASE Becomes(r, call'[r]) /\ \A q \in Requests \ {r} : call'[q] = call[q]
  <2>1. ~Linked(a) /\ ~ApptShared(a) /\ UNCHANGED rows
    BY <1>2 DEF Becomes
  <2>2. ~Linked(a)'
    BY <2>1 DEF Linked, rows
  <2>3. ~ApptShared(a)'
    BY <1>2, <2>1 DEF ApptShared
  <2> QED
    BY <2>2, <2>3
<1> QED
  BY <1>1, <1>2, CallBecomes

-----------------------------------------------------------------------------
(* Moves *)

\* What the Inbox tells of the times of an appointment
Moves(a) == {e \in events : e.about = a /\ e.code \in {"created", "rescheduled"}}
Arrivals(a, s) == {e \in Moves(a) : e.start = s}
Departures(a, s) == {e \in Moves(a) : e.old = s}

Balanced(a) ==
    \A s \in Starts :
        Cardinality(Arrivals(a, s))
          = Cardinality(Departures(a, s)) + (IF appt[a].now.start = s THEN 1 ELSE 0)

\* Events tell of transactions that ended, and no two have the same key, so
\* the event of a new transaction is never dropped.
Dated == \A e \in events : e.tx <= tx
OneOfAKey == \A e, f \in events : Key(e) = Key(f) => e = f

\* Nothing is told of an appointment, and nothing changes it, before it is made.
Untold == \A a \in Appointments : appt[a].is = "unmade" => Moves(a) = {}
Made == \A r \in Requests : call[r].pc = "changing" => appt[call[r].appt].is # "unmade"

MovesInv == IsFiniteSet(events) /\ Dated /\ OneOfAKey /\ Untold /\ MovesAddUp

LEMMA AddUpIsBalanced ==
    MovesAddUp <=> \A a \in Appointments : appt[a].is = "here" /\ a \notin missed => Balanced(a)
BY DEF MovesAddUp, Balanced, Arrivals, Departures, Moves

\* Two events have the same key only if both are of the waiting list.
LEMMA KeyOfAnother ==
    ASSUME TypeOK, Dated, NEW e \in Event, e.tx > tx \/ e.code = "added", NEW f \in events, Key(f) = Key(e)
    PROVE  e.code = "added" /\ f.code = "added"
<1>1. f \in Event /\ e.tx \in Int /\ f.tx \in Int /\ f.tx <= tx
  BY TrailAssumption DEF TypeOK, Event, Dated
<1>2. ASSUME NEW x, NEW y, NEW z, NEW w PROVE <<x>> # <<y, z, w>>
  OBVIOUS
<1>3. ASSUME e.code # "added" PROVE FALSE
  <2>1. Key(e) = <<e.about, e.code, e.tx>>
    BY <1>3 DEF Key
  <2>2. f.code # "added"
    BY <1>2, <2>1 DEF Key
  <2>3. e.tx = f.tx
    BY <2>1, <2>2 DEF Key
  <2> QED BY <1>1, <1>3, <2>3, TrailAssumption DEF TypeOK
<1>4. ASSUME e.code = "added", f.code # "added" PROVE FALSE
  BY <1>2, <1>4 DEF Key
<1> QED BY <1>3, <1>4

\* An event that was not there is counted once.
LEMMA OneMore ==
    ASSUME IsFiniteSet(events), NEW e, e \notin events, events' = events \cup {e},
           NEW a, NEW s
    PROVE  LET counts == e.about = a /\ e.code \in {"created", "rescheduled"}
           IN  /\ Cardinality(Arrivals(a, s)) \in Nat
               /\ Cardinality(Departures(a, s)) \in Nat
               /\ Cardinality(Arrivals(a, s)') = Cardinality(Arrivals(a, s))
                     + (IF counts /\ e.start = s THEN 1 ELSE 0)
               /\ Cardinality(Departures(a, s)') = Cardinality(Departures(a, s))
                     + (IF counts /\ e.old = s THEN 1 ELSE 0)
<1> DEFINE counts == e.about = a /\ e.code \in {"created", "rescheduled"}
<1>1. Arrivals(a, s) \in SUBSET events /\ Departures(a, s) \in SUBSET events
  BY DEF Arrivals, Departures, Moves
<1>2. IsFiniteSet(Arrivals(a, s)) /\ IsFiniteSet(Departures(a, s))
  BY <1>1, FS_Subset
<1>3. /\ Arrivals(a, s)' = IF counts /\ e.start = s THEN Arrivals(a, s) \cup {e} ELSE Arrivals(a, s)
      /\ Departures(a, s)' = IF counts /\ e.old = s THEN Departures(a, s) \cup {e} ELSE Departures(a, s)
  BY DEF Arrivals, Departures, Moves
<1>4. /\ Cardinality(Arrivals(a, s)) \in Nat /\ Cardinality(Departures(a, s)) \in Nat
      /\ Cardinality(Arrivals(a, s) \cup {e}) = Cardinality(Arrivals(a, s)) + 1
      /\ Cardinality(Departures(a, s) \cup {e}) = Cardinality(Departures(a, s)) + 1
  BY <1>1, <1>2, FS_AddElement, FS_CardinalityType
<1> HIDE DEF counts
<1>5. /\ Cardinality(Arrivals(a, s)') = Cardinality(Arrivals(a, s))
            + (IF counts /\ e.start = s THEN 1 ELSE 0)
      /\ Cardinality(Departures(a, s)') = Cardinality(Departures(a, s))
            + (IF counts /\ e.old = s THEN 1 ELSE 0)
  BY <1>3, <1>4
<1> QED BY <1>4, <1>5 DEF counts

\* The event of a new transaction is stored.
LEMMA TellFresh ==
    ASSUME TypeOK, IsFiniteSet(events), Dated, OneOfAKey,
           NEW e \in Event, e.tx > tx \/ e.code = "added", Tell(e), tx' >= tx, tx' >= e.tx, tx' \in Nat
    PROVE  /\ \/ events' = events /\ e.code = "added"
              \/ events' = events \cup {e} /\ e \notin events
           /\ IsFiniteSet(events') /\ Dated' /\ OneOfAKey'
<1>0. /\ \A f \in events : f.tx \in Int /\ f.tx <= tx
      /\ e.tx \in Int /\ tx \in Int
  BY TrailAssumption DEF TypeOK, Event, Dated
<1>1. CASE \E f \in events : Key(f) = Key(e)
  <2>1. events' = events
    BY <1>1 DEF Tell
  <2>2. e.code = "added"
    BY <1>1, KeyOfAnother
  <2>3. Dated' /\ OneOfAKey'
    BY <1>0, <2>1 DEF Dated, OneOfAKey, Key
  <2> QED BY <2>1, <2>2, <2>3
<1>2. CASE ~\E f \in events : Key(f) = Key(e)
  <2>1. events' = events \cup {e} /\ e \notin events
    BY <1>2 DEF Tell
  <2>2. IsFiniteSet(events')
    BY <2>1, FS_AddElement
  <2>3. Dated'
    BY <1>0, <2>1 DEF Dated
  <2>4. OneOfAKey'
    <3> SUFFICES ASSUME NEW f \in events', NEW g \in events', Key(f) = Key(g)
                 PROVE  f = g
      BY DEF OneOfAKey, Key
    <3> QED BY <1>2, <2>1 DEF OneOfAKey
  <2> QED BY <2>1, <2>2, <2>3, <2>4
<1> QED BY <1>1, <1>2

\* No event is stored, and no appointment moves but those that missed one.
LEMMA Quiet ==
    ASSUME TypeOK, MovesInv, events' = events, tx' >= tx, tx' \in Nat, missed \subseteq missed',
           \A b \in Appointments :
              /\ appt'[b].is = "unmade" => appt[b].is = "unmade"
              /\ appt'[b].is = "here" /\ b \notin missed' =>
                    appt[b].is = "here" /\ appt'[b].now.start = appt[b].now.start
    PROVE  MovesInv'
<1>1. \A b, s : /\ Moves(b)' = Moves(b) /\ Arrivals(b, s)' = Arrivals(b, s)
                /\ Departures(b, s)' = Departures(b, s)
  BY DEF Moves, Arrivals, Departures
<1>2. Dated'
  <2>1. \A f \in events : f.tx \in Int /\ f.tx <= tx
    BY TrailAssumption DEF TypeOK, Event, MovesInv, Dated
  <2>2. tx \in Int
    BY TrailAssumption DEF TypeOK
  <2> QED BY <2>1, <2>2 DEF Dated
<1>3. OneOfAKey' /\ IsFiniteSet(events') /\ Untold'
  BY <1>1 DEF MovesInv, OneOfAKey, Key, Untold
<1>4. ASSUME NEW b \in Appointments, appt'[b].is = "here", b \notin missed'
      PROVE  Balanced(b)'
  <2>1. Balanced(b) /\ appt'[b].now.start = appt[b].now.start
    BY <1>4, AddUpIsBalanced DEF MovesInv
  <2> QED BY <1>1, <2>1 DEF Balanced
<1>5. MovesAddUp'
  BY <1>4 DEF MovesAddUp, Balanced, Arrivals, Departures, Moves
<1> QED BY <1>2, <1>3, <1>5 DEF MovesInv

\* An event is stored: it tells of a move from where the appointment was to
\* where it is, or of no move.
LEMMA Loud ==
    ASSUME TypeOK, MovesInv, NEW e \in Event, Tell(e), e.tx > tx \/ e.code = "added",
           e.code # "created",
           tx' >= tx, tx' >= e.tx, tx' \in Nat, missed' = missed,
           \A b \in Appointments :
              /\ appt'[b].is = appt[b].is
              /\ e.about = b => appt[b].is # "unmade"
              /\ IF e.about = b /\ e.code = "rescheduled"
                 THEN e.old = appt[b].now.start /\ e.start = appt'[b].now.start
                 ELSE appt'[b].now.start = appt[b].now.start
    PROVE  MovesInv'
<1>1. /\ \/ events' = events /\ e.code = "added"
         \/ events' = events \cup {e} /\ e \notin events
      /\ IsFiniteSet(events') /\ Dated' /\ OneOfAKey'
  BY TellFresh DEF MovesInv
<1>2. CASE events' = events /\ e.code = "added"
  BY <1>2, Quiet
<1>3. CASE events' = events \cup {e} /\ e \notin events
  <2>1. Untold'
    BY <1>3 DEF MovesInv, Untold, Moves
  <2>2. ASSUME NEW b \in Appointments, appt'[b].is = "here", b \notin missed',
               NEW s \in Starts
        PROVE  Cardinality(Arrivals(b, s)')
                 = Cardinality(Departures(b, s)') + (IF appt'[b].now.start = s THEN 1 ELSE 0)
    <3>1. Cardinality(Arrivals(b, s))
             = Cardinality(Departures(b, s)) + (IF appt[b].now.start = s THEN 1 ELSE 0)
      BY <2>2, AddUpIsBalanced DEF MovesInv, Balanced
    <3> DEFINE counts == e.about = b /\ e.code \in {"created", "rescheduled"}
    <3>2. /\ Cardinality(Arrivals(b, s)) \in Nat
          /\ Cardinality(Departures(b, s)) \in Nat
          /\ Cardinality(Arrivals(b, s)') = Cardinality(Arrivals(b, s))
                + (IF counts /\ e.start = s THEN 1 ELSE 0)
          /\ Cardinality(Departures(b, s)') = Cardinality(Departures(b, s))
                + (IF counts /\ e.old = s THEN 1 ELSE 0)
      BY <1>3, OneMore DEF MovesInv
    <3>3. CASE counts
      <4>1. e.old = appt[b].now.start /\ e.start = appt'[b].now.start
        BY <3>3
      <4> HIDE DEF counts
      <4> QED BY <3>1, <3>2, <3>3, <4>1
    <3>4. CASE ~counts
      <4>1. appt'[b].now.start = appt[b].now.start
        BY <3>4
      <4> HIDE DEF counts
      <4> QED BY <3>1, <3>2, <3>4, <4>1
    <3> QED BY <3>3, <3>4
  <2>3. MovesAddUp'
    BY <2>2 DEF MovesAddUp, Balanced, Arrivals, Departures, Moves
  <2> QED BY <1>1, <2>1, <2>3 DEF MovesInv
<1> QED BY <1>1, <1>2, <1>3

LEMMA BookMoves ==
    ASSUME TypeOK, MovesInv, NEW a \in Appointments, Book(a)
    PROVE  MovesInv'
<1>1. PICK is \in Content, ours \in BOOLEAN :
          /\ appt' = [appt EXCEPT ![a] = [is |-> "here", ours |-> ours, now |-> is]]
          /\ Tell(Telling(a, "created", is, None))
  BY DEF Book
<1>2. /\ appt[a].is = "unmade" /\ tx < MaxTx /\ tx' = tx + 1 /\ missed' = missed
      /\ tx \in Nat
  BY TrailAssumption DEF Book, TypeOK
<1> DEFINE e == Telling(a, "created", is, None)
<1>3. e \in Event
  BY <1>2, TellingTyped
<1>4. /\ e.about = a /\ e.code = "created" /\ e.start = is.start /\ e.old = None
      /\ e.tx = tx + 1
  BY DEF Telling
<1> HIDE DEF e
<1>5. /\ events' = events \cup {e} /\ e \notin events
      /\ IsFiniteSet(events') /\ Dated' /\ OneOfAKey'
  <2>1. tx' >= tx /\ tx' >= e.tx /\ tx' \in Nat /\ e.tx > tx
    BY <1>2, <1>4
  <2>2. Tell(e)
    BY <1>1 DEF e
  <2> QED BY <1>3, <1>4, <2>1, <2>2, TellFresh DEF MovesInv
<1>6. \A b \in Appointments :
         IF b = a THEN appt'[b].is = "here" /\ appt'[b].now.start = is.start
                  ELSE appt'[b] = appt[b]
  BY <1>1 DEF TypeOK
<1>7. Untold'
  BY <1>4, <1>5, <1>6 DEF MovesInv, Untold, Moves
<1>8. ASSUME NEW b \in Appointments, appt'[b].is = "here", b \notin missed',
             NEW s \in Starts
      PROVE  Cardinality(Arrivals(b, s)')
               = Cardinality(Departures(b, s)') + (IF appt'[b].now.start = s THEN 1 ELSE 0)
  <2>1. /\ Cardinality(Arrivals(b, s)) \in Nat
        /\ Cardinality(Departures(b, s)) \in Nat
        /\ Cardinality(Arrivals(b, s)') = Cardinality(Arrivals(b, s))
              + (IF b = a /\ is.start = s THEN 1 ELSE 0)
        /\ Cardinality(Departures(b, s)') = Cardinality(Departures(b, s))
              + (IF b = a /\ None = s THEN 1 ELSE 0)
    BY <1>4, <1>5, OneMore DEF MovesInv
  <2>2. None # s
    BY TrailAssumption
  <2>3. CASE b = a
    <3>1. Arrivals(b, s) = {} /\ Departures(b, s) = {}
      BY <1>2, <2>3 DEF MovesInv, Untold, Arrivals, Departures
    <3>2. Cardinality(Arrivals(b, s)) = 0 /\ Cardinality(Departures(b, s)) = 0
      BY <3>1, FS_EmptySet
    <3> QED BY <1>6, <2>1, <2>2, <2>3, <3>2
  <2>4. CASE b # a
    <3>1. Cardinality(Arrivals(b, s))
             = Cardinality(Departures(b, s)) + (IF appt[b].now.start = s THEN 1 ELSE 0)
      BY <1>2, <1>6, <1>8, <2>4, AddUpIsBalanced DEF MovesInv, Balanced
    <3> QED BY <1>6, <2>1, <2>4, <3>1
  <2> QED BY <2>3, <2>4
<1>9. MovesAddUp'
  BY <1>8 DEF MovesAddUp, Balanced, Arrivals, Departures, Moves
<1> QED BY <1>5, <1>7, <1>9 DEF MovesInv

LEMMA CommitChangeMoves ==
    ASSUME TypeOK, MovesInv, Aimed, Made, NEW r \in Requests, CommitChange(r)
    PROVE  MovesInv'
<1> DEFINE is == call[r].to
<1> PICK a \in Appointments : a = call[r].appt
  BY DEF CommitChange, Aimed, Aims
<1> DEFINE was == appt[a].now
           code == Code(was, is)
           old == OldStart(was, is)
<1>1. is \in Content /\ was \in Content
  BY DEF TypeOK, Call, ApptRow
<1>2. /\ appt' = [appt EXCEPT ![a].now = is] /\ tx' = tx + 1 /\ tx < MaxTx /\ tx \in Nat
      /\ appt[a].is # "unmade"
  <2>1. tx \in Nat
    BY TrailAssumption DEF TypeOK
  <2>2. appt[a].is # "unmade"
    BY DEF CommitChange, Made
  <2> QED BY <2>1, <2>2 DEF CommitChange
<1>3. \A b \in Appointments :
         /\ appt'[b].is = appt[b].is
         /\ appt'[b].now = IF b = a THEN is ELSE appt[b].now
  BY <1>2 DEF TypeOK, ApptRow
<1>4. tx' \in Nat /\ tx' >= tx
  BY <1>2
<1>5. CASE code = "" /\ UNCHANGED <<events, missed>>
  <2>1. was.start = is.start
    BY <1>5 DEF Code
  <2> QED BY <1>3, <1>4, <1>5, <2>1, Quiet
<1>6. CASE missed' = missed \cup {a} /\ UNCHANGED events
  BY <1>3, <1>4, <1>6, Quiet
<1>7. CASE code # "" /\ Tell(Telling(a, code, is, old)) /\ UNCHANGED missed
  <2> DEFINE e == Telling(a, code, is, old)
  <2>1. /\ code \in {"rescheduled"} \cup Told /\ old \in Starts \cup {None}
        /\ (code = "rescheduled") <=> (old # None)
    BY <1>1, <1>7, CodeTyped
  <2>2. e \in Event
    BY <1>1, <1>2, <2>1, TellingTyped
  <2>3. e.about = a /\ e.code = code /\ e.start = is.start /\ e.old = old /\ e.tx = tx + 1
    BY DEF Telling
  <2>4. IF code = "rescheduled" THEN old = was.start ELSE is.start = was.start
    BY <1>1, <2>1, TrailAssumption DEF Code, OldStart, Content
  <2>5. e.code # "created"
    BY <2>1, <2>3 DEF Told
  <2>6. Tell(e)
    BY <1>7
  <2> HIDE DEF e
  <2>7. \A b \in Appointments :
           /\ appt'[b].is = appt[b].is
           /\ e.about = b => appt[b].is # "unmade"
           /\ IF e.about = b /\ e.code = "rescheduled"
              THEN e.old = appt[b].now.start /\ e.start = appt'[b].now.start
              ELSE appt'[b].now.start = appt[b].now.start
    BY <1>2, <1>3, <2>3, <2>4
  <2>8. e.tx > tx /\ tx' >= e.tx
    BY <1>2, <2>3
  <2> QED BY <1>4, <1>7, <2>2, <2>5, <2>6, <2>7, <2>8, Loud
<1> QED BY <1>5, <1>6, <1>7 DEF CommitChange

LEMMA TellEntryMoves ==
    ASSUME TypeOK, MovesInv, Aimed, NEW r \in Requests, TellEntry(r)
    PROVE  MovesInv'
<1> DEFINE e == [about |-> call[r].link, code |-> "added", start |-> None, old |-> None,
                 status |-> "waiting", names |-> call[r].client, tx |-> 0]
<1>1. /\ UNCHANGED <<appt, tx, missed>> /\ tx \in Nat
      /\ Tell(e) \/ UNCHANGED events
  BY TrailAssumption DEF TellEntry, rows, TypeOK
<1>2. call[r].link \in Entries /\ call[r].client \in Clients \cup {None}
  BY DEF TellEntry, Aimed, Aims, TypeOK, Call
<1>3. e \in Event
  <2>1. 0 \in 0 .. MaxTx
    BY TrailAssumption
  <2> QED BY <1>2, <2>1 DEF Event
<1>4. e.about \in Entries /\ e.code = "added" /\ e.tx = 0
  BY <1>2
<1>5. CASE UNCHANGED events
  BY <1>1, <1>5, Quiet
<1>6. CASE Tell(e)
  <2> HIDE DEF e
  <2>1. \A b \in Appointments : e.about # b
    BY <1>4, TrailAssumption
  <2> QED BY <1>1, <1>3, <1>4, <1>6, <2>1, Loud
<1> QED BY <1>1, <1>5, <1>6

\* An event without the name of the client
Nameless(e, cleared) == IF e \in cleared THEN [e EXCEPT !.names = None] ELSE e

\* The deletion of a client keeps the number of events of every kind.
LEMMA ForgottenCount ==
    ASSUME TypeOK, IsFiniteSet(events), OneOfAKey, NEW cleared, events' = Forgotten(cleared)
    PROVE  /\ IsFiniteSet(events') /\ OneOfAKey'
           /\ \A f \in events' : \E e \in events : f.tx = e.tx
           /\ \A a : Moves(a) = {} => Moves(a)' = {}
           /\ \A a, s : /\ Cardinality(Arrivals(a, s)') = Cardinality(Arrivals(a, s))
                        /\ Cardinality(Departures(a, s)') = Cardinality(Departures(a, s))
<1> DEFINE now(e) == Nameless(e, cleared)
<1>1. \A e \in events :
         LET f == now(e) IN
         /\ f.about = e.about /\ f.code = e.code /\ f.start = e.start
         /\ f.old = e.old /\ f.tx = e.tx
  BY DEF TypeOK, Event, Nameless
<1>2. events' = {now(e) : e \in events}
  BY DEF Forgotten, Nameless
<1>3. \A e \in events : Key(now(e)) = Key(e)
  BY <1>1 DEF Key
<1> HIDE DEF now
<1>4. \A d, e \in events : now(d) = now(e) => d = e
  BY <1>3 DEF OneOfAKey
<1>5. OneOfAKey'
  <2> SUFFICES ASSUME NEW f \in events', NEW g \in events', Key(f) = Key(g)
               PROVE  f = g
    BY DEF OneOfAKey, Key
  <2> QED BY <1>2, <1>3 DEF OneOfAKey
<1>6. ASSUME NEW S \in SUBSET events, NEW T, T = {now(e) : e \in S}
      PROVE  IsFiniteSet(T) /\ Cardinality(T) = Cardinality(S)
  <2> DEFINE g == [e \in S |-> now(e)]
  <2>1. g \in [S -> T] /\ (\A y \in T : \E e \in S : g[e] = y)
        /\ \A d, e \in S : g[d] = g[e] => d = e
    BY <1>4, <1>6
  <2>2. g \in Bijection(S, T)
    <3> HIDE DEF g
    <3> QED BY <2>1 DEF Bijection, Injection, Surjection, IsInjective
  <2> QED BY <2>2, FS_Subset, FS_Bijection DEF ExistsBijection
<1>7. IsFiniteSet(events')
  BY <1>2, <1>6
<1>8. \A f \in events' : \E e \in events : f.tx = e.tx
  BY <1>1, <1>2
<1>9. \A a, s : /\ Arrivals(a, s)' = {now(e) : e \in Arrivals(a, s)}
                /\ Departures(a, s)' = {now(e) : e \in Departures(a, s)}
                /\ Moves(a)' = {now(e) : e \in Moves(a)}
  BY <1>1, <1>2 DEF Arrivals, Departures, Moves
<1>10. \A a, s : Arrivals(a, s) \in SUBSET events /\ Departures(a, s) \in SUBSET events
  BY DEF Arrivals, Departures, Moves
<1>11. \A a, s : /\ Cardinality(Arrivals(a, s)') = Cardinality(Arrivals(a, s))
                 /\ Cardinality(Departures(a, s)') = Cardinality(Departures(a, s))
  BY <1>6, <1>9, <1>10
<1>12. \A a : Moves(a) = {} => Moves(a)' = {}
  BY <1>9
<1> QED BY <1>5, <1>7, <1>8, <1>11, <1>12

LEMMA EraseMoves ==
    ASSUME TypeOK, MovesInv, NEW r \in Requests, Erase(r)
    PROVE  MovesInv'
<1> DEFINE c == call[r].client
<1>1. /\ events' = Forgotten(call[r].cleared) /\ UNCHANGED <<tx, missed>>
      /\ appt' = [a \in Appointments |-> IF appt[a].is = "here" /\ appt[a].now.client = c
                                         THEN [appt[a] EXCEPT !.now.client = None] ELSE appt[a]]
  BY DEF Erase, ApptsWithout
<1>2. \A a \in Appointments : appt'[a].is = appt[a].is /\ appt'[a].now.start = appt[a].now.start
  <2> TAKE a \in Appointments
  <2>1. LET f == [appt[a] EXCEPT !.now.client = None]
        IN  f.is = appt[a].is /\ f.now.start = appt[a].now.start
    BY DEF TypeOK, ApptRow, Content
  <2> QED BY <1>1, <2>1
<1>3. /\ IsFiniteSet(events') /\ OneOfAKey'
      /\ \A f \in events' : \E e \in events : f.tx = e.tx
      /\ \A a : Moves(a) = {} => Moves(a)' = {}
      /\ \A a, s : /\ Cardinality(Arrivals(a, s)') = Cardinality(Arrivals(a, s))
                   /\ Cardinality(Departures(a, s)') = Cardinality(Departures(a, s))
  BY <1>1, ForgottenCount DEF MovesInv
<1>4. Dated'
  BY <1>1, <1>3 DEF MovesInv, Dated
<1>5. Untold'
  BY <1>2, <1>3 DEF MovesInv, Untold
<1>6. ASSUME NEW b \in Appointments, appt'[b].is = "here", b \notin missed'
      PROVE  Balanced(b)'
  <2>1. Balanced(b)
    BY <1>1, <1>2, <1>6, AddUpIsBalanced DEF MovesInv
  <2> QED BY <1>2, <1>3, <2>1 DEF Balanced
<1>7. MovesAddUp'
  BY <1>6 DEF MovesAddUp, Balanced, Arrivals, Departures, Moves
<1> QED BY <1>3, <1>4, <1>5, <1>7 DEF MovesInv

\* The other actions write no event and move no appointment.
LEMMA OtherMoves ==
    ASSUME TypeOK, MovesInv,
           \/ UNCHANGED vars
           \/ \E r \in Requests, a \in Appointments : Change(r, a) \/ LookToDelete(r, a)
           \/ \E r \in Requests, i \in Invoices : Invoice(r, i)
           \/ \E i \in Invoices : CancelInvoice(i)
           \/ \E r \in Requests, e \in Entries : AddEntry(r, e) \/ LinkEntry(r, e)
           \/ \E r \in Requests, c \in Clients : LockToErase(r, c)
           \/ \E r \in Requests : CommitLink(r) \/ LockToDelete(r) \/ Delete(r) \/ Abandon(r)
    PROVE  MovesInv'
<1>0. tx \in Nat
  BY TrailAssumption DEF TypeOK
<1>1. UNCHANGED <<events, tx, missed>>
  BY DEF vars, Change, LookToDelete, Invoice, CancelInvoice, AddEntry, LinkEntry,
         LockToErase, CommitLink, LockToDelete, Delete, Abandon
<1>2. appt' = appt \/ \E r \in Requests : appt' = [appt EXCEPT ![call[r].appt].is = "deleted"]
  BY DEF vars, rows, Change, LookToDelete, Invoice, CancelInvoice, AddEntry, LinkEntry,
         LockToErase, CommitLink, LockToDelete, Delete, Abandon
<1>3. \A b \in Appointments : appt'[b] = appt[b] \/ appt'[b].is = "deleted"
  BY <1>2 DEF TypeOK, ApptRow
<1> QED BY <1>0, <1>1, <1>3, Quiet

LEMMA StepMoves ==
    ASSUME TypeOK, MovesInv, Aimed, Made, Next
    PROVE  MovesInv'
<1>1. ASSUME NEW a \in Appointments, Book(a) PROVE MovesInv'
  BY <1>1, BookMoves
<1>2. ASSUME NEW r \in Requests, CommitChange(r) PROVE MovesInv'
  BY <1>2, CommitChangeMoves
<1>3. ASSUME NEW r \in Requests, TellEntry(r) PROVE MovesInv'
  BY <1>3, TellEntryMoves
<1>4. ASSUME NEW r \in Requests, Erase(r) PROVE MovesInv'
  BY <1>4, EraseMoves
<1> QED BY <1>1, <1>2, <1>3, <1>4, OtherMoves DEF Next

\* No appointment becomes one that was not made.
LEMMA StaysMade ==
    ASSUME TypeOK, Next, NEW b \in Appointments, appt[b].is # "unmade"
    PROVE  appt'[b].is # "unmade"
<1>1. ASSUME NEW a \in Appointments, Book(a) PROVE appt'[b].is # "unmade"
  BY <1>1 DEF Book, TypeOK
<1>2. ASSUME NEW r \in Requests, CommitChange(r) PROVE appt'[b].is # "unmade"
  BY <1>2 DEF CommitChange, TypeOK, ApptRow
<1>3. ASSUME NEW r \in Requests, Delete(r) PROVE appt'[b].is # "unmade"
  BY <1>3 DEF Delete, TypeOK, ApptRow
<1>4. ASSUME NEW r \in Requests, Erase(r) PROVE appt'[b].is # "unmade"
  <2>1. [appt[b] EXCEPT !.now.client = None].is = appt[b].is
    BY DEF TypeOK, ApptRow
  <2> QED BY <1>4, <2>1 DEF Erase, ApptsWithout
<1>5. ASSUME NEW r \in Requests,
             \/ \E a \in Appointments : Change(r, a) \/ LookToDelete(r, a)
             \/ \E i \in Invoices : Invoice(r, i)
             \/ \E e \in Entries : AddEntry(r, e) \/ LinkEntry(r, e)
             \/ \E c \in Clients : LockToErase(r, c)
             \/ CommitLink(r) \/ TellEntry(r) \/ LockToDelete(r) \/ Abandon(r)
      PROVE  appt' = appt
  BY <1>5 DEF rows, Change, LookToDelete, Invoice, AddEntry, LinkEntry, LockToErase,
              CommitLink, TellEntry, LockToDelete, Abandon
<1>6. ASSUME NEW i \in Invoices, CancelInvoice(i) PROVE appt' = appt
  BY <1>6 DEF CancelInvoice
<1> QED BY <1>1, <1>2, <1>3, <1>4, <1>5, <1>6 DEF Next

LEMMA StepMade ==
    ASSUME TypeOK, Aimed, Made, Next
    PROVE  Made'
<1> SUFFICES ASSUME NEW r \in Requests, call'[r].pc = "changing",
                    NEW b \in Appointments, b = call'[r].appt
             PROVE  appt'[b].is # "unmade"
  <2>1. \A r \in Requests : call'[r].pc = "changing" => call'[r].appt \in Appointments
    BY StepAims DEF Aimed, Aims
  <2> QED BY <2>1 DEF Made
<1>1. appt[b].is # "unmade"
  BY CallBecomes DEF Made, Becomes
<1> QED BY <1>1, StaysMade

LEMMA StepTrail == MovesInv /\ Made /\ IInv /\ [Next]_vars => MovesInv' /\ Made'
<1>1. ASSUME MovesInv, Made, IInv, Next PROVE MovesInv' /\ Made'
  BY <1>1, StepMoves, StepMade DEF IInv
<1>2. ASSUME MovesInv, Made, IInv, UNCHANGED vars PROVE MovesInv' /\ Made'
  BY <1>2, OtherMoves DEF IInv, Made, vars, rows
<1> QED BY <1>1, <1>2

LEMMA InitTrail == Init => MovesInv /\ Made
<1> SUFFICES ASSUME Init PROVE MovesInv /\ Made
  OBVIOUS
<1>1. Made
  BY DEF Init, Made, Idle
<1>2. IsFiniteSet(events) /\ Dated /\ OneOfAKey /\ Untold
  BY FS_EmptySet DEF Init, Dated, OneOfAKey, Untold, Moves
<1>3. MovesAddUp
  BY DEF Init, MovesAddUp
<1> QED BY <1>1, <1>2, <1>3 DEF MovesInv

-----------------------------------------------------------------------------
(* Theorems *)

LEMMA StepInv == IInv /\ [Next]_vars => IInv'
<1>1. ASSUME IInv, Next PROVE IInv'
  BY <1>1, StepTyped, StepNames, StepAlone, StepAims DEF IInv
<1>2. ASSUME IInv, UNCHANGED vars PROVE IInv'
  BY <1>2 DEF IInv, vars, rows, TypeOK, NamesForgotten, Seen, Naming, Alone, Linked,
              ApptShared, Aimed, Aims
<1> QED
  BY <1>1, <1>2

\* The inductive invariant: types, and what the locks of a call exclude
THEOREM Invariance == Spec => []IInv
<1>1. Init => IInv
  <2> SUFFICES ASSUME Init PROVE IInv
    OBVIOUS
  <2>1. TypeOK
    BY InitTyped
  <2>2. \A r \in Requests : call[r].pc = "idle"
    BY DEF Init, Idle
  <2> QED
    BY <2>1, <2>2 DEF IInv, Init, NamesForgotten, Seen, Alone, Aimed, Aims
<1> QED
  BY <1>1, StepInv, PTL DEF Spec

\* Rows, events and calls have their types.
THEOREM TypeCorrect == Spec => []TypeOK
<1>1. IInv => TypeOK
  BY DEF IInv
<1> QED
  BY <1>1, Invariance, PTL

\* No event names a client who was deleted (forget_client_in_inbox).
THEOREM DeletedAreForgotten == Spec => []NamesForgotten
<1>1. IInv => NamesForgotten
  BY DEF IInv
<1> QED
  BY <1>1, Invariance, PTL

\* Deleting an appointment cuts off nothing (guard_appointment_delete).
THEOREM NothingCutOff == Spec => LinksNeverCut
<1> DEFINE NotCut == \A a \in Appointments :
                        appt[a].is = "here" /\ appt'[a].is = "deleted" => ~Linked(a)
<1>1. ASSUME IInv, Next PROVE NotCut
  <2> SUFFICES ASSUME NEW a \in Appointments, appt[a].is = "here", appt'[a].is = "deleted"
               PROVE  ~Linked(a)
    OBVIOUS
  <2>1. ASSUME NEW r \in Requests, Delete(r) PROVE ~Linked(a)
    <3>1. call[r].appt = a
      BY <1>1, <2>1 DEF Delete, IInv, TypeOK, ApptRow
    <3> QED
      BY <1>1, <2>1, <3>1 DEF IInv, Alone, Delete
  <2>2. ASSUME NEW b \in Appointments, Book(b) PROVE FALSE
    <3>1. PICK is \in Content, ours \in BOOLEAN :
             appt' = [appt EXCEPT ![b] = [is |-> "here", ours |-> ours, now |-> is]]
      BY <2>2 DEF Book
    <3> QED
      BY <1>1, <3>1 DEF IInv, TypeOK
  <2>3. ASSUME NEW r \in Requests, CommitChange(r) PROVE FALSE
    BY <1>1, <2>3 DEF CommitChange, IInv, TypeOK, ApptRow
  <2>4. ASSUME NEW r \in Requests, Erase(r) PROVE FALSE
    <3>1. [appt[a] EXCEPT !.now.client = None].is = appt[a].is
      BY <1>1 DEF IInv, TypeOK, ApptRow
    <3> QED
      BY <2>4, <3>1 DEF Erase, ApptsWithout
  <2>5. ASSUME appt' = appt PROVE FALSE
    BY <2>5
  <2>6. ASSUME NEW r \in Requests,
               \/ \E b \in Appointments : Change(r, b) \/ LookToDelete(r, b)
               \/ \E i \in Invoices : Invoice(r, i)
               \/ \E e \in Entries : AddEntry(r, e) \/ LinkEntry(r, e)
               \/ \E c \in Clients : LockToErase(r, c)
               \/ CommitLink(r) \/ TellEntry(r) \/ LockToDelete(r) \/ Abandon(r)
        PROVE  appt' = appt
    BY <2>6 DEF rows, Change, LookToDelete, Invoice, AddEntry, LinkEntry, LockToErase,
                CommitLink, TellEntry, LockToDelete, Abandon
  <2>7. ASSUME NEW i \in Invoices, CancelInvoice(i) PROVE appt' = appt
    BY <2>7 DEF CancelInvoice
  <2> QED
    BY <1>1, <2>1, <2>2, <2>3, <2>4, <2>5, <2>6, <2>7 DEF Next
<1>2. IInv /\ [Next]_vars => [NotCut]_vars
  BY <1>1
<1> QED
  BY <1>2, Invariance, PTL DEF Spec, LinksNeverCut

\* The moves the Inbox tells of lead to where the appointment is, for any
\* number of moves, calls and clients deleted in between; each change has an
\* event of its own (the dedupe key of 0027).
THEOREM MovesLeadThere == Spec => []MovesAddUp
<1>1. MovesInv => MovesAddUp
  BY DEF MovesInv
<1> QED BY Invariance, InitTrail, StepTrail, <1>1, PTL DEF Spec
=============================================================================
