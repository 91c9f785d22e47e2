---------------------------- MODULE BookingTrail ----------------------------
(***************************************************************************)
(* What is left behind an appointment: the events of the Inbox, written by *)
(* triggers in the transaction of the change, the invoices and waiting     *)
(* list entries that point at it, and the client's name in all of them     *)
(* (migrations 0023 and 0027, the waiting list service).                   *)
(*                                                                         *)
(* A transaction that waits on another's row lock is not enabled until     *)
(* that one ends.  A foreign key takes a shared lock on the row it names;  *)
(* deleting a row takes it exclusively, before its trigger looks around.   *)
(* The one wait in a circle is between a change of a client's appointment, *)
(* whose event names the client, and the deletion of that client, which    *)
(* clears the client from the appointment: the database makes one of the   *)
(* two fail.  If it is the event, the trigger swallows the error.          *)
(*                                                                         *)
(* Ids are never used again.  Which status may follow which, and who may   *)
(* set it, is the subject of Bookings; here any may follow any.            *)
(***************************************************************************)
EXTENDS Integers, FiniteSets

CONSTANTS
    Appointments, Clients, Invoices, Entries,  \* entries of the waiting list
    None,           \* no appointment, no client, no time
    Starts,         \* times an appointment may have
    Statuses,       \* those of AllStatuses that occur
    Requests,       \* calls being served
    MaxTx           \* bound on transactions of appointments

AllStatuses == {"pending", "confirmed", "checked_in", "in_progress",
                "completed", "cancelled", "no_show"}
History == {"completed", "no_show", "checked_in", "in_progress"}
Told == {"confirmed", "cancelled", "completed", "no_show"}

ASSUME TrailAssumption ==
    /\ None \notin Appointments \cup Clients \cup Starts
    /\ Appointments \cap Entries = {}
    /\ Statuses \subseteq AllStatuses /\ Statuses # {}
    /\ Starts # {}
    /\ MaxTx \in Nat

VARIABLES
    appt, invoice, entry,   \* the rows
    clients,                \* the clients there are
    events,                 \* the rows of inbox_events
    tx,                     \* the last transaction of an appointment
    missed,                 \* appointments that had a change without its event
    call                    \* the calls and what their transactions hold

rows == <<appt, invoice, entry, clients>>
vars == <<rows, events, tx, missed, call>>

\* What a change may set.  "shown" is visibility = 'normal', "ours" that the
\* appointment was made in the business app (source = 'user').
Content == [start: Starts, status: Statuses, client: Clients \cup {None}, shown: BOOLEAN]
ApptRow == [is: {"unmade", "here", "deleted"}, ours: BOOLEAN, now: Content]
InvoiceRow == [is: {"unmade", "open", "void"},
               appt: Appointments \cup {None}, client: Clients \cup {None}]
EntryRow == [is: {"unmade", "here", "gone"},
             appt: Appointments \cup {None}, client: Clients \cup {None}]
Event == {e \in [about: Appointments \cup Entries,
                 code: {"created", "rescheduled", "added"} \cup Told,
                 start: Starts \cup {None}, old: Starts \cup {None},
                 status: Statuses \cup {"waiting"},
                 names: Clients \cup {None}, tx: 0 .. MaxTx] :
            (e.code = "rescheduled") <=> (e.old # None)}

\* Between their first and last statement transactions hold locks: "changing"
\* and "deleting" the row of appt, "linking" the row of link and a share of
\* appt and client, "erasing" the row of client.  The others hold none.
Call == [pc: {"idle", "changing", "linking", "adding", "looked", "deleting", "erasing"},
         appt: Appointments \cup {None}, to: Content,
         link: Invoices \cup Entries \cup {None},
         client: Clients \cup {None}, cleared: SUBSET Event]

SomeContent == [start |-> CHOOSE s \in Starts : TRUE, status |-> CHOOSE s \in Statuses : TRUE,
                client |-> None, shown |-> TRUE]
Idle == [pc |-> "idle", appt |-> None, to |-> SomeContent, link |-> None,
         client |-> None, cleared |-> {}]

Init ==
    /\ appt = [a \in Appointments |-> [is |-> "unmade", ours |-> TRUE, now |-> SomeContent]]
    /\ invoice = [i \in Invoices |-> [is |-> "unmade", appt |-> None, client |-> None]]
    /\ entry = [e \in Entries |-> [is |-> "unmade", appt |-> None, client |-> None]]
    /\ clients = Clients
    /\ events = {} /\ tx = 0 /\ missed = {}
    /\ call = [r \in Requests |-> Idle]

-----------------------------------------------------------------------------
(* Locks *)

ApptLocked(a) == \E r \in Requests : call[r].pc \in {"changing", "deleting"} /\ call[r].appt = a
EntryLocked(e) == \E r \in Requests : call[r].pc = "linking" /\ call[r].link = e
ApptShared(a) == \E r \in Requests : call[r].pc = "linking" /\ call[r].appt = a
ClientLocked(c) == \E r \in Requests : call[r].pc = "erasing" /\ call[r].client = c

\* An appointment that gets another client shares that client's row.
ClientShared(c) == \E r \in Requests :
    \/ call[r].pc = "linking" /\ call[r].client = c
    \/ call[r].pc = "changing" /\ call[r].to.client = c /\ appt[call[r].appt].now.client # c

\* A foreign key may be set: its row is there and is not being deleted.
NameWithoutKey(c) == c # None => c \in clients  \* mistake: looked up, not locked
MayName(c) == c # None => c \in clients /\ ~ClientLocked(c)
PointWithoutKey(a) == a # None => appt[a].is = "here"  \* the same mistake
MayPoint(a) == a # None =>
    /\ appt[a].is = "here"
    /\ \A r \in Requests : ~(call[r].pc = "deleting" /\ call[r].appt = a)

-----------------------------------------------------------------------------
(* Appointments and their events: record_appointment_inbox_event *)

\* "" is a change that is no event
Code(was, is) ==
    CASE was.start # is.start -> "rescheduled"
      [] was.start = is.start /\ was.status # is.status /\ is.status \in Told -> is.status
      [] OTHER -> ""
OldStartAlways(was, is) == was.start  \* mistake: of every change
OldStart(was, is) == IF was.start # is.start THEN was.start ELSE None
Named(is) == IF is.shown THEN is.client ELSE None

Telling(a, code, is, old) ==
    [about |-> a, code |-> code, start |-> is.start, old |-> old,
     status |-> is.status, names |-> Named(is), tx |-> tx + 1]

\* The dedupe key; a second event of the same key is dropped.
KeyOfTheState(e) ==  \* mistake: the key of 0023, without the transaction
    IF e.code = "added" THEN <<e.about>> ELSE <<e.about, e.status, e.start>>
Key(e) == IF e.code = "added" THEN <<e.about>> ELSE <<e.about, e.code, e.tx>>
Tell(e) == events' = IF \E f \in events : Key(f) = Key(e) THEN events ELSE events \cup {e}

\* Insert: the foreign key of the appointment is checked before the event.
Book(a) ==
    /\ appt[a].is = "unmade" /\ tx < MaxTx
    /\ \E is \in Content, ours \in BOOLEAN :
          /\ MayName(is.client)
          /\ appt' = [appt EXCEPT ![a] = [is |-> "here", ours |-> ours, now |-> is]]
          /\ Tell(Telling(a, "created", is, None))
    /\ tx' = tx + 1
    /\ UNCHANGED <<invoice, entry, clients, missed, call>>

\* Update: the row is locked, then its trigger runs.
Change(r, a) ==
    /\ call[r].pc = "idle"
    /\ appt[a].is = "here" /\ ~ApptLocked(a) /\ tx < MaxTx
    /\ \E is \in Content :
          /\ is # appt[a].now
          /\ is.client # appt[a].now.client => MayName(is.client)
          /\ call' = [call EXCEPT ![r] = [Idle EXCEPT !.pc = "changing", !.appt = a, !.to = is]]
    /\ UNCHANGED <<rows, events, tx, missed>>

\* The event is stored with the change, or skipped when it cannot be.
CommitChange(r) ==
    LET a == call[r].appt
        is == call[r].to
        code == Code(appt[a].now, is)
    IN  /\ call[r].pc = "changing" /\ tx < MaxTx
        /\ \/ /\ code = ""
              /\ UNCHANGED <<events, missed>>
           \/ /\ code # "" /\ MayName(Named(is))
              /\ Tell(Telling(a, code, is, OldStart(appt[a].now, is)))
              /\ UNCHANGED missed
           \/ /\ code # "" /\ ~MayName(Named(is))
              /\ missed' = missed \cup {a}
              /\ UNCHANGED events
        /\ appt' = [appt EXCEPT ![a].now = is]
        /\ tx' = tx + 1
        /\ call' = [call EXCEPT ![r] = Idle]
        /\ UNCHANGED <<invoice, entry, clients>>

-----------------------------------------------------------------------------
(* What points at an appointment *)

\* create_invoice, for an appointment or not
Invoice(r, i) ==
    /\ call[r].pc = "idle"
    /\ invoice[i].is = "unmade"
    /\ \A q \in Requests : ~(call[q].pc = "linking" /\ call[q].link = i)
    /\ \E a \in Appointments \cup {None}, c \in Clients \cup {None} :
          /\ MayPoint(a) /\ MayName(c)
          /\ call' = [call EXCEPT ![r] = [Idle EXCEPT !.pc = "linking", !.appt = a,
                                                      !.link = i, !.client = c]]
    /\ UNCHANGED <<rows, events, tx, missed>>

CancelInvoice(i) ==
    /\ invoice[i].is = "open"
    /\ invoice' = [invoice EXCEPT ![i].is = "void"]
    /\ UNCHANGED <<appt, entry, clients, events, tx, missed, call>>

\* Setting an entry's booked appointment, or taking it away
LinkEntry(r, e) ==
    /\ call[r].pc = "idle"
    /\ entry[e].is = "here" /\ ~EntryLocked(e)
    /\ \E a \in (Appointments \cup {None}) \ {entry[e].appt} :
          /\ MayPoint(a)
          /\ call' = [call EXCEPT ![r] = [Idle EXCEPT !.pc = "linking", !.appt = a, !.link = e]]
    /\ UNCHANGED <<rows, events, tx, missed>>

CommitLink(r) ==
    LET a == call[r].appt
        l == call[r].link
    IN  /\ call[r].pc = "linking"
        /\ \/ /\ l \in Invoices
              /\ invoice' = [invoice EXCEPT ![l] = [is |-> "open", appt |-> a,
                                                    client |-> call[r].client]]
              /\ UNCHANGED entry
           \/ /\ l \in Entries
              /\ entry' = [entry EXCEPT ![l].appt = a]
              /\ UNCHANGED invoice
        /\ call' = [call EXCEPT ![r] = Idle]
        /\ UNCHANGED <<appt, clients, events, tx, missed>>

\* addWaitingListEntry: the row, and then its event by a call of its own
AddEntry(r, e) ==
    /\ call[r].pc = "idle"
    /\ entry[e].is = "unmade"
    /\ \E c \in Clients \cup {None} :
          /\ MayName(c)
          /\ entry' = [entry EXCEPT ![e] = [is |-> "here", appt |-> None, client |-> c]]
          /\ call' = [call EXCEPT ![r] = [Idle EXCEPT !.pc = "adding", !.link = e, !.client = c]]
    /\ UNCHANGED <<appt, invoice, clients, events, tx, missed>>

\* record_inbox_event, by the client id the service still holds; a refusal
\* does not fail the call.
TellEntry(r) ==
    LET c == call[r].client IN
    /\ call[r].pc = "adding"
    /\ \/ /\ MayName(c)
          /\ Tell([about |-> call[r].link, code |-> "added", start |-> None, old |-> None,
                   status |-> "waiting", names |-> c, tx |-> 0])
       \/ /\ c # None /\ c \notin clients
          /\ UNCHANGED events
    /\ call' = [call EXCEPT ![r] = Idle]
    /\ UNCHANGED <<rows, tx, missed>>

-----------------------------------------------------------------------------
(* Deleting an appointment *)

Linked(a) ==
    \/ \E i \in Invoices : invoice[i].appt = a
    \/ \E e \in Entries : entry[e].appt = a

\* guard_appointment_delete.  Only online bookings have claims.
MayVanish(a) ==
    /\ appt[a].now.status \notin History
    /\ appt[a].ours
    /\ ~Linked(a)

\* The look of removeAppointment; row level security may hide an invoice.
LookToDelete(r, a) ==
    /\ call[r].pc = "idle"
    /\ appt[a].is = "here" /\ appt[a].ours
    /\ appt[a].now.status \notin History
    /\ \A e \in Entries : entry[e].appt # a
    /\ call' = [call EXCEPT ![r] = [Idle EXCEPT !.pc = "looked", !.appt = a]]
    /\ UNCHANGED <<rows, events, tx, missed>>

\* The row is locked, then its trigger decides.
LockToDelete(r) ==
    LET a == call[r].appt IN
    /\ call[r].pc = "looked"
    /\ ~ApptLocked(a) /\ ~ApptShared(a)
    /\ call' = [call EXCEPT ![r] = IF appt[a].is = "here" /\ MayVanish(a)
                                   THEN [@ EXCEPT !.pc = "deleting"] ELSE Idle]
    /\ UNCHANGED <<rows, events, tx, missed>>

\* Foreign keys to the row are set null; the events stay.
Delete(r) ==
    LET a == call[r].appt IN
    /\ call[r].pc = "deleting"
    /\ appt' = [appt EXCEPT ![a].is = "deleted"]
    /\ invoice' = [i \in Invoices |-> IF invoice[i].appt = a
                                      THEN [invoice[i] EXCEPT !.appt = None] ELSE invoice[i]]
    /\ entry' = [e \in Entries |-> IF entry[e].appt = a
                                   THEN [entry[e] EXCEPT !.appt = None] ELSE entry[e]]
    /\ call' = [call EXCEPT ![r] = Idle]
    /\ UNCHANGED <<clients, events, tx, missed>>

-----------------------------------------------------------------------------
(* Deleting a client *)

Naming(c) == {e \in events : e.names = c}
Forgotten(cleared) ==
    (events \ cleared) \cup {[e EXCEPT !.names = None] : e \in events \cap cleared}

\* The row is locked, then forget_client_in_inbox clears what it sees.
LockToErase(r, c) ==
    /\ call[r].pc = "idle"
    /\ c \in clients /\ ~ClientLocked(c) /\ ~ClientShared(c)
    /\ call' = [call EXCEPT ![r] = [Idle EXCEPT !.pc = "erasing", !.client = c,
                                                !.cleared = Naming(c)]]
    /\ UNCHANGED <<rows, events, tx, missed>>

\* What the foreign keys on the client do: appointments and invoices lose it,
\* its entries of the waiting list go.
ApptsWithout(c) ==
    [a \in Appointments |-> IF appt[a].is = "here" /\ appt[a].now.client = c
                            THEN [appt[a] EXCEPT !.now.client = None] ELSE appt[a]]
InvoicesWithout(c) ==
    [i \in Invoices |-> IF invoice[i].client = c THEN [invoice[i] EXCEPT !.client = None]
                        ELSE invoice[i]]
EntriesWithout(c) ==
    [e \in Entries |-> IF entry[e].is = "here" /\ entry[e].client = c
                       THEN [is |-> "gone", appt |-> None, client |-> None] ELSE entry[e]]

\* Not even that may be changed in a cancelled invoice.
KeptByInvoice(c) == \E i \in Invoices : invoice[i].is = "void" /\ invoice[i].client = c

\* The client goes, once the rows that name it are free.
Erase(r) ==
    LET c == call[r].client IN
    /\ call[r].pc = "erasing"
    /\ \A a \in Appointments : appt[a].is = "here" /\ appt[a].now.client = c => ~ApptLocked(a)
    /\ \A e \in Entries : entry[e].is = "here" /\ entry[e].client = c => ~EntryLocked(e)
    /\ ~KeptByInvoice(c)
    /\ clients' = clients \ {c}
    /\ appt' = ApptsWithout(c)
    /\ invoice' = InvoicesWithout(c)
    /\ entry' = EntriesWithout(c)
    /\ events' = Forgotten(call[r].cleared)
    /\ call' = [call EXCEPT ![r] = Idle]
    /\ UNCHANGED <<tx, missed>>

\* A transaction that fails is rolled back: the victim of a circular wait, a
\* client whose cancelled invoice may not be touched, a lost connection.
Abandon(r) ==
    /\ call[r].pc # "idle"
    /\ call' = [call EXCEPT ![r] = Idle]
    /\ UNCHANGED <<rows, events, tx, missed>>

-----------------------------------------------------------------------------
Next ==
    \/ \E a \in Appointments : Book(a)
    \/ \E r \in Requests, a \in Appointments : Change(r, a) \/ LookToDelete(r, a)
    \/ \E r \in Requests, i \in Invoices : Invoice(r, i)
    \/ \E i \in Invoices : CancelInvoice(i)
    \/ \E r \in Requests, e \in Entries : AddEntry(r, e) \/ LinkEntry(r, e)
    \/ \E r \in Requests, c \in Clients : LockToErase(r, c)
    \/ \E r \in Requests : \/ CommitChange(r) \/ CommitLink(r) \/ TellEntry(r)
                           \/ LockToDelete(r) \/ Delete(r) \/ Erase(r) \/ Abandon(r)

Spec == Init /\ [][Next]_vars

-----------------------------------------------------------------------------
(* Properties *)

\* Rows, events and calls have their types; an event tells an old time exactly
\* when it tells of a move.
TypeOK ==
    /\ appt \in [Appointments -> ApptRow]
    /\ invoice \in [Invoices -> InvoiceRow]
    /\ entry \in [Entries -> EntryRow]
    /\ clients \in SUBSET Clients
    /\ events \in SUBSET Event
    /\ tx \in 0 .. MaxTx
    /\ missed \in SUBSET Appointments
    /\ call \in [Requests -> Call]

\* No event of the Inbox names a client who was deleted, whatever was being
\* written about the client at that time (0027 forget_client_in_inbox).
NamesForgotten == \A e \in events : e.names \in clients \cup {None}

\* The moves the Inbox tells of lead to where the appointment is: as often as it
\* was moved to a time it was moved away from it, but for the time it has now
\* (0027: moving there and back and there again is three events).  Excepted are
\* the appointments that had an event swallowed (missed): record_inbox_event
\* may fail without failing the change.
MovesAddUp ==
    \A a \in Appointments :
        appt[a].is = "here" /\ a \notin missed =>
            LET own == {e \in events : e.about = a /\ e.code \in {"created", "rescheduled"}}
            IN  \A s \in Starts :
                    Cardinality({e \in own : e.start = s})
                      = Cardinality({e \in own : e.old = s})
                        + (IF appt[a].now.start = s THEN 1 ELSE 0)

\* Deleting an appointment cuts off nothing: no invoice and no entry of the
\* waiting list points at it, not even one that was being written when the
\* member looked (0027 guard_appointment_delete, getDeleteBlockers).
LinksNeverCut ==
    [][\A a \in Appointments :
          appt[a].is = "here" /\ appt'[a].is = "deleted" => ~Linked(a)]_vars
=============================================================================
