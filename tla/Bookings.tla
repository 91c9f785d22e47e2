------------------------------ MODULE Bookings ------------------------------
(***************************************************************************)
(* The appointments table of one business and everyone who writes it:      *)
(*                                                                         *)
(*  - guests and client accounts, through the database functions           *)
(*    create_public_booking, cancel_my_booking and reschedule_my_booking,  *)
(*    each ONE transaction that checks and writes;                         *)
(*  - signed-in members of the business, through appointments.service.ts,  *)
(*    which reads the row, checks the rules in the server and then writes  *)
(*    by id.  Each await is a step, and any other writer may come in       *)
(*    between;                                                             *)
(*  - the database itself: the trigger that derives the busy window, the   *)
(*    exclusion constraints, the history and the delete guards, which run  *)
(*    inside every write.                                                  *)
(*                                                                         *)
(* Abstractions. The length a service is sold with is fixed, its buffers   *)
(* change. A place is the staff member of an appointment with its          *)
(* resource, so the links of a service are the places it may be booked     *)
(* at. OpenStarts are the starts inside working hours. Names, notes,       *)
(* prices, visibility and the audit log are left out. A request may be     *)
(* dropped at any moment: that covers refusals whose reason is outside     *)
(* this module (an external calendar, an invoice or waiting-list link)     *)
(* and a lost server.                                                      *)
(***************************************************************************)
EXTENDS StatusRules, FiniteSets

CONSTANTS
    Appts,           \* identities of appointment rows
    Services,
    Places,          \* records [staff, resource]
    NoResource,
    Sessions,        \* members of the business working at the same time
    Role,            \* Role[m]: "owner" stands for admin too
    PlacesFor,       \* PlacesFor[s]: where service s may be booked online
    Lengths,         \* bound: the lengths anyone asks for
    Duration,        \* Duration[s]: the length service s is sold with
    BufferChoices,   \* records [before, after] a service may be set to
    Starts,          \* bound: the starts anyone asks for
    OpenStarts,      \* those of them inside working hours
    AskedStatuses,   \* bound: the statuses members write
    Patches,         \* sets of fields the callers of updateAppointment send
    MaxTime,         \* bound: the last instant of the model
    MinNotice, MaxHorizon, CancelDeadline, RescheduleDeadline,
    AutoConfirm      \* does the business confirm online bookings itself?

Times == 0..MaxTime
Fields == {"status", "service", "place", "start", "length"}

ASSUME BookingsAssumption ==
    /\ MaxTime \in Nat
    /\ Services # {} /\ Places # {} /\ BufferChoices # {}
    /\ PlacesFor \in [Services -> SUBSET Places]
    /\ Lengths \subseteq Nat \ {0}
    /\ Duration \in [Services -> Lengths]
    /\ BufferChoices \subseteq [before : Nat, after : Nat]
    /\ Starts # {} /\ Starts \subseteq Times
    /\ OpenStarts \subseteq Starts
    /\ AskedStatuses \subseteq Statuses
    /\ Patches \subseteq SUBSET Fields
    /\ Role \in [Sessions -> {"owner", "manager", "staff"}]
    /\ AutoConfirm \in BOOLEAN
    /\ {MinNotice, MaxHorizon, CancelDeadline, RescheduleDeadline} \subseteq Nat

VARIABLES
    appt,      \* appt[a]: the row, or a blank one when there is none
    claimed,   \* rows attached to a client account
    buffers,   \* buffers[s]: the buffers of service s as they are now
    now,       \* the clock
    drafts,    \* checked appointments a member is about to insert
    edits      \* what each running change of a member remembers

vars == <<appt, claimed, buffers, now, drafts, edits>>

-----------------------------------------------------------------------------
(* Rows, busy windows and the exclusion constraints                        *)

BusyWindow(start, length, buf) ==
    [from |-> start - buf.before, until |-> start + length + buf.after]

BusyWindows == {BusyWindow(t, n, buf) : t \in Starts, n \in Lengths, buf \in BufferChoices}

Row == [status : Statuses \cup {"none", "deleted"}, source : {"user", "public"},
        service : Services, place : Places, start : Starts, length : Lengths,
        busy : BusyWindows]

Blank == CHOOSE r \in Row : r.status = "none"

Live(a) == appt[a].status \in Statuses
Active(r) == r.status \in ActiveStatuses
End(r) == r.start + r.length

WindowNow(r) == BusyWindow(r.start, r.length, buffers[r.service])

NewRow(status, source, s, p, start, length) ==
    [status |-> status, source |-> source, service |-> s, place |-> p,
     start |-> start, length |-> length, busy |-> BusyWindow(start, length, buffers[s])]

SameStaffOrResource(p, q) ==
    \/ p.staff = q.staff
    \/ p.resource # NoResource /\ p.resource = q.resource

\* Mutant: only equal starts collide.
RangesShareStart(v, w) == v.from = w.from

RangesOverlap(v, w) == v.from < w.until /\ w.from < v.until

\* Mutant: the resource constraint is missing.
ExcludesSameStaff(r, q) ==
    Active(r) /\ Active(q) /\ r.place.staff = q.place.staff /\ RangesOverlap(r.busy, q.busy)

\* appointments_no_staff_overlap and appointments_no_resource_overlap.
Excludes(r, q) ==
    /\ Active(r) /\ Active(q)
    /\ SameStaffOrResource(r.place, q.place)
    /\ RangesOverlap(r.busy, q.busy)

\* Every insert and update of a row goes through the constraints.
WriteRow(a, r) ==
    /\ \A b \in Appts \ {a} : ~Excludes(r, appt[b])
    /\ appt' = [appt EXCEPT ![a] = r]

\* Mutant: the window trigger runs on insert only.
UpdateRowOldWindow(a, r) == WriteRow(a, r)

\* Any update, of any column, recomputes the window with today's buffers.
UpdateRow(a, r) == WriteRow(a, [r EXCEPT !.busy = WindowNow(r)])

-----------------------------------------------------------------------------
(* Guests and client accounts                                              *)

OnlineStart(start) ==
    /\ start > now
    /\ start >= now + MinNotice
    /\ Day(start) <= Day(now) + MaxHorizon

\* Mutant: a moved booking gets the legacy status.
OnlineStatusLegacy == "rescheduled"

OnlineStatus == IF AutoConfirm THEN "confirmed" ELSE "pending"

CreatePublicBooking(a, s, p, start) ==
    /\ appt[a].status = "none"
    /\ OnlineStart(start)
    /\ p \in PlacesFor[s]
    /\ WriteRow(a, NewRow(OnlineStatus, "public", s, p, start, Duration[s]))
    /\ UNCHANGED <<claimed, buffers, now, drafts, edits>>

\* The guest opens the claim link of an online booking while signed in.
ClaimBooking(a) ==
    /\ Live(a) /\ appt[a].source = "public"
    /\ claimed' = claimed \cup {a}
    /\ UNCHANGED <<appt, buffers, now, drafts, edits>>

Manageable(a, deadline) ==
    /\ a \in claimed
    /\ appt[a].status \in {"pending", "confirmed"}
    /\ appt[a].start > now
    /\ appt[a].start >= now + deadline

CancelMyBooking(a) ==
    /\ Manageable(a, CancelDeadline)
    /\ UpdateRow(a, [appt[a] EXCEPT !.status = "cancelled"])
    /\ UNCHANGED <<claimed, buffers, now, drafts, edits>>

\* Mutant: a moved booking keeps its approval.
RescheduleKeepsApproval(a, p, start) ==
    /\ Manageable(a, RescheduleDeadline)
    /\ OnlineStart(start)
    /\ p \in PlacesFor[appt[a].service]
    /\ UpdateRow(a, [appt[a] EXCEPT !.start = start, !.place = p])
    /\ UNCHANGED <<claimed, buffers, now, drafts, edits>>

\* A moved booking needs approval again unless the business auto-confirms.
RescheduleMyBooking(a, p, start) ==
    /\ Manageable(a, RescheduleDeadline)
    /\ OnlineStart(start)
    /\ p \in PlacesFor[appt[a].service]
    /\ UpdateRow(a, [appt[a] EXCEPT !.start = start, !.length = Duration[appt[a].service],
                                    !.place = p, !.status = OnlineStatus])
    /\ UNCHANGED <<claimed, buffers, now, drafts, edits>>

-----------------------------------------------------------------------------
(* The rules the server checks before a member's write                     *)

Busy(m) == (\E d \in drafts : d.by = m) \/ (\E e \in edits : e.by = m)

MayCorrect(m) == Role[m] # "staff"     \* appointments.correct
MayCancel(m) == Role[m] # "staff"      \* appointments.cancel
MayDelete(m) == Role[m] = "owner"      \* settings.manage

\* findConflicts: the engine compares windows on the same calendar day, and
\* derives every one of them from the buffers of the moment.
EngineConflict(others, r) ==
    \E b \in others :
        /\ Active(appt[b])
        /\ Day(appt[b].start) = Day(r.start)
        /\ SameStaffOrResource(r.place, appt[b].place)
        /\ RangesOverlap(WindowNow(r), WindowNow(appt[b]))

SlotAvailable(others, r) == r.start \in OpenStarts /\ ~EngineConflict(others, r)

\* assertStatusChange; the last disjunct is a time zone nobody could read.
StatusChangeAllowed(m, before, to) ==
    /\ IsHistoryCorrection(before.status, to) => MayCorrect(m)
    /\ \/ CheckStatusTransition(before.status, to, before.start, now)
       \/ TransitionWhateverTheTime(before.status, to)

OccupiesNewSlot(before, r) ==
    \/ r.start # before.start
    \/ r.length # before.length
    \/ r.service # before.service
    \/ r.place # before.place
    \/ Active(r) /\ ~Active(before)

-----------------------------------------------------------------------------
(* Members of the business                                                 *)

Draft == [by : Sessions, row : {r \in Row : r.status \in Statuses /\ r.source = "user"}]

\* createAppointment: the checks, then the insert.
CheckNew(m, status, s, p, start, length) ==
    LET r == NewRow(status, "user", s, p, start, length) IN
    /\ ~Busy(m)
    /\ CheckInitialStatus(status, start, now) \/ InitialWhateverTheTime(status)
    /\ SlotAvailable(Appts, r)
    /\ drafts' = drafts \cup {[by |-> m, row |-> r]}
    /\ UNCHANGED <<appt, claimed, buffers, now, edits>>

InsertNew(d, a) ==
    /\ appt[a].status = "none"
    /\ UpdateRow(a, d.row)
    /\ drafts' = drafts \ {d}
    /\ UNCHANGED <<claimed, buffers, now, edits>>

\* A change in progress: what was read of the row, the fields the patch sets
\* and the merge of both that the rules look at.
Snapshot == [status : Statuses, service : Services, place : Places,
             start : Starts, length : Lengths]

Edit == [by : Sessions, op : {"update", "move", "cancel", "remove"},
         step : {"read", "checked", "reread"}, appt : Appts, before : Snapshot,
         fields : SUBSET Fields, to : Snapshot]

Seen(a) == [status |-> appt[a].status, service |-> appt[a].service,
            place |-> appt[a].place, start |-> appt[a].start, length |-> appt[a].length]

BeginEdit(m, a, op, fields, to) ==
    /\ ~Busy(m) /\ Live(a)
    /\ edits' = edits \cup {[by |-> m, op |-> op, step |-> "read", appt |-> a,
                             before |-> Seen(a), fields |-> fields, to |-> to]}
    /\ UNCHANGED <<appt, claimed, buffers, now, drafts>>

\* The edit form sends every field it shows, changed or not; a quick action
\* sends one.
ReadForUpdate(m, a, fields, to) ==
    /\ to.status \in AskedStatuses \cup {appt[a].status}
    /\ \A f \in Fields \ fields : to[f] = Seen(a)[f]
    /\ BeginEdit(m, a, "update", fields, to)

ReadForMove(m, a, start) ==
    BeginEdit(m, a, "move", {"start"}, [Seen(a) EXCEPT !.start = start])

ReadForCancel(m, a) ==
    /\ MayCancel(m)
    /\ appt[a].status # "cancelled"
    /\ BeginEdit(m, a, "cancel", {"status"}, [Seen(a) EXCEPT !.status = "cancelled"])

ReadForRemove(m, a) ==
    /\ MayCancel(m)
    /\ BeginEdit(m, a, "remove", {}, Seen(a))

\* Mutant: an edit is checked for its slot alone.
UpdateRulesOfTheSlot(e) ==
    OccupiesNewSlot(e.before, e.to) /\ Active(e.to) => SlotAvailable(Appts \ {e.appt}, e.to)

\* What each operation verifies against the row it read and the other rows.
UpdateRules(e) ==
    /\ StatusChangeAllowed(e.by, e.before, e.to.status)
    /\ OccupiesNewSlot(e.before, e.to) /\ Active(e.to)
           => SlotAvailable(Appts \ {e.appt}, e.to)

\* Mutant: anything may be moved.
MoveRulesOfTheSlot(e) == SlotAvailable(Appts \ {e.appt}, e.to)

MoveRules(e) ==
    /\ Active(e.before) /\ e.before.status \notin HistoryStatuses
    /\ SlotAvailable(Appts \ {e.appt}, e.to)

CancelRules(e) == StatusChangeAllowed(e.by, e.before, "cancelled")

\* getDeleteBlockers reads the source of the row again.
RemoveRules(e) ==
    /\ MayDelete(e.by)
    /\ e.before.status \notin HistoryStatuses
    /\ Live(e.appt) /\ appt[e.appt].source = "user"

CheckEdit(e) ==
    /\ e.step = "read"
    /\ \/ e.op = "update" /\ UpdateRules(e)
       \/ e.op = "move" /\ MoveRules(e)
       \/ e.op = "cancel" /\ CancelRules(e)
       \/ e.op = "remove" /\ RemoveRules(e)
    /\ edits' = (edits \ {e}) \cup {[e EXCEPT !.step = "checked"]}
    /\ UNCHANGED <<appt, claimed, buffers, now, drafts>>

\* repo.update reads the row once more, for the time or the length the patch
\* does not send.
Reread(e) ==
    /\ e.step = "checked" /\ e.op # "remove"
    /\ Live(e.appt)
    /\ LET r == appt[e.appt] IN
       edits' = (edits \ {e}) \cup
            {[e EXCEPT !.step = "reread",
                       !.to = [e.to EXCEPT
                           !.start = IF "start" \in e.fields THEN e.to.start ELSE r.start,
                           !.length = IF "length" \in e.fields THEN e.to.length ELSE r.length]]}
    /\ UNCHANGED <<appt, claimed, buffers, now, drafts>>

\* Start and end are stored together, so a patch with one of the time and the
\* length also writes the other, as it was read.
SetsTimes(e) == e.fields \cap {"start", "length"} # {}

\* The columns of the patch over the row as it is when it is written.
Patched(e) ==
    LET r == appt[e.appt] IN
    [r EXCEPT !.status = IF "status" \in e.fields THEN e.to.status ELSE r.status,
              !.service = IF "service" \in e.fields THEN e.to.service ELSE r.service,
              !.start = IF SetsTimes(e) THEN e.to.start ELSE r.start,
              !.length = IF SetsTimes(e) THEN e.to.length ELSE r.length,
              !.place = IF "place" \in e.fields THEN e.to.place ELSE r.place]

\* Mutant: without the trigger only the server's check of the row it read remains.
HistoryGuardMissing(m, old, new) == TRUE

\* guard_appointment_history, on every write of the status column.
HistoryGuard(m, old, new) ==
    old.status \in CorrectionSources /\ new.status # old.status => MayCorrect(m)

WriteEdit(e) ==
    /\ e.step = "reread"
    /\ Live(e.appt)
    /\ HistoryGuard(e.by, appt[e.appt], Patched(e))
    /\ UpdateRow(e.appt, Patched(e))
    /\ edits' = edits \ {e}
    /\ UNCHANGED <<claimed, buffers, now, drafts>>

\* Mutant: the guard forgets that the row may have become a visit meanwhile.
DeleteGuardNoHistory(a) == appt[a].source = "user" /\ a \notin claimed

\* guard_appointment_delete, on every delete.
DeleteGuard(a) ==
    /\ appt[a].status \notin HistoryStatuses
    /\ appt[a].source = "user"
    /\ a \notin claimed

DeleteRow(e) ==
    /\ e.step = "checked" /\ e.op = "remove"
    /\ Live(e.appt) /\ DeleteGuard(e.appt)
    /\ appt' = [appt EXCEPT ![e.appt] = [Blank EXCEPT !.status = "deleted"]]
    /\ edits' = edits \ {e}
    /\ UNCHANGED <<claimed, buffers, now, drafts>>

\* Refused, failed or lost: nothing was written.
Drop(m) ==
    /\ Busy(m)
    /\ drafts' = {d \in drafts : d.by # m}
    /\ edits' = {e \in edits : e.by # m}
    /\ UNCHANGED <<appt, claimed, buffers, now>>

-----------------------------------------------------------------------------
(* The surroundings and the specification                                  *)

SetServiceBuffers(s, buf) ==
    /\ buffers' = [buffers EXCEPT ![s] = buf]
    /\ UNCHANGED <<appt, claimed, now, drafts, edits>>

Tick ==
    /\ now < MaxTime
    /\ now' = now + 1
    /\ UNCHANGED <<appt, claimed, buffers, drafts, edits>>

Init ==
    /\ appt = [a \in Appts |-> Blank]
    /\ claimed = {}
    /\ buffers \in [Services -> BufferChoices]
    /\ now = 0
    /\ drafts = {}
    /\ edits = {}

ClientNext ==
    \E a \in Appts :
        \/ \E s \in Services, p \in Places, t \in Starts : CreatePublicBooking(a, s, p, t)
        \/ ClaimBooking(a)
        \/ CancelMyBooking(a)
        \/ \E p \in Places, t \in Starts : RescheduleMyBooking(a, p, t)

MemberNext ==
    \/ \E m \in Sessions, st \in AskedStatuses, s \in Services, p \in Places,
          t \in Starts, n \in Lengths : CheckNew(m, st, s, p, t, n)
    \/ \E d \in drafts, a \in Appts : InsertNew(d, a)
    \/ \E m \in Sessions, a \in Appts :
           \/ \E f \in Patches, to \in Snapshot : ReadForUpdate(m, a, f, to)
           \/ \E t \in Starts : ReadForMove(m, a, t)
           \/ ReadForCancel(m, a)
           \/ ReadForRemove(m, a)
    \/ \E e \in edits : CheckEdit(e) \/ Reread(e) \/ WriteEdit(e) \/ DeleteRow(e)
    \/ \E m \in Sessions : Drop(m)

Next ==
    \/ ClientNext
    \/ MemberNext
    \/ \E s \in Services, buf \in BufferChoices : SetServiceBuffers(s, buf)
    \/ Tick

Spec == Init /\ [][Next]_vars

-----------------------------------------------------------------------------
(* Properties                                                              *)

TypeOK ==
    /\ appt \in [Appts -> Row]
    /\ claimed \subseteq Appts
    /\ buffers \in [Services -> BufferChoices]
    /\ now \in Times
    /\ drafts \subseteq Draft
    /\ edits \subseteq Edit

\* Two appointments that occupy the calendar never share a person or a resource
\* at the same moment, whoever wrote them and however their requests and the
\* buffers of the services interleaved (0011_booking_integrity.sql).
NoDoubleBooking ==
    \A a, b \in Appts :
        a # b /\ Active(appt[a]) /\ Active(appt[b])
              /\ SameStaffOrResource(appt[a].place, appt[b].place)
        => End(appt[a]) <= appt[b].start \/ End(appt[b]) <= appt[a].start

\* The stored busy window always belongs to the row's own start and length,
\* with buffers that were in force at some moment: a move never leaves the
\* window of the old time behind (set_appointment_busy_range).
WindowMatchesRow ==
    \A a \in Appts : Live(a) =>
        \E buf \in BufferChoices :
            appt[a].busy = BusyWindow(appt[a].start, appt[a].length, buf)

\* The requests that end in this step: the ones whose write succeeded, or lost.
Ended == edits \ edits'

StatusChanges(a) == Live(a) /\ Live(a)' /\ appt'[a].status # appt[a].status

\* A recorded outcome is changed only by a member who may correct history,
\* even when the request was allowed before the outcome was recorded: the
\* check made on the row read earlier is not what protects it
\* (guard_appointment_history, 0027).
OutcomesOnlyCorrected ==
    [][\A a \in Appts :
          StatusChanges(a) /\ appt[a].status \in CorrectionSources
          => \E e \in Ended : e.appt = a /\ MayCorrect(e.by)]_vars

\* A row disappears only if it was entered by mistake in the business app: no
\* visit took place, no client account holds it, and the member who deletes it
\* is an owner, whatever happened to the row after it was checked
\* (guard_appointment_delete, 0027; getDeleteBlockers).
OnlyMistakesDeleted ==
    [][\A a \in Appts :
          Live(a) /\ ~Live(a)'
          => /\ appt[a].source = "user" /\ a \notin claimed
             /\ appt[a].status \in {"pending", "confirmed", "cancelled"}
             /\ \E e \in Ended : e.appt = a /\ Role[e.by] = "owner"]_vars

\* The table implements the abstract calendar of holds: every write of anyone
\* takes, replaces or releases the hold of ONE booking, never onto another's.
Calendar == INSTANCE SlotCalendar WITH
    Bookings <- Appts, Windows <- BusyWindows,
    holds <- {[id |-> a, place |-> appt[a].place, busy |-> appt[a].busy] :
                 a \in {b \in Appts : Active(appt[b])}}

ImplementsCalendar == Calendar!Spec

-----------------------------------------------------------------------------
(* What comments and documents say and stale reads break                   *)

\* A change the table allows at some time of the day.
OnTheTable(from, to) ==
    \E started, today \in BOOLEAN : TransitionRule(from, to, started, today)

\* "THE status-transition rules (UI and server use the same function, the
\* server is authoritative)" (statusRules.ts): each change of a status is one
\* the table allows.
TransitionsFollowTheTable ==
    [][\A a \in Appts :
          StatusChanges(a) => OnTheTable(appt[a].status, appt'[a].status)]_vars

\* Only that stale read breaks it: a member's write that takes a status off the
\* table had read another one, and no client's write ever does
\* (assertStatusChange; cancel_my_booking, reschedule_my_booking).
OffTheTableOnlyIfStale ==
    [][\A a \in Appts :
          StatusChanges(a) /\ ~OnTheTable(appt[a].status, appt'[a].status)
          => \E e \in Ended : e.appt = a /\ e.before.status # appt[a].status]_vars

\* "Only an upcoming active appointment can be moved; a past outcome stays
\* where it happened" (moveAppointment).
OutcomesAreNotMoved ==
    [][\A a \in Appts :
          Live(a)' /\ appt[a].status \in CorrectionSources /\ appt'[a].start # appt[a].start
          => ~\E e \in Ended : e.appt = a /\ e.op = "move"]_vars

\* Only that: the outcome was recorded after the request had read the row.
OutcomesMovedOnlyIfStale ==
    [][\A a \in Appts : \A e \in Ended :
          /\ Live(a)' /\ appt[a].status \in CorrectionSources /\ appt'[a].start # appt[a].start
          /\ e.appt = a /\ e.op = "move"
          => e.before.status # appt[a].status]_vars

\* The times a member approves with a request: the one the row had when the
\* request was checked, if it sets the status, and the one it names.
TimesApproved(e) ==
    {t \in Starts : \/ "status" \in e.fields /\ t = e.before.start
                    \/ "start" \in e.fields /\ t = e.to.start}

\* An online booking of a business that confirms bookings itself stands
\* confirmed at a time at which it did not stand confirmed before.
GetsApproval(a) ==
    /\ ~AutoConfirm
    /\ appt'[a].source = "public" /\ appt'[a].status = "confirmed"
    /\ appt[a].status = "confirmed" => appt'[a].start # appt[a].start

\* "A moved booking needs the business's approval again unless it confirms
\* automatically" (reschedule_my_booking): the approval of one time never
\* counts for another, so a member approved each time at which an online
\* booking comes to stand confirmed.
ConfirmedByBusiness ==
    [][\A a \in Appts :
          GetsApproval(a)
          => \E e \in Ended : e.appt = a /\ appt'[a].start \in TimesApproved(e)]_vars

\* Only stale reads break it: a client's write never confirms a booking, and a
\* member's write confirms a time that was not approved only if the row no
\* longer has the time of one of the request's two reads, the one that was
\* checked or the one repo.update computes start and end from.
UnapprovedOnlyIfMoved ==
    [][\A a \in Appts :
          GetsApproval(a)
          => \E e \in Ended :
                /\ e.appt = a
                /\ \/ appt'[a].start \in TimesApproved(e)
                   \/ appt[a].start # e.before.start
                   \/ appt[a].start # e.to.start /\ "start" \notin e.fields]_vars
=============================================================================
