# Formal models of ServiceOS (AI Reception)

ServiceOS is a booking platform for service businesses: a Next.js server
(`src/src/server`), its rules (`src/src/features`) and a Postgres database whose
functions, triggers and constraints carry most of the integrity
(`src/supabase/migrations`). Several writers share every table: guests, signed-in
clients, members of the business, the daily clean-up and the database's own
triggers. These modules model who may change what in which order, check it with
TLC on small instances and prove the main results with TLAPS.

## Inventory

Every component, its status and the reason is in `PROJECT.json`; the ones with
behaviour of their own:

| component | state | operations | what is hard | what makes it correct |
|---|---|---|---|---|
| appointments (business side) | `appointments` | create, update, move, cancel, remove | each reads, checks, writes by id: stale reads | no double booking; outcomes and history are protected |
| public and client bookings | `appointments`, `booking_claims` | book, claim, cancel, reschedule | race with members; deadlines; approval | a client's write never confirms; the approval of one time counts for another only after a stale read |
| booking integrity (SQL) | busy windows | triggers, exclusion constraints, guards | buffers change between writes | a window belongs to its row; active windows never clash |
| slot engine | none (reads all) | offered slots, re-check on booking | answers are stale when used | what it offers is bookable when nothing changed |
| external calendar cache | `external_calendar_connections` | load, claim, fetch, save, fail, connect, choose, disconnect, clean up | work across awaits, lost answers, crashes, reconnects | freshness policy; a withdrawal blocks |
| external calendar grants | links (invites), connections of all accounts | issue, consume, connect, disconnect, deactivate, release, clean up | two systems, no transaction | a live connection keeps its grant, the last one gives it back, a deactivated person ends without one |
| invoices | `invoices`, items, payments, the year's counter | create, edit lines, pay, void, issue, cancel | triggers that recompute; concurrent payments; stale balances | paid, total and status agree; numbers unique and gapless |
| work pipeline | leads, quotes, jobs, projects | convert, accept, attach, edit by hand | retries, two people converting, rows hidden from one of them | one quote per lead, one job per quote, at the quote's price |
| working hours, time off | rules per person | replace, add, remove | overlap; bookings under way | no overlapping hours |
| waiting list, inbox | entries, events, what points at an appointment | add, link, delete; snapshot, forget | triggers, duplicates, deletions under way | every move is told once; the Inbox forgets a deleted client; no link is cut |
| rate limits | counters | hit | window boundary | at most `limit` hits a window |
| workspaces, access, provisioning | memberships | invite, provision | row policies | not modelled: predicates on one row |
| user interface, widget, mobile, mock data | - | - | - | not modelled: presentation |

Interactions. The slot engine reads appointments, working hours and the external
busy time and tells a guest what is free; `create_public_booking` re-checks in its
transaction; the exclusion constraints have the last word. Members go through
`appointments.service.ts`, which reads a row, applies `statusRules.ts` and the
engine's conflict check, and writes through the repository; triggers derive the
busy window and guard history. Busy time from Google reaches both paths only
through `loadExternalBusy`. `CalendarCache` and `ExternalGrants` look at the same
connection row from two sides: one person's row with the clock, and all rows of a
Google account without it. Every change of an appointment is also a step of
`BookingTrail`, where its triggers write the Inbox; an accepted quote's job becomes
an invoice, whose money is the matter of `Invoices`.

## Modules

| module | models |
|---|---|
| `StatusRules` | `statusRules.ts`, `statusMeta.ts`: which status may follow which, when |
| `SlotCalendar` | the promise of the booking engine: holds that never clash |
| `Bookings` | the appointments table and all its writers, with the database's guards inside every write |
| `BookingsProofs` | theorems about `Bookings` |
| `CalendarCache` | one person's connection row and the loads that refresh it |
| `CalendarCacheProofs` | theorems about `CalendarCache` |
| `ExternalGrants` | connect links, connections and the Google grants behind them |
| `ExternalGrantsProofs` | theorems about `ExternalGrants` |
| `Ledger` | the promise of the invoices about money: charged only while open, final when closed |
| `Invoices` | invoices, lines, payments and numbers, with the triggers of 0022 and the services |
| `InvoiceSums` | what the sum of a finite set of rows is and how it changes with the set, proved by induction on the set |
| `InvoicesProofs` | theorems about `Invoices` |
| `WorkPipeline` | leads, quotes, jobs and projects, and the conversions between them |
| `WorkPipelineProofs` | theorems about `WorkPipeline` |
| `BookingTrail` | the Inbox, the links to an appointment and the deletion of appointments and clients |
| `BookingTrailProofs` | theorems about `BookingTrail` |
| `MCBookings`, `MCCalendarCache`, `MCExternalGrants`, `MCInvoices`, `MCWorkPipeline`, `MCBookingTrail` | the instances TLC checks |

### Bookings

`appt[a]` is the row of appointment `a`; `claimed` the rows with a client account;
`buffers` the services' buffers now; `drafts` the new appointments a member's
request has checked and not yet inserted; `edits` what each running change
remembers: who, which operation, the fields it sends, and the row **as it read it**.

- `CreatePublicBooking`, `ClaimBooking`, `CancelMyBooking`, `RescheduleMyBooking`
  are one action each, because each SQL function is one transaction.
- `CheckNew` then `InsertNew` is `createAppointment`. A change is `ReadForUpdate`,
  `ReadForMove`, `ReadForCancel` or `ReadForRemove`, then `CheckEdit` (the rules on
  the copy), `Reread` (the repository's second read, from which it computes start and
  end when the update sets either, `SetsTimes`; the fields stay those the caller sent)
  and `WriteEdit` or `DeleteRow`. Anything may happen in between, and `Drop` ends a
  request at any point.
- `UpdateRow` and `WriteRow` are what the database does to every write: the window is
  recomputed from the buffers of the moment, whatever columns are set, the row must
  not clash with any other active one, and the guards of `0027` must agree.

The abstract specification is `SlotCalendar`; `Calendar` in `Bookings` maps every
active row to a hold and `ImplementsCalendar` states the refinement.

### CalendarCache

`row` is the connection (or `Absent`); a load is a record that keeps the copy of
the row it read (`conn`) and goes through `called`, `claiming`, `fetching`,
`saving` or `failing`, `answered` -- one step per await of `resolveConnection`.
Busy time is represented by the moment it was asked for and the calendars it was
asked of. Google is external: it answers, fails, or says that the token is
withdrawn (`withdrawn` is the newest token dead at Google; Google withdraws all of
an account's tokens together). The history variable `blocked` and the loads'
`wasBlocked` exist only for `WithdrawalBlocks`. Server and database clocks agree.
A period beyond the cached window is the mode `beyond`: it asks and stores nothing.

### ExternalGrants

`conn[s]` is the connection row of a person, `links` the connect links by number,
`issued` and `dead` what Google knows of an account's tokens: they are numbered, and
revoking a live one voids all given so far (`service.ts:305`). The subject of a row
is its account's hash, or `Unknown` in rows older than `0026`. A request is a record
of what it has read: a connect goes `consenting`, `listing`, `consuming`, `reading`,
`looking`, `writing` (the awaits of `completeConnect` and `upsertConnection`); every
removal is `removing`, `releasing`, `revoking` (`deleteConnection`, then the list and
the revocation of `releaseGrant`), one connection after the other for "disconnect
all" and the clean-up. `Abandon` is a crash, a lost connection or a closed browser at
any of these points; `RevokeFails` is Google not answering. Loads appear only for
what they write into the row (`SaveBusy`, `SaveRevoked`), by id and from a copy.

A consent that `exchangeCode` turns down after the person gave it (a scope missing, no
refresh token, no identity: `googleProvider.ts:144-149`) is a flow that ends there,
`Abandon`: its grant is left behind in an ordinary course, without any failure.

Left out: which of these refusals it was, tokens that cannot be decrypted after a
change of the key, the deletion of old links (refused before and after).

### Invoices

A write of an invoice locks its row and, after that, reads lines and payments afresh,
so all a transaction does under the lock is one action (`Recomputed` is the trigger
in it). What was read before the lock stays in the request: the balance of "mark as
paid" (`ReadInvoice`, `ReadPayments`, `PayBalance`), the old lines of
`replace_invoice_items`, the payments `void_invoice_payments` is about to take, the
draft that is issued. `DrawNumber` takes the next number and holds the counter until
`CreateInvoice` or a rollback. `ImportInvoice` brings an invoice with a number made by
hand, which the counter skips.

The abstract specification is `Ledger`; `KeepsTheLedger` maps an invoice to an account
with the sums of its lines and of its active payments. Left out: the year in the
number (one year is modelled), "overdue" (derived when reading), currency, bucket and
texts, and rows edited outside the functions of `0022`.

### WorkPipeline

`lead`, `quote`, `job` and `project` are the rows, `private` standing for everything
`can_see_work_row` may refuse to a member who is not an owner. A conversion goes
`locked`, then `insert` (or `found`), then `audit`: one step per statement that
another transaction can come between, since only the source row is locked. It keeps
the row as it was read at the lock. `Fails` rolls back; `Lose` is a server or a
connection that goes away, before the commit or between it and the audit entry.
Rows entered and edited by hand are single statements and wait for locks; owners can
make every edit members can. `contacted` counts as `new`, `sent` as `draft`.

Left out: job and project status, clients (a mismatch is a refusal that may happen),
lines of quotes but their total, dates, buckets beyond `private`.

### BookingTrail

`appt`, `invoice`, `entry` and `clients` are the rows, `events` the Inbox. A
transaction whose statements another may come between holds its locks in `call`:
`Change` locks the appointment and `CommitChange` writes it together with its event
(or without it, when the event cannot be stored: `missed`); `LockToDelete` runs the
delete guard under the lock, `Delete` removes the row; `LockToErase` locks the client
and clears the events it sees, `Erase` removes the client and what hangs on it. A
foreign key takes a share of the row it names, which is what `MayName` and `MayPoint`
say. `LookToDelete` is the service's own look for blockers, long before the lock.

Left out: read marks, who made the change, guests' names, an entry's own fields and
status, and online bookings' claims (`guard_appointment_delete` refuses those rows by
their source). The app itself never deletes a client; the trigger is there for the
database's operators and for workspaces that are removed.

## Runs

| run | question | result |
|---|---|---|
| `two` | two rows, two people sharing a chair, guests, the client and an owner, buffers changing: can anybody be double-booked? does a window always belong to its row? is each write a step of the abstract calendar? | never; yes; yes |
| `race` | one row, its client, an owner and a staff member: do stale checks get past the guards on outcomes and deletion? does anything but a stale read break the table of transitions, move an outcome or confirm an unapproved time? | no; no |
| `table` | is every change of status one the table allows? | **violated**: the check is made on an older row |
| `moved` | does `moveAppointment` leave outcomes where they are? | **violated**, same reason |
| `approval` | did a member approve each time at which an online booking stands confirmed? | **violated**: the client moved it between the check and the write |
| `fresh` | two loads, a reconnect, a withdrawal, crashes, lost answers: is the stamp honest, every answer as fresh as the policy, a withdrawal final? does anything but a late write mix choices or mark a living access as withdrawn? | yes; no |
| `choice` | does the cache always describe the chosen calendars? | **violated**: a late save |
| `reconnect` | is a connection marked withdrawn only when its newest access is? | **violated**: the old token's failure is written over the new one |
| `grants` | two people, two accounts, a link, disconnects, a deactivation, the clean-up, crashes: does one link open one connection, does a revocation cut off others, what is left behind, does a deactivated person's connection go? | once; only ones stored after the list; only by the named mishaps; yes, under fairness |
| `money` | two requests that read first, payments, edits, voidings, cancellations and rollbacks: do amount, status and numbers stay true, is the ledger's promise kept? | yes |
| `work` | three conversions, one by a member, edits by hand in between: one row, one maker, one audit entry, the quote's price? | yes |
| `trail` | an appointment moved, invoiced, linked and deleted while its client is deleted: is a deleted client forgotten, does the Inbox tell every move, is a link ever cut? | yes; yes, but for events the database had to give up; never |

The five violations are findings in `PROJECT.json`, each with the sentence of the
repository it contradicts. They have one shape: a decision taken on a copy, then a
write by id. Where the database repeats the check inside the write (guards,
constraints, the claim) the same interleavings are harmless, and that is what the
passing runs show. What each of the five breaks also has a passing counterpart
(`OffTheTableOnlyIfStale`, `OutcomesMovedOnlyIfStale`, `UnapprovedOnlyIfMoved`,
`OnlyLateSavesMixChoices`, `OnlyLateFailuresRevoke`): the step that breaks it is always
the write of a request that had read another status, time, choice or token, never
anything else. A fix that makes these five writes conditional on what was read would
therefore close the findings.

A member approves the time a write sets itself, or, when it sets the status, the time
of the row its check was made on (`TimesApproved`). The screen the member looked at may
be older still; the models say nothing of what was shown, so the claim is about the
server's own reads, the most favourable reading of the code.

Bounds. Two rows are enough for a clash, which is a relation between two; two people
who share one chair make the same person, and the chair alone, the reason of a clash;
places that do not compete are left to the proof. Two starts and two buffer settings
make adjacent, overlapping and disjoint windows: a wide buffer makes a window as long
as a longer service would. Services and lengths that differ are left to the proof
(`WindowsFitTheirRows`, `NeverDoubleBooked`). Instants 0..2 with a day of 2 give past,
present, same-day and next-day. Stale reads need a reader and one or two writers:
`race` has the client and two members, each of whom sends a status alone, a status
with a start (the form), or a length, with every number of edits among the distinct
ones the bounds name; `approval` has one member and the client, and needs only the
status and the length. `Lengths`, `Starts`, `AskedStatuses`, `Patches` and `MaxTime`
are the bounds; each cfg says which it narrows. In `race` an update asks for `confirmed`
or `no_show`; cancellations come from the operations that cancel. In `fresh`, two loads suffice to save
in the wrong order, to fail late and to lose a claim; instants 0..2 let a cache pass
through fresh, stale but usable, and too old, and let a claim expire; a second connect
is a reconnect with the same row or a new one. `choice` needs two calendars and only
one load.
`grants`: one person connected long ago and one link, two requests and the clean-up:
two browsers with one link, a reconnect with the same or another account, a second
person of the same account, a deactivation with a consent still to come. Two connects
that replace each other's rows need two links and are left to the proof. `money`: one
invoice with two lists of lines and two payments, where three sums (0, 1, 2) make
nothing, part and all of it paid, and a second invoice only for its number. `work`:
one lead, two quotes and two jobs (a second of each is what the indexes must refuse),
two amounts, two edits by hand (attaching a job to a project is not counted: doing it
again changes nothing), which is a change and its reversal during one
conversion; owners are alike, hence the symmetry. `trail`: one of everything, two
times and two statuses, two calls, and three transactions: booked, moved, moved back,
the shortest history in which a dedupe key without the transaction repeats.

Deadlock. The runs of `Bookings`, `CalendarCache`, `ExternalGrants` and `Invoices`
check it: a request that holds nothing can always start or end. `work` and `trail` do
not: every call is served once and the bounds on edits and transactions run out. Where
transactions wait for each other in a circle the database aborts one (`Abandon`,
`Lose`).

Fairness. Only `grants` assumes any, and only of the clean-up: as long as somebody is
due it is started again, and goes on to release and revoke (weak, for these steps
together), and it does not fail at the same connection every day for ever (strong, for
deleting the row of each person who may be deactivated, since a crash may disable it
again and again). The code
justifies it by `runExternalCalendarCleanup` catching every step's error and by the
daily schedule. No request of a person is obliged to go on. `InactiveLoseTheirs`
needs no more: a consent given before the deactivation may still store a connection
afterwards, and a later run removes it. Without the strong fairness TLC shows a run
that fails at the same person every day.

## Proofs

`BookingsProofs` holds for all sets of rows, services, places and
members, all buffers, lengths and deadlines, under `BookingsAssumption` (the
constants have their types; lengths are positive; there is at least one of each)
and the numeric assumption of `StatusRules`.
The hinge is the lemma `StepsOfTheTable`: whatever the running requests remember, a
step leaves the table as it is, writes one row that fits its window through
`Excludes`, or empties one row. From it follow

- `TypeCorrect`;
- the inductive invariant `IInv` = types, every window fits its row, and active
  windows that compete do not overlap. `NoDoubleBooking` alone is not inductive: the
  constraints compare windows, not appointments, and only because each window covers
  its own row does their disjointness separate the appointments. Hence
  `WindowsFitTheirRows` and `NeverDoubleBooked`;
- `TableImplementsCalendar`, step by step on the same three cases;
- `OutcomesStay`, `MistakesOnly`, from the guards in the write and what is known of a
  running edit;
- `StaleStatusOnly`, `StaleMovesOnly`: with the invariant `Judged`, that whatever is
  about to be written was allowed by the table for the row **as it was read** (an update
  or a cancellation) or read as active (a move), a write off the table or onto an
  outcome needs a row that changed after it was read. The client's own writes read and
  write in one transaction and stay on the table by themselves;
- `StaleApprovalsOnly`: what a running edit carries is the copy it checked with the
  fields it sends replaced, so a write can confirm an unapproved time only over a row
  whose start is no longer that of the copy or of the second read.

`CalendarCacheProofs` holds for any number of loads, calendars and
connects and all time-outs, under `CalendarCacheAssumption`, of which only
`CommitTtl, BrowseTtl <= MaxStale` is more than a type. Its invariant `IInv` says
that every cache, in the row **and in each copy**, is at least as fresh as stamped;
that what is about to be saved was asked for after the load began; that a load past
its read is not a blocked one unless it answered "unconfirmed"; and that a recorded
withdrawal leaves a row without a token. The copies are why `CacheNoOlderThanItSays`
needs strengthening: `saveBusy` overwrites the row from a copy of any age. One lemma
for each action, and three (`QuietStep`, `WritingStep`, `OthersStep`) for what an
action leaves alone. Theorems: `TypeCorrect`, `HonestStamps`, `RecentAnswers`,
`BlockedStaysBlocked`. A second invariant on top, `LateInv`, says that a load saves what
it asked for the calendars it had read, that it works with a token that was there, that
a token refused as withdrawn is dead, and that the row holds the newest token or none.
Hence `LateSavesOnly` and `LateFailuresOnly`: the counterexamples of `choice` and
`reconnect` are the only kind there is.

`ExternalGrantsProofs` holds for any number of people, accounts, links and requests,
under `ExternalGrantsAssumption` (types, and that an old row names its own account or
none). `IInv` adds to the types what a request's fields mean at each step
(`RequestsFit`), that a row with a token is connected under the token's account
(`RowsFit`) and that a link with a winner, or with a row of its own, is used and never
has both (`LinksFit`): `LinksOpenOnce` alone says nothing of the row the winner goes
on to insert. `SingleUse` follows at once, `SettledOnesStay` from what a list of an
account's rows can and cannot contain, `LeftBehind` action by action: each step that
can take the last holder from a grant either carries it on or is one of the mishaps.

`InvoicesProofs`, under `InvoicesAssumption`, has two layers. `IInv` is enough for
`AmountsAgree`, `StatusTells` and `Gapless`, and it needs no arithmetic of sums beyond
that of the empty set: every write recomputes the sum it leaves, and the guards compare
that very sum. It says that an invoice without a row owns nothing and that one request
at a time holds the next number (`Drawn`): numbers are gapless only because whoever has
drawn one either commits it or gives it back. `Solid`, on top, says that rows have their
types and lines and payments are finite sets, that payments are told apart by their ids,
and that a cancelled invoice holds no money. With it `TypeCorrect`, and
`InvoicesKeepTheLedger`: every step of `Invoices` is one step of `Ledger` on one account
or leaves all accounts alone (`AccountMoves`, and a lemma for each kind of write). A
payment raises what is paid, a voiding lowers it, new lines bring the total to the new
sum: these are facts about sums over sets, proved in `InvoiceSums` from the definition
of the fold (whose order a CHOOSE decides) by induction on finite sets. The library's
induction theorems take the predicate as a parameter and cannot be cited;
`SubsetInduction` states the same for a *set* of subsets, as a least counterexample of
a well-founded order, and can. `ClosedAreFinal` draws the consequence for an invoice: a
cancelled one keeps its lines and payments for ever, a paid one its lines until a
payment is taken back.

`WorkPipelineProofs`, under `PipelineAssumption`: `IInv` says of every call inside its
transaction that its copy is the row (the lock), of each source that one call at most
is inside (`Exclusive`), of answered calls which row they name, and that lead and quote
have one row each (`OneEach`). `QuotesStayAccepted` needs the lock and the index
together: the guard trigger looks for a job that is not there yet, but the quote cannot
be edited while one is being made. From `IInv` also `RetriesAreSafe`,
`OneRowPerSource`, `OneEntryPerRow` and `JobsFollowTheirQuote`.

`BookingTrailProofs`, under `TrailAssumption`: while a client is being deleted no event
that names it is stored, so what was cleared is all there is (`Seen`); while an
appointment is being deleted nothing points at it and nothing is being written that
will (`Alone`). Hence `DeletedAreForgotten` and `NothingCutOff`. `MovesLeadThere`
(`MovesAddUp` for any number of appointments, times and transactions) counts: for each
time, the events that lead to it and those that lead away from it (`Arrivals`,
`Departures`). `MovesInv` adds to the balance what keeps it countable -- every event is
older than the transaction that is still to come (`Dated`), no two events of an
appointment share a key (`OneOfAKey`), and an appointment nobody has booked has no
events (`Untold`) -- so that a change always stores its event as a new one and moves
the balance with the row, and clearing a client's name replaces events one for one.

Each of these modules proves its types too (`TypeCorrect`): every invariant and every
action property that a passing run checks is a theorem, and so are both refinements.

Only model-checked: that the counterexamples of the five findings exist, and
`InactiveLoseTheirs`. Liveness under fairness and `ENABLED` are out of the prover's
reach; no module here needs a recursive definition.

## What the models show of the code, and no property forbids

Met while modelling; each is in the actions as the code has it.

- `releaseGrant` lists the account's connections and then revokes: one stored in
  between loses its access (`SettledKeepTheirGrant` is about the others).
  `EXTERNAL_CALENDAR.md:87-92` speaks of the last connection only.
- "Disconnect all" keeps the first token it meets; if a row changed its account
  meanwhile, that token is of another account than the one it counts rows of.
- A clean-up that listed a person who was reactivated afterwards still removes the
  connection.
- Two `replace_invoice_items` at once both delete the same old lines and both leave
  their new ones (`migration0022.test.ts:228-230` expects the second list only, for two
  calls in a row). The amount is right for the lines that are there.
- `guard_invoice_write` counts `client_id` and `appointment_id` in the lock of a
  cancelled invoice (`0022:251-256`) although both are set null by their foreign keys:
  a client with a cancelled invoice cannot be deleted, while the comment at `0022:249`
  and `BOOKING_STATUSES_AND_INBOX.md:76` say that such deletions go through.
- A member who may not see a lead's quote, or a quote's job, is answered with a
  conflict by the unique index, not with the existing row
  (`BUSINESS_OPERATIONS.md:28`); if the lead is hidden, accepting leaves it not won.
- `accept_quote_create_job` puts an existing job into the project it was given by a
  look taken before; a project created for the job meanwhile is overwritten.
- A server that dies between a conversion and its audit entry leaves none, and the
  retry, answered "existing", writes none (`work.service.ts:41-42` promises one).
- Two accounts that present one claim token at once both pass the check of
  `claim_booking` (`0018:126`); both are told yes and the second keeps the booking.
- Two members who book one waiting list entry overwrite each other's link.

## Plan

Done: the core (`Bookings`, `CalendarCache`), then `ExternalGrants`, `Invoices` with
`Ledger`, `WorkPipeline`, and the trail of a booking. Left, in this order, and why it
comes last:

1. `Availability`: what the slot engine offers from hours, time off, appointments and
   busy time, against a reference definition; it decides what is asked for, and
   `Bookings` shows that what is taken does not depend on it.
2. `BookingClaims`: the two statements of `claim_booking` and the account that ends up
   with the booking.
3. The rest of the waiting list (status and contact fields) and the events of work and
   finance, which reach the Inbox through the same `record_inbox_event`.

## Not modelled

Rate limits: one atomic upsert of a counter, in which nothing interleaves. Working
hours, time off and resources: they restrict the offered slots. Workspaces,
membership, provisioning, clients, analytics and the catalogue: reads and single-row
writes behind row policies. Names, notes, prices of services, the audit log (but for
conversions) and all wording; row-level policies, except where a hidden row changes
the outcome (`WorkPipeline`, the delete guard); encryption, sealed cookies and HTTP; time zones (an instant is a number, a
day a run of `DayLength` instants); sign-in, which is Supabase's; the user interface,
widget and mobile app, except that the appointment form sends the status it showed.
Bookings takes working hours as the set `OpenStarts`; external busy time reaches it
as a request that may be dropped.

## Running

    tlc -workers 2 -config MCBookings_two.cfg MCBookings.tla
    tlapm BookingsProofs.tla

`two`, `race`, `fresh`, `grants` and `money` take two to three minutes each with two workers,
the others at most one; each proof module takes one to four minutes.
