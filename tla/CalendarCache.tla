---------------------------- MODULE CalendarCache ----------------------------
(***************************************************************************)
(* The external calendar of one staff member: the row that holds its       *)
(* token, its chosen calendars and the cached busy time, and the booking   *)
(* requests that load busy time through it at the same time                *)
(* (src/src/server/externalCalendar/service.ts and store.ts).              *)
(*                                                                         *)
(* A load reads the row ONCE and goes on with that copy across every       *)
(* await: the claim, the call to Google and the write of the result, which *)
(* goes by the row's id and overwrites whatever happened meanwhile -- a    *)
(* new choice of calendars, a reconnect, a recorded withdrawal.            *)
(*                                                                         *)
(* Abstractions. Busy time is the moment it describes and the calendars it *)
(* was asked for. Every requested period is either inside each cached      *)
(* window or "beyond" it. Server and database agree on the time. Google is *)
(* external: it answers, fails, or says the token is withdrawn.            *)
(***************************************************************************)
EXTENDS Integers

CONSTANTS
    Loads,         \* busy-time loads running at the same time
    Calendars,     \* calendars of the person's account
    Primary,       \* the one selected when connecting
    MaxConnects,   \* bound: connects in the life of the model
    MaxTime,       \* bound: the last instant of the model
    BrowseTtl, CommitTtl, MaxStale, Backoff, ClaimLife,   \* policy.ts
    Retention      \* a cache not refreshed for longer is cleared

ASSUME CalendarCacheAssumption ==
    /\ Primary \in Calendars
    /\ {MaxConnects, MaxTime, BrowseTtl, CommitTtl, MaxStale,
        Backoff, ClaimLife, Retention} \subseteq Nat
    /\ CommitTtl <= BrowseTtl /\ BrowseTtl <= MaxStale

Times == 0..MaxTime
Never == -1
Stamps == Times \cup {Never}

\* Modes of a load; one for a period outside the cached window is "beyond".
Modes == {"browse", "commit", "beyond"}

Ttl(mode) == IF mode = "commit" THEN CommitTtl ELSE BrowseTtl

VARIABLES
    row,         \* the connection, Absent when there is none
    connects,    \* connects so far; the newest token has this number
    withdrawn,   \* tokens up to this number are dead at Google
    loads,       \* what each load has done and holds
    blocked,     \* history: a withdrawal was recorded and nobody reconnected
    now          \* the clock

vars == <<row, connects, withdrawn, loads, blocked, now>>

-----------------------------------------------------------------------------
(* The connection row                                                      *)

\* Busy time: when Google was asked, for which calendars.
Content == [asOf : Stamps, calendars : SUBSET Calendars]
Nothing == [asOf |-> Never, calendars |-> {}]

Cache == [fetchedAt : Stamps, content : Content]
NoCache == [fetchedAt |-> Never, content |-> Nothing]

Connection == [id : 0..MaxConnects, token : 0..MaxConnects,
               status : {"connected", "error", "revoked"},
               calendars : SUBSET Calendars, cache : Cache,
               claimedAt : Stamps, errorAt : Stamps]

\* id 0 is no connection at all, token 0 one whose token was wiped.
Absent == [id |-> 0, token |-> 0, status |-> "connected", calendars |-> {},
           cache |-> NoCache, claimedAt |-> Never, errorAt |-> Never]

\* CACHE_RESET
WithoutCache(r) == [r EXCEPT !.cache = NoCache, !.claimedAt = Never]

\* Mutant: the result is stamped with the time it is saved at.
SavedStampedNow(r, l) ==
    [r EXCEPT !.status = "connected", !.claimedAt = Never, !.errorAt = Never,
              !.cache = [fetchedAt |-> now, content |-> l.got]]

\* The row after saveBusy.
Saved(r, l) ==
    [r EXCEPT !.status = "connected", !.claimedAt = Never, !.errorAt = Never,
              !.cache = [fetchedAt |-> l.started, content |-> l.got]]

\* Mutant: a withdrawn connection keeps its token.
FailedTokenKept(r, l) ==
    [r EXCEPT !.status = IF l.code = "revoked" THEN "revoked" ELSE "error",
              !.claimedAt = Never, !.errorAt = l.started]

\* Mutant: the error code is stored as the status.
FailedCodeAsStatus(r, l) ==
    [r EXCEPT !.status = l.code, !.claimedAt = Never, !.errorAt = l.started]

\* Mutant: every failure counts as a withdrawal.
FailedAlwaysRevoked(r, l) ==
    [WithoutCache(r) EXCEPT !.status = "revoked", !.token = 0,
                            !.calendars = {}, !.errorAt = l.started]

\* The row after saveFailure: a withdrawal wipes all but the status.
Failed(r, l) ==
    IF l.code = "revoked"
    THEN [WithoutCache(r) EXCEPT !.status = "revoked", !.token = 0,
                                 !.calendars = {}, !.errorAt = l.started]
    ELSE [r EXCEPT !.status = "error", !.claimedAt = Never, !.errorAt = l.started]

-----------------------------------------------------------------------------
(* One load of busy time                                                   *)

\* Status, claim and backoff of the row are not looked at again.
Copy == [id : 0..MaxConnects, token : 0..MaxConnects,
         calendars : SUBSET Calendars, cache : Cache]
CopyOf(r) == [id |-> r.id, token |-> r.token, calendars |-> r.calendars, cache |-> r.cache]

Load == [step : {"idle", "called", "claiming", "fetching", "saving", "failing",
                 "asking", "answered"},
         mode : Modes, started : Times,
         conn : Copy,             \* what it keeps of the row it read
         wasBlocked : BOOLEAN,    \* history: `blocked` when it was read
         code : {"none", "revoked", "failed"},
         got : Content,           \* what Google said, or what it answers with
         kind : {"none", "free", "busy", "unconfirmed"},
         cached : BOOLEAN]        \* is the answer the cache's?

IdleLoad == [step |-> "idle", mode |-> "browse", started |-> 0, conn |-> CopyOf(Absent),
             wasBlocked |-> FALSE, code |-> "none", got |-> Nothing,
             kind |-> "none", cached |-> FALSE]

Answer(l, kind, content, cached) ==
    [l EXCEPT !.step = "answered", !.conn = CopyOf(Absent), !.code = "none",
              !.kind = kind, !.got = content, !.cached = cached]

Unconfirmed(l) == Answer(l, "unconfirmed", Nothing, FALSE)

\* Mutant: the fallback trusts whatever is cached.
UsableAnyAge(cache, started) == cache # NoCache

IsCacheFresh(cache, started, mode) ==
    cache # NoCache /\ started - cache.fetchedAt <= Ttl(mode)

IsCacheUsableWhenStale(cache, started) ==
    cache # NoCache /\ started - cache.fetchedAt <= MaxStale

\* No refresh, or a failed one: a recent cache is still trusted.
Fallback(l) ==
    IF IsCacheUsableWhenStale(l.conn.cache, l.started)
    THEN Answer(l, "busy", l.conn.cache.content, TRUE)
    ELSE Unconfirmed(l)

\* What a load does with the row c it has just read.
Resolved(l, c) ==
    IF c.id = 0 THEN Answer(l, "free", Nothing, FALSE)
    ELSE IF c.status = "revoked" \/ c.token = 0 THEN Unconfirmed(l)
    ELSE IF c.calendars = {} THEN Answer(l, "free", Nothing, FALSE)
    ELSE IF l.mode = "beyond" THEN [l EXCEPT !.step = "asking", !.conn = CopyOf(c)]
    ELSE IF IsCacheFresh(c.cache, l.started, l.mode)
         THEN Answer(l, "busy", c.cache.content, TRUE)
    ELSE [l EXCEPT !.step = "claiming", !.conn = CopyOf(c)]

-----------------------------------------------------------------------------
(* Its steps, one per await                                                *)

Goes(i, l) == loads' = [loads EXCEPT ![i] = l]

Start(i, mode) ==
    /\ loads[i].step \in {"idle", "answered"}
    /\ Goes(i, [IdleLoad EXCEPT !.step = "called", !.mode = mode, !.started = now])
    /\ UNCHANGED <<row, connects, withdrawn, blocked, now>>

List(i) ==
    /\ loads[i].step = "called"
    /\ Goes(i, Resolved([loads[i] EXCEPT !.wasBlocked = blocked], row))
    /\ UNCHANGED <<row, connects, withdrawn, blocked, now>>

\* claim_external_calendar_refresh, on the row as it is now.
Claimable(id, mode) ==
    /\ row.id = id /\ row.status # "revoked"
    /\ row.claimedAt = Never \/ row.claimedAt < now - ClaimLife
    /\ mode = "commit" \/ row.errorAt = Never \/ row.errorAt < now - Backoff

Claim(i) ==
    /\ loads[i].step = "claiming"
    /\ Claimable(loads[i].conn.id, loads[i].mode)
    /\ row' = [row EXCEPT !.claimedAt = now]
    /\ \/ Goes(i, [loads[i] EXCEPT !.step = "fetching"])
       \/ Goes(i, Fallback(loads[i]))        \* the answer was lost
    /\ UNCHANGED <<connects, withdrawn, blocked, now>>

\* Someone else refreshes, backing off, not configured, or the claim failed.
NoClaim(i) ==
    /\ loads[i].step = "claiming"
    /\ Goes(i, Fallback(loads[i]))
    /\ UNCHANGED <<row, connects, withdrawn, blocked, now>>

TokenAlive(l) == l.conn.token > withdrawn

Asked(l) == [asOf |-> now, calendars |-> l.conn.calendars]

Fetch(i) ==
    LET l == loads[i] IN
    /\ l.step = "fetching"
    /\ \/ TokenAlive(l) /\ Goes(i, [l EXCEPT !.step = "saving", !.got = Asked(l)])
       \/ ~TokenAlive(l) /\ Goes(i, [l EXCEPT !.step = "failing", !.code = "revoked"])
       \/ Goes(i, [l EXCEPT !.step = "failing", !.code = "failed"])
    /\ UNCHANGED <<row, connects, withdrawn, blocked, now>>

Save(i) ==
    LET l == loads[i] IN
    /\ l.step = "saving"
    /\ row' = IF row.id = l.conn.id THEN Saved(row, l) ELSE row
    /\ Goes(i, Answer(l, "busy", l.got, FALSE))
    /\ UNCHANGED <<connects, withdrawn, blocked, now>>

\* The write of the result failed, or only its answer was lost: handled like a
\* failed refresh.
SaveFails(i) ==
    LET l == loads[i] IN
    /\ l.step = "saving"
    /\ \/ row' = row
       \/ row.id = l.conn.id /\ row' = Saved(row, l)
    /\ Goes(i, [l EXCEPT !.step = "failing", !.code = "failed", !.got = Nothing])
    /\ UNCHANGED <<connects, withdrawn, blocked, now>>

AfterFailure(l) == IF l.code = "revoked" THEN Unconfirmed(l) ELSE Fallback(l)

RecordFailure(i) ==
    LET l == loads[i] IN
    /\ l.step = "failing"
    /\ \/ /\ row.id = l.conn.id
          /\ row' = Failed(row, l)
          /\ blocked' = (blocked \/ l.code = "revoked")
       \/ UNCHANGED <<row, blocked>>     \* no such row, or the write failed
    /\ Goes(i, AfterFailure(l))
    /\ UNCHANGED <<connects, withdrawn, now>>

\* A period beyond the cached window: ask, store nothing.
AskDirectly(i) ==
    LET l == loads[i] IN
    /\ l.step = "asking"
    /\ \/ TokenAlive(l) /\ Goes(i, Answer(l, "busy", Asked(l), FALSE))
       \/ Goes(i, Unconfirmed(l))
    /\ UNCHANGED <<row, connects, withdrawn, blocked, now>>

\* The server running the load is gone; its claim stays behind.
Crash(i) ==
    /\ loads[i].step \notin {"idle", "answered"}
    /\ Goes(i, IdleLoad)
    /\ UNCHANGED <<row, connects, withdrawn, blocked, now>>

-----------------------------------------------------------------------------
(* The person, the business, Google and the daily clean-up                 *)

\* Mutant: a reconnect keeps the cache.
ConnectKeepsCache(cals) ==
    /\ connects < MaxConnects
    /\ connects' = connects + 1
    /\ row' = [row EXCEPT !.id = IF row.id = 0 THEN connects + 1 ELSE row.id,
                          !.token = connects + 1, !.calendars = cals]
    /\ blocked' = FALSE
    /\ UNCHANGED <<withdrawn, loads, now>>

\* upsertConnection: a reconnect keeps the id of the row it replaces.
Connect(cals) ==
    /\ connects < MaxConnects
    /\ connects' = connects + 1
    /\ row' = [Absent EXCEPT !.id = IF row.id = 0 THEN connects + 1 ELSE row.id,
                             !.token = connects + 1, !.calendars = cals]
    /\ blocked' = FALSE
    /\ UNCHANGED <<withdrawn, loads, now>>

\* saveCalendarChoices writes by id; the token it asked Google's list with may
\* be wiped by now, and every row had one to begin with: no guard but the row.
SaveChoice(cals) ==
    /\ row.id # 0
    /\ row' = [WithoutCache(row) EXCEPT !.calendars = cals]
    /\ UNCHANGED <<connects, withdrawn, loads, blocked, now>>

Disconnect ==
    /\ row.id # 0
    /\ row' = Absent
    /\ blocked' = FALSE
    /\ UNCHANGED <<connects, withdrawn, loads, now>>

\* The access is withdrawn in the Google account, or with its last connection.
Withdraw ==
    /\ withdrawn' = connects
    /\ UNCHANGED <<row, connects, loads, blocked, now>>

ClearStaleCache ==
    /\ row.cache # NoCache /\ row.cache.fetchedAt < now - Retention
    /\ row' = WithoutCache(row)
    /\ UNCHANGED <<connects, withdrawn, loads, blocked, now>>

Tick ==
    /\ now < MaxTime
    /\ now' = now + 1
    /\ UNCHANGED <<row, connects, withdrawn, loads, blocked>>

Init ==
    /\ row = Absent
    /\ connects = 0 /\ withdrawn = 0
    /\ loads = [i \in Loads |-> IdleLoad]
    /\ blocked = FALSE
    /\ now = 0

LoadNext ==
    \E i \in Loads :
        \/ \E mode \in Modes : Start(i, mode)
        \/ List(i) \/ Claim(i) \/ NoClaim(i) \/ Fetch(i) \/ Save(i) \/ SaveFails(i)
        \/ RecordFailure(i) \/ AskDirectly(i) \/ Crash(i)

Next ==
    \/ LoadNext
    \/ \E cals \in {{}, {Primary}} : Connect(cals)
    \/ \E cals \in SUBSET Calendars \ {{}} : SaveChoice(cals)
    \/ Disconnect \/ Withdraw \/ ClearStaleCache \/ Tick

Spec == Init /\ [][Next]_vars

-----------------------------------------------------------------------------
(* Properties                                                              *)

TypeOK ==
    /\ row \in Connection
    /\ connects \in 0..MaxConnects /\ withdrawn \in 0..connects
    /\ loads \in [Loads -> Load]
    /\ blocked \in BOOLEAN
    /\ now \in Times

\* The stamp of the cache never promises more than its content: what is cached
\* was asked for at the stamped moment or later, however long a refresh took
\* and whichever of two refreshes was saved last (resolveConnection, saveBusy).
CacheNoOlderThanItSays == row.cache.content.asOf >= row.cache.fetchedAt

\* The freshness policy, end to end: busy time a booking decision is based on
\* was asked for after the request came in, or was cached and then not older
\* than the policy trusts a cache (policy.ts).
AnswersAreRecent ==
    \A i \in Loads :
        LET l == loads[i] IN
        l.step = "answered" /\ l.kind = "busy"
        => l.got.asOf >= l.started - (IF l.cached THEN MaxStale ELSE 0)

\* Once a withdrawal is recorded nobody is told anything but "unconfirmed"
\* until the person reconnects or is disconnected: not even when an older
\* refresh saves its result afterwards and sets the status back to connected
\* (saveFailure wipes the token, resolveConnection asks for one).
WithdrawalBlocks ==
    \A i \in Loads :
        loads[i].step = "answered" /\ loads[i].wasBlocked => loads[i].kind = "unconfirmed"

-----------------------------------------------------------------------------
(* What a comment and a doc say and a late write breaks                    *)

\* "New calendar selection; the cache is invalidated (it described other
\* calendars)" (store.ts): cached busy time describes the chosen calendars.
CacheDescribesTheChoice ==
    row.cache # NoCache => row.cache.content.calendars = row.calendars

\* Only a late save breaks it: one of a load that had read another choice; each
\* other write, the choice itself included, leaves a cache that fits.
OnlyLateSavesMixChoices ==
    [][CacheDescribesTheChoice /\ ~CacheDescribesTheChoice'
       => \E i \in Loads : /\ loads[i].step = "saving" /\ loads'[i].step # "saving"
                           /\ loads[i].conn.calendars # row.calendars]_row

\* "revoked (access withdrawn at Google)" (docs): a connection is recorded as
\* withdrawn only while its newest access really is. A reconnect keeps the id,
\* so the late failure of the old token is recorded against the new one.
RevokedMeansWithdrawn ==
    row.status = "revoked" => connects <= withdrawn

\* Only a late failure breaks it: one of a load that had read another token.
OnlyLateFailuresRevoke ==
    [][RevokedMeansWithdrawn /\ ~RevokedMeansWithdrawn'
       => \E i \in Loads : /\ loads[i].step = "failing" /\ loads'[i].step # "failing"
                           /\ loads[i].conn.token # row.token]_<<row, connects, withdrawn>>
=============================================================================
