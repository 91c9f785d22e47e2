--------------------------- MODULE ExternalGrants ---------------------------
(***************************************************************************)
(* The Google accesses behind the calendar connections of all businesses:  *)
(* connect links, the connect flow, every way a connection is removed, and *)
(* the one place that gives an access back                                 *)
(* (src/server/externalCalendar/service.ts, store.ts; 0025, 0026).         *)
(*                                                                         *)
(* The database and Google share no transaction: one step here is one      *)
(* await. Google is external: it numbers the tokens of an account, and     *)
(* revoking a live one kills all of that account's; a dead one is refused. *)
(*                                                                         *)
(* Abstractions. Status "error" counts as "connected". The clean-up of old *)
(* links and stale caches is left out: such links are refused before and   *)
(* after. The refresh that ends a connect is one of the loads below, which *)
(* anybody may begin at any time; claims and busy time are CalendarCache.  *)
(***************************************************************************)
EXTENDS Naturals

CONSTANTS
    Staff,         \* people of all businesses
    Accounts,      \* Google accounts
    Unknown,       \* the subject of a row made before 0026
    Requests,      \* requests at the same time
    Cleaner,       \* the daily clean-up
    Leavers,       \* bound: people who may be deactivated
    Before,        \* connections made long ago, some before 0026
    MaxLinks,      \* bound: connect links ever issued
    MaxTokens      \* bound: tokens each account ever gives

ASSUME ExternalGrantsAssumption ==
    /\ Accounts # {} /\ Staff # {}
    /\ Leavers \subseteq Staff
    /\ Unknown \notin Accounts /\ Cleaner \notin Requests
    /\ Before \in [Staff -> [subject : Accounts \cup {Unknown},
                             account : Accounts \cup {Unknown}]]
    /\ \A s \in Staff : Before[s].subject \in {Unknown, Before[s].account}
    /\ MaxLinks \in Nat /\ MaxTokens \in [Accounts -> Nat]

VARIABLES
    active,        \* staff_profiles.active
    links,         \* connect links, by number
    conn,          \* the connection row of each person
    issued,        \* Google: tokens given so far, for each account
    dead,          \* Google: the newest token of each account that is void
    requests       \* what each request has read so far

vars == <<active, links, conn, issued, dead, requests>>

-----------------------------------------------------------------------------
(* Tokens, rows, links                                                     *)

\* Number 0 is no token at all.
Token == [of : Accounts, n : Nat]
NoToken == [of |-> CHOOSE a \in Accounts : TRUE, n |-> 0]
Live(t) == t.n > dead[t.of]

Subject == Accounts \cup {Unknown}

\* A row keeps its id, the number of the link that inserted it; 0 long ago.
Row == [id : 0..MaxLinks, status : {"none", "connected", "revoked"},
        subject : Subject, token : Token]
NoRow == [id |-> 0, status |-> "none", subject |-> Unknown, token |-> NoToken]

Connected(s) == conn[s].status # "none"

Link == [of : Staff, state : {"unissued", "open", "used", "expired"}]

\* listConnectionsBySubject, and what releaseGrant counts of it.
OfSubject(x) == {s \in Staff : Connected(s) /\ conn[s].subject = x}
InUseBy(x) == {s \in OfSubject(x) : conn[s].status # "revoked"}

-----------------------------------------------------------------------------
(* Requests                                                                *)

Workers == Requests \cup {Cleaner}

Request == [step : {"idle", "consenting", "listing", "consuming", "reading",
                    "looking", "writing", "removing", "releasing", "revoking",
                    "asking", "saving", "failing"},
            link : 0..MaxLinks,          \* connecting
            staff : Staff,               \* whose row it reads or writes
            ids : SUBSET (0..MaxLinks),  \* the row it found, if any
            previous : Row,              \* the connection it replaces
            subject : Subject,
            token : Token,               \* new, asked with, or to be released
            seen : SUBSET Token,         \* in attributed rows when it listed them
            todo : SUBSET Staff,         \* connections still to be deleted
            once : BOOLEAN]              \* release once, after the last of them

Idle == [step |-> "idle", link |-> 0, staff |-> CHOOSE s \in Staff : TRUE,
         ids |-> {}, previous |-> NoRow, subject |-> Unknown, token |-> NoToken,
         seen |-> {}, todo |-> {}, once |-> FALSE]

At(q, step) == requests[q].step = step
Goes(q, r) == requests' = [requests EXCEPT ![q] = r]

\* releaseGrant of a token under the subject its row named.
Releasing(subject, token, todo) ==
    [Idle EXCEPT !.step = "releasing", !.subject = subject, !.token = token,
                 !.todo = todo]

-----------------------------------------------------------------------------
(* Connect links                                                           *)

Unissued == {l \in 1..MaxLinks : links[l].state = "unissued"}

\* issue_external_calendar_invite: earlier unused links expire. Two calls at
\* once do not see each other's link, and both stay open.
IssueLinks(s, new) ==
    /\ active[s]
    /\ new # {} /\ new \subseteq Unissued
    /\ \A l \in new, k \in Unissued \ new : l < k    \* numbers in their order
    /\ links' = [l \in DOMAIN links |->
          IF l \in new THEN [of |-> s, state |-> "open"]
          ELSE IF links[l] = [of |-> s, state |-> "open"]
               THEN [of |-> s, state |-> "expired"]
          ELSE links[l]]
    /\ UNCHANGED <<active, conn, issued, dead, requests>>

ExpireLink(l) ==
    /\ links[l].state = "open"
    /\ links' = [links EXCEPT ![l] = [of |-> links[l].of, state |-> "expired"]]
    /\ UNCHANGED <<active, conn, issued, dead, requests>>

-----------------------------------------------------------------------------
(* Connecting                                                              *)

\* startAuthorization: a valid link of an active person; the browser leaves.
StartConnect(q, l) ==
    /\ At(q, "idle")
    /\ links[l].state = "open" /\ active[links[l].of]
    /\ Goes(q, [Idle EXCEPT !.step = "consenting", !.link = l,
                            !.staff = links[l].of])
    /\ UNCHANGED <<active, links, conn, issued, dead>>

\* The person consents with some account; exchangeCode returns the new token.
Consent(q, a) ==
    /\ At(q, "consenting") /\ issued[a] < MaxTokens[a]
    /\ issued' = [issued EXCEPT ![a] = @ + 1]
    /\ Goes(q, [requests[q] EXCEPT !.step = "listing", !.subject = a,
                                   !.token = [of |-> a, n |-> issued[a] + 1]])
    /\ UNCHANGED <<active, links, conn, dead>>

\* listCalendars with the new token; whatever fails, the grant is released.
ListCalendars(q) ==
    LET r == requests[q] IN
    /\ At(q, "listing") /\ Live(r.token)
    /\ Goes(q, [r EXCEPT !.step = "consuming"])
    /\ UNCHANGED <<active, links, conn, issued, dead>>

ListingFails(q) ==
    /\ At(q, "listing")
    /\ Goes(q, Releasing(requests[q].subject, requests[q].token, {}))
    /\ UNCHANGED <<active, links, conn, issued, dead>>

\* Mutant: the link was found unused when the flow began; that is enough.
ConsumeAgain(q) ==
    LET r == requests[q] IN
    /\ At(q, "consuming")
    /\ links' = [links EXCEPT ![r.link] = [of |-> r.staff, state |-> "used"]]
    /\ Goes(q, [r EXCEPT !.step = "reading"])
    /\ UNCHANGED <<active, conn, issued, dead>>

\* consume_external_calendar_invite: to the one caller that won.
ConsumeLink(q) ==
    LET r == requests[q] IN
    /\ At(q, "consuming")
    /\ \/ /\ links[r.link].state = "open"
          /\ links' = [links EXCEPT ![r.link] = [of |-> r.staff, state |-> "used"]]
          /\ Goes(q, [r EXCEPT !.step = "reading"])
       \/ /\ links[r.link].state # "open"
          /\ Goes(q, Releasing(r.subject, r.token, {}))
          /\ UNCHANGED links
    /\ UNCHANGED <<active, conn, issued, dead>>

ReadPrevious(q) ==
    LET r == requests[q] IN
    /\ At(q, "reading")
    /\ Goes(q, [r EXCEPT !.step = "looking", !.previous = conn[r.staff]])
    /\ UNCHANGED <<active, links, conn, issued, dead>>

\* upsertConnection looks for the row itself, then updates it or inserts one.
LookUp(q) ==
    LET r == requests[q] IN
    /\ At(q, "looking")
    /\ Goes(q, [r EXCEPT !.step = "writing",
                         !.ids = IF Connected(r.staff) THEN {conn[r.staff].id} ELSE {}])
    /\ UNCHANGED <<active, links, conn, issued, dead>>

\* The row the write hits: the one looked up, if it is still there, or a new
\* one, if there is still none (unique for each person). Otherwise it fails.
Hits(q) ==
    LET r == requests[q] IN
    IF r.ids = {} THEN ~Connected(r.staff)
    ELSE Connected(r.staff) /\ conn[r.staff].id \in r.ids

\* Mutant: the account connected before is forgotten.
NothingToRelease(r) == FALSE

\* A different account before: its grant is released afterwards.
Replaces(r) ==
    r.previous.status # "none" /\ r.previous.subject # r.subject

Upsert(q) ==
    LET r == requests[q] IN
    /\ At(q, "writing") /\ Hits(q)
    /\ conn' = [conn EXCEPT ![r.staff] =
          [id |-> IF r.ids = {} THEN r.link ELSE @.id,
           status |-> "connected", subject |-> r.subject, token |-> r.token]]
    /\ Goes(q, IF Replaces(r)
               THEN Releasing(r.previous.subject, r.previous.token, {})
               ELSE Idle)
    /\ UNCHANGED <<active, links, issued, dead>>

-----------------------------------------------------------------------------
(* Removing connections                                                    *)

Removing(todo) == [Idle EXCEPT !.step = "removing", !.todo = todo]

\* Settings, the calendar picker, or one connection of the manage page: each
\* reads the row, and deletes whatever row the person has by then.
Disconnect(q, s) ==
    /\ At(q, "idle") /\ Connected(s)
    /\ Goes(q, Removing({s}))
    /\ UNCHANGED <<active, links, conn, issued, dead>>

\* setStaffActive(false); the read before the removal may come at any time.
Deactivate(q, s) ==
    /\ At(q, "idle") /\ active[s] /\ s \in Leavers
    /\ active' = [active EXCEPT ![s] = FALSE]
    /\ Goes(q, Removing({s}))
    /\ UNCHANGED <<links, conn, issued, dead>>

Reactivate(s) ==
    /\ ~active[s]
    /\ active' = [active EXCEPT ![s] = TRUE]
    /\ UNCHANGED <<links, conn, issued, dead, requests>>

\* "Disconnect all" of the manage page.
DisconnectAll(q, a) ==
    /\ At(q, "idle") /\ OfSubject(a) # {}
    /\ Goes(q, [Idle EXCEPT !.step = "removing", !.todo = OfSubject(a),
                            !.subject = a, !.once = TRUE])
    /\ UNCHANGED <<active, links, conn, issued, dead>>

\* Mutant: the clean-up leaves the rows of withdrawn accesses.
DueUnlessRevoked == {s \in Staff : ~active[s] /\ conn[s].status = "connected"}

\* listConnectionsOfInactiveStaff
Due == {s \in Staff : ~active[s] /\ Connected(s)}

\* The daily run; its loop removes one connection after the other.
StartCleanup ==
    /\ At(Cleaner, "idle") /\ Due # {}
    /\ Goes(Cleaner, Removing(Due))
    /\ UNCHANGED <<active, links, conn, issued, dead>>

\* deleteConnection returns the row that was there. "Disconnect all" keeps the
\* first token it finds, and its own subject.
DeleteRow(q, s) ==
    LET r == requests[q]
        row == conn[s]
        left == r.todo \ {s}
    IN
    /\ At(q, "removing") /\ s \in r.todo
    /\ conn' = [conn EXCEPT ![s] = NoRow]
    /\ Goes(q, IF r.once
               THEN [r EXCEPT !.step = IF left = {} THEN "releasing" ELSE "removing",
                              !.todo = left,
                              !.token = IF r.token.n = 0 THEN row.token ELSE @]
               ELSE Releasing(row.subject, row.token, left))
    /\ UNCHANGED <<active, links, issued, dead>>

-----------------------------------------------------------------------------
(* releaseGrant                                                            *)

\* Go on with the next connection, or done.
Released(q) ==
    Goes(q, IF requests[q].todo = {} THEN Idle ELSE Removing(requests[q].todo))

\* Mutant: rows are not looked for, the account's last one or not.
NothingElse(r) == r.token.n > 0 /\ r.subject # Unknown

\* A token whose account is known and not in use by another connection.
Revocable(r) ==
    r.token.n > 0 /\ r.subject # Unknown /\ InUseBy(r.subject) = {}

ListOthers(q) ==
    LET r == requests[q] IN
    /\ At(q, "releasing")
    /\ \/ /\ Revocable(r)
          /\ Goes(q, [r EXCEPT !.step = "revoking",
                !.seen = {conn[s].token : s \in {t \in Staff : conn[t].subject # Unknown}}])
       \/ ~Revocable(r) /\ Released(q)
    /\ UNCHANGED <<active, links, conn, issued, dead>>

RevokeGrant(q) ==
    LET t == requests[q].token IN
    /\ At(q, "revoking")
    /\ dead' = IF Live(t) THEN [dead EXCEPT ![t.of] = issued[t.of]] ELSE dead
    /\ Released(q)
    /\ UNCHANGED <<active, links, conn, issued>>

\* Google cannot be reached; the provider swallows it.
RevokeFails(q) ==
    /\ At(q, "revoking")
    /\ Released(q)
    /\ UNCHANGED <<active, links, conn, issued, dead>>

-----------------------------------------------------------------------------
(* Loads: a failure by a withdrawn token, saved by id                      *)

ReadForLoad(q, s) ==
    /\ At(q, "idle") /\ conn[s].status = "connected" /\ conn[s].token.n > 0
    /\ Goes(q, [Idle EXCEPT !.step = "asking", !.staff = s,
                            !.ids = {conn[s].id}, !.token = conn[s].token])
    /\ UNCHANGED <<active, links, conn, issued, dead>>

\* Google answers; other failures than a withdrawal keep the status as success.
Ask(q) ==
    LET r == requests[q] IN
    /\ At(q, "asking")
    /\ Goes(q, [r EXCEPT !.step = IF Live(r.token) THEN "saving" ELSE "failing"])
    /\ UNCHANGED <<active, links, conn, issued, dead>>

\* saveBusy and saveFailure, if a row has that id.
SaveStatus(q, step, row) ==
    LET r == requests[q] IN
    /\ At(q, step)
    /\ conn' = IF Connected(r.staff) /\ conn[r.staff].id \in r.ids
               THEN [conn EXCEPT ![r.staff] = row] ELSE conn
    /\ Goes(q, Idle)
    /\ UNCHANGED <<active, links, issued, dead>>

SaveBusy(q) ==
    SaveStatus(q, "saving",
        [conn[requests[q].staff] EXCEPT !.status = "connected"])

\* Mutant: Google's word for it is stored.
SaveInvalidGrant(q) ==
    SaveStatus(q, "failing",
        [conn[requests[q].staff] EXCEPT !.status = "invalid_grant", !.token = NoToken])

SaveRevoked(q) ==
    SaveStatus(q, "failing",
        [conn[requests[q].staff] EXCEPT !.status = "revoked", !.token = NoToken])

-----------------------------------------------------------------------------
(* Crashes, store errors, consents turned down; the person at Google       *)

Abandon(q) ==
    /\ ~At(q, "idle")
    /\ Goes(q, Idle)
    /\ UNCHANGED <<active, links, conn, issued, dead>>

\* The person removes the access in the Google account.
Withdraw(a) ==
    /\ dead[a] < issued[a]
    /\ dead' = [dead EXCEPT ![a] = issued[a]]
    /\ UNCHANGED <<active, links, conn, issued, requests>>

-----------------------------------------------------------------------------
RowBefore(s) ==
    IF Before[s].account = Unknown THEN NoRow
    ELSE [id |-> 0, status |-> "connected", subject |-> Before[s].subject,
          token |-> [of |-> Before[s].account, n |-> 1]]

Init ==
    /\ active = [s \in Staff |-> TRUE]
    /\ links = [l \in 1..MaxLinks |->
                  [of |-> CHOOSE s \in Staff : TRUE, state |-> "unissued"]]
    /\ conn = [s \in Staff |-> RowBefore(s)]
    /\ issued = [a \in Accounts |-> IF \E s \in Staff : Before[s].account = a THEN 1 ELSE 0]
    /\ dead = [a \in Accounts |-> 0]
    /\ requests = [q \in Workers |-> Idle]

Connecting(q) ==
    \/ \E l \in 1..MaxLinks : StartConnect(q, l)
    \/ \E a \in Accounts : Consent(q, a)
    \/ ListCalendars(q) \/ ListingFails(q) \/ ConsumeLink(q)
    \/ ReadPrevious(q) \/ LookUp(q) \/ Upsert(q)

Disconnecting(q) ==
    \/ \E s \in Staff : Disconnect(q, s) \/ Deactivate(q, s)
    \/ \E a \in Accounts : DisconnectAll(q, a)

Loading(q) ==
    \/ \E s \in Staff : ReadForLoad(q, s)
    \/ Ask(q) \/ SaveBusy(q) \/ SaveRevoked(q)

\* What requests and the clean-up share.
Working(q) ==
    \/ \E s \in Staff : DeleteRow(q, s)
    \/ ListOthers(q) \/ RevokeGrant(q) \/ RevokeFails(q)
    \/ Abandon(q)

Next ==
    \/ \E q \in Requests : Connecting(q) \/ Disconnecting(q) \/ Loading(q)
    \/ \E q \in Workers : Working(q)
    \/ StartCleanup
    \/ \E s \in Staff :
          Reactivate(s) \/ \E new \in SUBSET (1..MaxLinks) : IssueLinks(s, new)
    \/ \E l \in 1..MaxLinks : ExpireLink(l)
    \/ \E a \in Accounts : Withdraw(a)

Spec == Init /\ [][Next]_vars

\* The daily cron starts the clean-up, and it does not fail at the same
\* connection every day for ever. Nothing else is obliged to happen.
Fairness ==
    /\ WF_vars(\/ StartCleanup \/ ListOthers(Cleaner)
               \/ RevokeGrant(Cleaner) \/ RevokeFails(Cleaner))
    /\ \A s \in Leavers : SF_vars(DeleteRow(Cleaner, s))

FairSpec == Spec /\ Fairness

-----------------------------------------------------------------------------
(* Properties                                                              *)

TypeOK ==
    /\ active \in [Staff -> BOOLEAN]
    /\ links \in [1..MaxLinks -> Link]
    /\ conn \in [Staff -> Row]
    /\ issued \in [Accounts -> Nat] /\ dead \in [Accounts -> Nat]
    /\ requests \in [Workers -> Request]

\* A request that has won its link and not yet stored its connection.
Won(q, l) ==
    requests[q].link = l /\ requests[q].step \in {"reading", "looking", "writing"}

\* "Single use": however many browsers went to Google with one link, it opens
\* one connection. While a request still has it nobody else does, it is used
\* up, and the row it inserts does not exist yet.
LinksOpenOnce ==
    \A l \in 1..MaxLinks : \A q \in Requests :
        Won(q, l) =>
            /\ links[l].state = "used"
            /\ \A p \in Requests \ {q} : ~Won(p, l)
            /\ \A s \in Staff : Connected(s) => conn[s].id # l

\* The risk releaseGrant weighs is that revoking one token cuts others off. What
\* it takes can only be a connection stored after it had listed them, or one of
\* before 0026 -- unless "disconnect all" came upon a row that had changed its
\* account and holds the token of one account under the name of another.
SettledKeepTheirGrant ==
    [][\A q \in Workers, s \in Staff :
          /\ RevokeGrant(q) /\ requests[q].subject = requests[q].token.of
          /\ conn[s].subject # Unknown /\ conn[s].token \in requests[q].seen
          /\ Live(conn[s].token)
          => Live(conn[s].token)']_vars

\* A grant no row holds and no request is about to store or to give back.
Carries(q, a) ==
    /\ requests[q].step \notin {"idle", "asking", "saving", "failing"}
    /\ requests[q].token.of = a /\ Live(requests[q].token)

Orphan(a) ==
    /\ dead[a] < issued[a]
    /\ \A s \in Staff : conn[s].token.of = a => ~Live(conn[s].token)
    /\ \A q \in Workers : ~Carries(q, a)

\* Two connects of one person at once: the row replaced is not the one read,
\* or a token that is void by now replaces a newer one.
Overtaken(q) ==
    /\ Upsert(q)
    /\ conn[requests[q].staff] # requests[q].previous \/ ~Live(requests[q].token)

\* "Disconnect all" meets a second token and keeps the first.
DropsSecond(q, s) == DeleteRow(q, s) /\ requests[q].token.n > 0

\* Kept: the account is unknown, or rows of the subject are thought to use it.
Keeps(q) ==
    /\ ListOthers(q)
    /\ requests[q].subject = Unknown \/ InUseBy(requests[q].subject) # {}

\* A grant is left behind at Google only by a flow that ends without going on
\* (a crash, an error, a closed browser, and also a consent exchangeCode turns
\* down, for a missing permission, refresh token or identity: it revokes
\* nothing, since that would cut off the others), by Google not answering,
\* by rows of before 0026, by two connects of one person at once, by the late
\* verdict on an older token, or for rows whose own token is long dead.
LeftBehindOnlyByMishap ==
    [][\A a \in Accounts :
          ~Orphan(a) /\ Orphan(a)' =>
              \E q \in Workers :
                  \/ Abandon(q) \/ RevokeFails(q) \/ Keeps(q)
                  \/ Overtaken(q) \/ SaveRevoked(q)
                  \/ \E s \in Staff : DropsSecond(q, s)]_vars

\* "The daily cleanup removes anything left behind": a person who stays
\* deactivated ends up without a connection, although a consent given before
\* may still arrive afterwards and removals may fail.
InactiveLoseTheirs ==
    \A s \in Leavers : <>[](~active[s]) => <>[](~Connected(s))
=============================================================================
