------------------------- MODULE ExternalGrantsProofs -------------------------
(***************************************************************************)
(* Proofs about ExternalGrants, for any number of people, accounts, links  *)
(* and requests: types, single use of links, and what ServiceOS's own      *)
(* revocations can and cannot do to the accesses of others.                *)
(***************************************************************************)
EXTENDS ExternalGrants, TLAPS

ConnectSteps == {"listing", "consuming", "reading", "looking", "writing"}

\* What a request holds fits the step it is at.
Fits(r) ==
    /\ r.step \in ConnectSteps => r.subject = r.token.of
    /\ r.step \in ConnectSteps \cup {"consenting"} => r.link \in 1..MaxLinks
    /\ r.step = "consenting" => r.token.n = 0
    /\ r.step = "removing" /\ ~r.once => r.token.n = 0
    /\ r.step = "revoking" => \A t \in r.seen : t.n > 0 => t.of # r.subject

RequestsFit == \A q \in Workers : Fits(requests[q])

\* A row with a token is connected, under the account of the token.
RowsFit ==
    \A s \in Staff : conn[s].token.n > 0 =>
        /\ conn[s].status = "connected"
        /\ conn[s].subject \in {Unknown, conn[s].token.of}

GoogleFits == \A a \in Accounts : dead[a] <= issued[a]

Winner(r, l) == r.link = l /\ r.step \in {"reading", "looking", "writing"}

\* A link that has a winner or a row of its own is used; never both.
LinksFit ==
    \A l \in 1..MaxLinks :
        /\ \A q \in Workers : Winner(requests[q], l) =>
              /\ links[l].state = "used"
              /\ \A p \in Workers : Winner(requests[p], l) => p = q
              /\ \A s \in Staff : Connected(s) => conn[s].id # l
        /\ \A s \in Staff : Connected(s) /\ conn[s].id = l => links[l].state = "used"

IInv == TypeOK /\ RequestsFit /\ RowsFit /\ GoogleFits /\ LinksFit

-----------------------------------------------------------------------------
(* Lemmas about values                                                     *)

LEMMA NoTokenIsOne == NoToken \in Token /\ NoToken.n = 0
BY ExternalGrantsAssumption DEF NoToken, Token

LEMMA NoRowIsOne == NoRow \in Row /\ NoRow.token.n = 0 /\ NoRow.status = "none"
BY NoTokenIsOne, ExternalGrantsAssumption DEF NoRow, Row, Subject

LEMMA IdleIsOne ==
    Idle \in Request /\ Fits(Idle) /\ Idle.step = "idle" /\ Idle.token = NoToken
<1>1. (CHOOSE s \in Staff : TRUE) \in Staff
  BY ExternalGrantsAssumption
<1>2. 0 \in 0..MaxLinks
  BY ExternalGrantsAssumption
<1> QED
  BY <1>1, <1>2, NoTokenIsOne, NoRowIsOne DEF Idle, Request, Subject, Fits, ConnectSteps

\* Requests that start releasing, or removing, hold what they are given.
LEMMA ReleasingIsOne ==
    ASSUME NEW x \in Subject, NEW t \in Token, NEW todo \in SUBSET Staff
    PROVE  LET r == Releasing(x, t, todo) IN
           /\ r \in Request /\ Fits(r) /\ r.step = "releasing"
           /\ r.subject = x /\ r.token = t
<1> DEFINE r == Releasing(x, t, todo)
<1>1. r \in Request
  BY IdleIsOne DEF Releasing, Request
<1>2. r.step = "releasing" /\ r.subject = x /\ r.token = t
  BY IdleIsOne DEF Releasing, Request
<1>3. Fits(r)
  <2> HIDE DEF r
  <2> QED BY <1>1, <1>2 DEF Fits, ConnectSteps
<1> QED BY <1>1, <1>2, <1>3

LEMMA RemovingIsOne ==
    ASSUME NEW todo \in SUBSET Staff
    PROVE  LET r == Removing(todo) IN
           r \in Request /\ Fits(r) /\ r.step = "removing"
<1> DEFINE r == Removing(todo)
<1>1. r \in Request
  BY IdleIsOne DEF Removing, Request
<1>2. r.step = "removing" /\ r.token.n = 0
  BY IdleIsOne, NoTokenIsOne DEF Removing, Request
<1>3. Fits(r)
  <2> HIDE DEF r
  <2> QED BY <1>1, <1>2 DEF Fits, ConnectSteps
<1> QED BY <1>1, <1>2, <1>3

-----------------------------------------------------------------------------
(* Lemmas about steps                                                      *)

LEMMA RequestMoves ==
    ASSUME IInv, NEW q \in Workers, NEW r \in Request, Fits(r), Goes(q, r)
    PROVE  /\ requests' \in [Workers -> Request] /\ RequestsFit'
           /\ requests'[q] = r
           /\ \A p \in Workers : p # q => requests'[p] = requests[p]
<1>1. requests \in [Workers -> Request] /\ requests' = [requests EXCEPT ![q] = r]
  BY DEF IInv, TypeOK, Goes
<1>2. /\ requests' \in [Workers -> Request] /\ requests'[q] = r
      /\ \A p \in Workers : p # q => requests'[p] = requests[p]
  BY <1>1
<1>3. \A p \in Workers : Fits(requests[p])
  BY DEF IInv, RequestsFit
<1> QED BY <1>2, <1>3 DEF RequestsFit

\* Nobody wins a link and no row gets a new id.
LEMMA NobodyWins ==
    ASSUME IInv, NEW q \in Workers,
           \A p \in Workers : p # q => requests'[p] = requests[p],
           \A l \in 1..MaxLinks : Winner(requests'[q], l) => Winner(requests[q], l),
           \A l \in 1..MaxLinks : links[l].state = "used" => links'[l].state = "used",
           \A s \in Staff : Connected(s)' =>
               conn'[s].id = 0 \/ (Connected(s) /\ conn'[s].id = conn[s].id)
    PROVE  LinksFit'
<1> SUFFICES ASSUME NEW l \in 1..MaxLinks
             PROVE  /\ \A p \in Workers : Winner(requests'[p], l) =>
                          /\ links'[l].state = "used"
                          /\ \A o \in Workers : Winner(requests'[o], l) => o = p
                          /\ \A s \in Staff : Connected(s)' => conn'[s].id # l
                    /\ \A s \in Staff :
                          Connected(s)' /\ conn'[s].id = l => links'[l].state = "used"
  BY DEF LinksFit
<1>1. l # 0
  BY ExternalGrantsAssumption
<1>2. \A p \in Workers : Winner(requests'[p], l) => Winner(requests[p], l)
  <2> TAKE p \in Workers
  <2>1. CASE p = q
    BY <2>1
  <2>2. CASE p # q
    BY <2>2
  <2> QED BY <2>1, <2>2
<1>3. \A s \in Staff : Connected(s)' /\ conn'[s].id = l => Connected(s) /\ conn[s].id = l
  BY <1>1
<1>4. /\ \A p \in Workers : Winner(requests[p], l) =>
            /\ links[l].state = "used"
            /\ \A o \in Workers : Winner(requests[o], l) => o = p
            /\ \A s \in Staff : Connected(s) => conn[s].id # l
      /\ \A s \in Staff : Connected(s) /\ conn[s].id = l => links[l].state = "used"
  BY DEF IInv, LinksFit
<1> QED BY <1>2, <1>3, <1>4

\* A request goes on and writes nothing.
LEMMA QuietStep ==
    ASSUME IInv, NEW q \in Workers, NEW r \in Request, Fits(r), Goes(q, r),
           \A l \in 1..MaxLinks : Winner(r, l) => Winner(requests[q], l),
           UNCHANGED <<active, links, conn, issued, dead>>
    PROVE  IInv'
<1>1. /\ requests' \in [Workers -> Request] /\ RequestsFit' /\ requests'[q] = r
      /\ \A p \in Workers : p # q => requests'[p] = requests[p]
  BY RequestMoves
<1>2. TypeOK'
  BY <1>1 DEF IInv, TypeOK
<1>3. RowsFit' /\ GoogleFits'
  BY DEF IInv, RowsFit, GoogleFits
<1>4. LinksFit'
  <2>1. \A s \in Staff : Connected(s)' =>
            conn'[s].id = 0 \/ (Connected(s) /\ conn'[s].id = conn[s].id)
    BY DEF Connected
  <2>2. \A l \in 1..MaxLinks : Winner(requests'[q], l) => Winner(requests[q], l)
    BY <1>1
  <2>3. \A l \in 1..MaxLinks : links[l].state = "used" => links'[l].state = "used"
    OBVIOUS
  <2> QED BY <1>1, <2>1, <2>2, <2>3, NobodyWins
<1> QED BY <1>1, <1>2, <1>3, <1>4 DEF IInv

\* A request goes on and writes the row of one person; ids stay.
LEMMA RowWritten ==
    ASSUME IInv, NEW q \in Workers, NEW r \in Request, Fits(r), Goes(q, r),
           \A l \in 1..MaxLinks : Winner(r, l) => Winner(requests[q], l),
           NEW s \in Staff, NEW row \in Row, conn' = [conn EXCEPT ![s] = row],
           row.token.n > 0 => /\ row.status = "connected"
                              /\ row.subject \in {Unknown, row.token.of},
           row.status # "none" => Connected(s) /\ row.id = conn[s].id,
           UNCHANGED <<active, links, issued, dead>>
    PROVE  IInv'
<1>1. /\ requests' \in [Workers -> Request] /\ RequestsFit' /\ requests'[q] = r
      /\ \A p \in Workers : p # q => requests'[p] = requests[p]
  BY RequestMoves
<1>2. /\ conn \in [Staff -> Row] /\ conn' \in [Staff -> Row] /\ conn'[s] = row
      /\ \A t \in Staff : t # s => conn'[t] = conn[t]
  BY DEF IInv, TypeOK
<1>3. TypeOK'
  BY <1>1, <1>2 DEF IInv, TypeOK
<1>4. RowsFit' /\ GoogleFits'
  BY <1>2 DEF IInv, RowsFit, GoogleFits
<1>5. LinksFit'
  <2>1. \A t \in Staff : Connected(t)' =>
            conn'[t].id = 0 \/ (Connected(t) /\ conn'[t].id = conn[t].id)
    BY <1>2 DEF Connected
  <2>2. \A l \in 1..MaxLinks : Winner(requests'[q], l) => Winner(requests[q], l)
    BY <1>1
  <2>3. \A l \in 1..MaxLinks : links[l].state = "used" => links'[l].state = "used"
    OBVIOUS
  <2> QED BY <1>1, <2>1, <2>2, <2>3, NobodyWins
<1> QED BY <1>1, <1>3, <1>4, <1>5 DEF IInv

LEMMA TypesOf ==
    ASSUME IInv, NEW q \in Workers
    PROVE  /\ requests[q] \in Request /\ Fits(requests[q])
           /\ conn \in [Staff -> Row] /\ links \in [1..MaxLinks -> Link]
           /\ issued \in [Accounts -> Nat] /\ dead \in [Accounts -> Nat]
BY DEF IInv, TypeOK, RequestsFit

\* At a step that is not the winner's, a request wins nothing.
LEMMA NotAWinner ==
    ASSUME NEW r, r.step \notin {"reading", "looking", "writing"}
    PROVE  \A l \in 1..MaxLinks : ~Winner(r, l)
BY DEF Winner

-----------------------------------------------------------------------------
(* Every action keeps the invariant                                        *)

LEMMA StartConnectStep ==
    ASSUME IInv, NEW q \in Requests, NEW l \in 1..MaxLinks, StartConnect(q, l)
    PROVE  IInv'
<1> DEFINE r == [Idle EXCEPT !.step = "consenting", !.link = l, !.staff = links[l].of]
<1>1. q \in Workers
  BY DEF Workers
<1>2. links[l].of \in Staff /\ l \in 0..MaxLinks
  BY ExternalGrantsAssumption DEF IInv, TypeOK, Link
<1>3. r \in Request
  BY <1>2, IdleIsOne DEF Request
<1>4. r.step = "consenting" /\ r.link = l /\ r.token.n = 0
  BY IdleIsOne, NoTokenIsOne DEF Request
<1>5. Goes(q, r) /\ UNCHANGED <<active, links, conn, issued, dead>>
  BY DEF StartConnect
<1> HIDE DEF r
<1>6. Fits(r)
  BY <1>4 DEF Fits, ConnectSteps
<1>7. \A k \in 1..MaxLinks : ~Winner(r, k)
  BY <1>4, NotAWinner
<1> QED BY <1>1, <1>3, <1>5, <1>6, <1>7, QuietStep

LEMMA ConsentStep ==
    ASSUME IInv, NEW q \in Requests, NEW a \in Accounts, Consent(q, a)
    PROVE  IInv'
<1> DEFINE old == requests[q]
           t == [of |-> a, n |-> issued[a] + 1]
           r == [old EXCEPT !.step = "listing", !.subject = a, !.token = t]
<1>1. q \in Workers /\ old \in Request /\ Fits(old) /\ old.step = "consenting"
  BY TypesOf DEF Workers, Consent, At
<1>2. issued \in [Accounts -> Nat] /\ dead \in [Accounts -> Nat]
  BY DEF IInv, TypeOK
<1>3. t \in Token
  BY <1>2 DEF Token
<1>4. r \in Request
  BY <1>1, <1>3 DEF Request, Subject
<1>5. r.step = "listing" /\ r.link = old.link /\ r.subject = a /\ r.token = t
  BY <1>1 DEF Request
<1>6. Fits(r)
  <2> HIDE DEF r
  <2> QED BY <1>1, <1>5 DEF Fits, ConnectSteps
<1>7. Goes(q, r) /\ UNCHANGED <<active, links, conn, dead>>
      /\ issued' = [issued EXCEPT ![a] = @ + 1]
  BY DEF Consent
<1> HIDE DEF r, old, t
<1>8. /\ requests' \in [Workers -> Request] /\ RequestsFit' /\ requests'[q] = r
      /\ \A p \in Workers : p # q => requests'[p] = requests[p]
  BY <1>1, <1>4, <1>6, <1>7, RequestMoves
<1>9. TypeOK'
  BY <1>2, <1>7, <1>8 DEF IInv, TypeOK
<1>10. RowsFit' /\ GoogleFits'
  BY <1>2, <1>7 DEF IInv, RowsFit, GoogleFits
<1>11. LinksFit'
  <2>1. \A l \in 1..MaxLinks : ~Winner(requests'[q], l)
    BY <1>5, <1>8, NotAWinner
  <2>2. \A s \in Staff : Connected(s)' =>
            conn'[s].id = 0 \/ (Connected(s) /\ conn'[s].id = conn[s].id)
    BY <1>7 DEF Connected
  <2>3. \A l \in 1..MaxLinks : links[l].state = "used" => links'[l].state = "used"
    BY <1>7
  <2> QED BY <1>1, <1>8, <2>1, <2>2, <2>3, NobodyWins
<1> QED BY <1>8, <1>9, <1>10, <1>11 DEF IInv

LEMMA ListCalendarsStep ==
    ASSUME IInv, NEW q \in Requests, ListCalendars(q)
    PROVE  IInv'
<1> DEFINE old == requests[q]
           r == [old EXCEPT !.step = "consuming"]
<1>1. q \in Workers /\ old \in Request /\ Fits(old) /\ old.step = "listing"
  BY TypesOf DEF Workers, ListCalendars, At
<1>2. r \in Request
  BY <1>1 DEF Request
<1>3. r.step = "consuming" /\ r.link = old.link /\ r.subject = old.subject
      /\ r.token = old.token
  BY <1>1 DEF Request
<1>4. Goes(q, r) /\ UNCHANGED <<active, links, conn, issued, dead>>
  BY DEF ListCalendars
<1> HIDE DEF r, old
<1>5. Fits(r)
  BY <1>1, <1>3 DEF Fits, ConnectSteps
<1>6. \A k \in 1..MaxLinks : ~Winner(r, k)
  BY <1>3, NotAWinner
<1> QED BY <1>1, <1>2, <1>4, <1>5, <1>6, QuietStep

\* A request that starts to release something it holds.
LEMMA StartsReleasing ==
    ASSUME IInv, NEW q \in Workers, NEW x \in Subject, NEW t \in Token,
           NEW todo \in SUBSET Staff, Goes(q, Releasing(x, t, todo)),
           UNCHANGED <<active, links, conn, issued, dead>>
    PROVE  IInv'
<1> DEFINE r == Releasing(x, t, todo)
<1>1. r \in Request /\ Fits(r) /\ r.step = "releasing"
  BY ReleasingIsOne
<1>2. \A k \in 1..MaxLinks : ~Winner(r, k)
  BY <1>1, NotAWinner
<1> HIDE DEF r
<1> QED BY <1>1, <1>2, QuietStep DEF r

LEMMA ListingFailsStep ==
    ASSUME IInv, NEW q \in Requests, ListingFails(q)
    PROVE  IInv'
<1>1. q \in Workers /\ requests[q] \in Request
  BY TypesOf DEF Workers
<1>2. requests[q].subject \in Subject /\ requests[q].token \in Token
  BY <1>1 DEF Request
<1> QED BY <1>1, <1>2, StartsReleasing DEF ListingFails

LEMMA ConsumeLinkStep ==
    ASSUME IInv, NEW q \in Requests, ConsumeLink(q)
    PROVE  IInv'
<1> DEFINE old == requests[q]
           l == old.link
<1>1. q \in Workers /\ old \in Request /\ Fits(old) /\ old.step = "consuming"
  BY TypesOf DEF Workers, ConsumeLink, At
<1>2. l \in 1..MaxLinks
  BY <1>1 DEF Fits, ConnectSteps
<1>3. CASE links[l].state # "open"
  <2>1. old.subject \in Subject /\ old.token \in Token
    BY <1>1 DEF Request
  <2> QED BY <1>1, <1>3, <2>1, StartsReleasing DEF ConsumeLink
<1>4. CASE links[l].state = "open"
  <2> DEFINE r == [old EXCEPT !.step = "reading"]
             used == [of |-> old.staff, state |-> "used"]
  <2>1. r \in Request
    BY <1>1 DEF Request
  <2>2. r.step = "reading" /\ r.link = l /\ r.subject = old.subject /\ r.token = old.token
    BY <1>1 DEF Request
  <2>3. Fits(r)
    <3> HIDE DEF r
    <3> QED BY <1>1, <2>2 DEF Fits, ConnectSteps
  <2>4. Goes(q, r) /\ links' = [links EXCEPT ![l] = used]
        /\ UNCHANGED <<active, conn, issued, dead>>
    BY <1>4 DEF ConsumeLink
  <2>5. used \in Link
    BY <1>1 DEF Request, Link
  <2> HIDE DEF r
  <2>6. /\ requests' \in [Workers -> Request] /\ RequestsFit' /\ requests'[q] = r
        /\ \A p \in Workers : p # q => requests'[p] = requests[p]
    BY <1>1, <2>1, <2>3, <2>4, RequestMoves
  <2> HIDE DEF used
  <2>7. TypeOK'
    BY <2>4, <2>5, <2>6 DEF IInv, TypeOK
  <2>8. RowsFit' /\ GoogleFits'
    BY <2>4 DEF IInv, RowsFit, GoogleFits
  <2>9. /\ links \in [1..MaxLinks -> Link] /\ links'[l].state = "used"
        /\ \A k \in 1..MaxLinks : k # l => links'[k] = links[k]
    BY <1>2, <2>4 DEF IInv, TypeOK, used
  <2>10. LinksFit'
    <3> SUFFICES ASSUME NEW k \in 1..MaxLinks
                 PROVE  /\ \A p \in Workers : Winner(requests'[p], k) =>
                              /\ links'[k].state = "used"
                              /\ \A o \in Workers : Winner(requests'[o], k) => o = p
                              /\ \A s \in Staff : Connected(s)' => conn'[s].id # k
                        /\ \A s \in Staff :
                              Connected(s)' /\ conn'[s].id = k => links'[k].state = "used"
      BY DEF LinksFit
    <3>1. /\ \A p \in Workers : Winner(requests[p], k) =>
                /\ links[k].state = "used"
                /\ \A o \in Workers : Winner(requests[o], k) => o = p
                /\ \A s \in Staff : Connected(s) => conn[s].id # k
          /\ \A s \in Staff : Connected(s) /\ conn[s].id = k => links[k].state = "used"
      BY DEF IInv, LinksFit
    <3>2. conn' = conn /\ \A s \in Staff : Connected(s)' <=> Connected(s)
      BY <2>4 DEF Connected
    <3>3. CASE k = l
      <4>1. \A p \in Workers : ~Winner(requests[p], k)
        BY <1>4, <3>1, <3>3
      <4>2. \A p \in Workers : Winner(requests'[p], k) => p = q
        BY <4>1, <2>6
      <4>3. \A s \in Staff : Connected(s) => conn[s].id # k
        BY <1>4, <3>1, <3>3
      <4> QED BY <4>2, <4>3, <3>2, <3>3, <2>9
    <3>4. CASE k # l
      <4>1. ~Winner(requests'[q], k)
        BY <2>2, <2>6, <3>4 DEF Winner
      <4>2. \A p \in Workers : Winner(requests'[p], k) => Winner(requests[p], k)
        BY <4>1, <2>6
      <4> QED BY <4>2, <3>1, <3>2, <3>4, <2>9
    <3> QED BY <3>3, <3>4
  <2> QED BY <2>6, <2>7, <2>8, <2>10 DEF IInv
<1> QED BY <1>3, <1>4

LEMMA ReadPreviousStep ==
    ASSUME IInv, NEW q \in Requests, ReadPrevious(q)
    PROVE  IInv'
<1> DEFINE old == requests[q]
           r == [old EXCEPT !.step = "looking", !.previous = conn[old.staff]]
<1>1. q \in Workers /\ old \in Request /\ Fits(old) /\ old.step = "reading"
      /\ conn \in [Staff -> Row]
  BY TypesOf DEF Workers, ReadPrevious, At
<1>2. conn[old.staff] \in Row
  BY <1>1 DEF Request
<1>3. r \in Request
  BY <1>1, <1>2 DEF Request
<1>4. r.step = "looking" /\ r.link = old.link /\ r.subject = old.subject
      /\ r.token = old.token
  BY <1>1 DEF Request
<1>5. Goes(q, r) /\ UNCHANGED <<active, links, conn, issued, dead>>
  BY DEF ReadPrevious
<1> HIDE DEF r
<1>6. Fits(r)
  BY <1>1, <1>4 DEF Fits, ConnectSteps
<1>7. \A k \in 1..MaxLinks : Winner(r, k) => Winner(old, k)
  BY <1>1, <1>4 DEF Winner
<1> QED BY <1>1, <1>3, <1>5, <1>6, <1>7, QuietStep

LEMMA LookUpStep ==
    ASSUME IInv, NEW q \in Requests, LookUp(q)
    PROVE  IInv'
<1> DEFINE old == requests[q]
           found == IF Connected(old.staff) THEN {conn[old.staff].id} ELSE {}
           r == [old EXCEPT !.step = "writing", !.ids = found]
<1>1. q \in Workers /\ old \in Request /\ Fits(old) /\ old.step = "looking"
      /\ conn \in [Staff -> Row]
  BY TypesOf DEF Workers, LookUp, At
<1>2. conn[old.staff] \in Row
  BY <1>1 DEF Request
<1>3. found \in SUBSET (0..MaxLinks)
  BY <1>2 DEF Row
<1>4. Goes(q, r) /\ UNCHANGED <<active, links, conn, issued, dead>>
  BY DEF LookUp
<1> HIDE DEF found
<1>5. r \in Request
  BY <1>1, <1>3 DEF Request
<1>6. r.step = "writing" /\ r.link = old.link /\ r.subject = old.subject
      /\ r.token = old.token
  BY <1>1 DEF Request
<1> HIDE DEF r
<1>7. Fits(r)
  BY <1>1, <1>6 DEF Fits, ConnectSteps
<1>8. \A k \in 1..MaxLinks : Winner(r, k) => Winner(old, k)
  BY <1>1, <1>6 DEF Winner
<1> QED BY <1>1, <1>4, <1>5, <1>7, <1>8, QuietStep

LEMMA UpsertStep ==
    ASSUME IInv, NEW q \in Requests, Upsert(q)
    PROVE  IInv'
<1> DEFINE old == requests[q]
           s == old.staff
           row == [id |-> IF old.ids = {} THEN old.link ELSE conn[s].id,
                   status |-> "connected", subject |-> old.subject,
                   token |-> old.token]
           r == IF Replaces(old)
                THEN Releasing(old.previous.subject, old.previous.token, {})
                ELSE Idle
<1>1. q \in Workers /\ old \in Request /\ Fits(old) /\ old.step = "writing"
      /\ conn \in [Staff -> Row] /\ links \in [1..MaxLinks -> Link]
  BY TypesOf DEF Workers, Upsert, At
<1>2. s \in Staff /\ old.link \in 1..MaxLinks /\ old.subject = old.token.of
      /\ old.previous \in Row /\ old.token \in Token /\ old.subject \in Subject
      /\ old.link \in 0..MaxLinks
  BY <1>1 DEF Request, Fits, ConnectSteps
<1>3. conn[s] \in Row /\ conn[s].id \in 0..MaxLinks
  BY <1>1, <1>2 DEF Row
<1>4. row \in Row
  BY <1>2, <1>3 DEF Row
<1>5. r \in Request /\ Fits(r) /\ r.step \in {"idle", "releasing"}
  <2>1. old.previous.subject \in Subject /\ old.previous.token \in Token
    BY <1>2 DEF Row
  <2> QED BY <2>1, IdleIsOne, ReleasingIsOne
<1>6. Goes(q, r) /\ conn' = [conn EXCEPT ![s] = row] /\ Hits(q)
      /\ UNCHANGED <<active, links, issued, dead>>
  BY DEF Upsert
<1>7. row.id = (IF old.ids = {} THEN old.link ELSE conn[s].id)
      /\ row.status = "connected" /\ row.subject = row.token.of
  BY <1>2
<1>8. \A k \in 1..MaxLinks : ~Winner(r, k)
  BY <1>5, NotAWinner
<1> HIDE DEF r, row
<1>9. CASE old.ids # {}
  <2>1. Connected(s) /\ row.id = conn[s].id
    BY <1>6, <1>7, <1>9 DEF Hits
  <2> QED BY <1>1, <1>2, <1>4, <1>5, <1>6, <1>7, <1>8, <2>1, RowWritten
<1>10. CASE old.ids = {}
  <2>1. ~Connected(s) /\ row.id = old.link
    BY <1>6, <1>7, <1>10 DEF Hits
  <2>2. Winner(old, old.link)
    BY <1>1 DEF Winner
  <2>3. /\ requests' \in [Workers -> Request] /\ RequestsFit' /\ requests'[q] = r
        /\ \A p \in Workers : p # q => requests'[p] = requests[p]
    BY <1>1, <1>5, <1>6, RequestMoves
  <2>4. /\ conn' \in [Staff -> Row] /\ conn'[s] = row
        /\ \A t \in Staff : t # s => conn'[t] = conn[t]
    BY <1>1, <1>2, <1>4, <1>6
  <2>5. TypeOK'
    BY <1>6, <2>3, <2>4 DEF IInv, TypeOK
  <2>6. RowsFit' /\ GoogleFits'
    BY <1>6, <1>7, <2>4 DEF IInv, RowsFit, GoogleFits
  <2>7. LinksFit'
    <3> SUFFICES ASSUME NEW k \in 1..MaxLinks
                 PROVE  /\ \A p \in Workers : Winner(requests'[p], k) =>
                              /\ links'[k].state = "used"
                              /\ \A o \in Workers : Winner(requests'[o], k) => o = p
                              /\ \A t \in Staff : Connected(t)' => conn'[t].id # k
                        /\ \A t \in Staff :
                              Connected(t)' /\ conn'[t].id = k => links'[k].state = "used"
      BY DEF LinksFit
    <3>1. /\ \A p \in Workers : Winner(requests[p], k) =>
                /\ links[k].state = "used"
                /\ \A o \in Workers : Winner(requests[o], k) => o = p
                /\ \A t \in Staff : Connected(t) => conn[t].id # k
          /\ \A t \in Staff : Connected(t) /\ conn[t].id = k => links[k].state = "used"
      BY DEF IInv, LinksFit
    <3>2. \A p \in Workers : Winner(requests'[p], k) => p # q /\ Winner(requests[p], k)
      BY <1>8, <2>3
    <3>3. \A t \in Staff : t # s /\ Connected(t)' => Connected(t) /\ conn'[t].id = conn[t].id
      BY <2>4 DEF Connected
    <3>4. CASE k = old.link
      <4>1. links[k].state = "used" /\ \A p \in Workers : ~Winner(requests'[p], k)
        BY <1>1, <2>2, <3>1, <3>2, <3>4
      <4> QED BY <4>1, <1>6
    <3>5. CASE k # old.link
      <4>1. conn'[s].id # k
        BY <2>1, <2>4, <3>5
      <4> QED BY <4>1, <3>1, <3>2, <3>3, <1>6
    <3> QED BY <3>4, <3>5
  <2> QED BY <2>3, <2>5, <2>6, <2>7 DEF IInv
<1> QED BY <1>9, <1>10

\* A request that starts to remove.
LEMMA StartsRemoving ==
    ASSUME IInv, NEW q \in Workers, NEW todo \in SUBSET Staff,
           Goes(q, Removing(todo)),
           UNCHANGED <<active, links, conn, issued, dead>>
    PROVE  IInv'
<1> DEFINE r == Removing(todo)
<1>1. r \in Request /\ Fits(r) /\ r.step = "removing"
  BY RemovingIsOne
<1>2. \A k \in 1..MaxLinks : ~Winner(r, k)
  BY <1>1, NotAWinner
<1> HIDE DEF r
<1> QED BY <1>1, <1>2, QuietStep DEF r

LEMMA BecomesIdle ==
    ASSUME IInv, NEW q \in Workers, Goes(q, Idle),
           UNCHANGED <<active, links, conn, issued, dead>>
    PROVE  IInv'
<1>1. \A k \in 1..MaxLinks : ~Winner(Idle, k)
  BY IdleIsOne, NotAWinner
<1> QED BY <1>1, IdleIsOne, QuietStep

LEMMA DeactivateStep ==
    ASSUME IInv, NEW q \in Requests, NEW s \in Staff, Deactivate(q, s)
    PROVE  IInv'
<1> DEFINE r == Removing({s})
<1>1. q \in Workers /\ r \in Request /\ Fits(r) /\ r.step = "removing"
  BY RemovingIsOne DEF Workers
<1>2. Goes(q, r) /\ active' = [active EXCEPT ![s] = FALSE]
      /\ UNCHANGED <<links, conn, issued, dead>>
  BY DEF Deactivate
<1> HIDE DEF r
<1>3. /\ requests' \in [Workers -> Request] /\ RequestsFit' /\ requests'[q] = r
      /\ \A p \in Workers : p # q => requests'[p] = requests[p]
  BY <1>1, <1>2, RequestMoves
<1>4. TypeOK'
  BY <1>2, <1>3 DEF IInv, TypeOK
<1>5. RowsFit' /\ GoogleFits'
  BY <1>2 DEF IInv, RowsFit, GoogleFits
<1>6. LinksFit'
  <2>1. \A k \in 1..MaxLinks : ~Winner(requests'[q], k)
    BY <1>1, <1>3, NotAWinner
  <2>2. \A t \in Staff : Connected(t)' =>
            conn'[t].id = 0 \/ (Connected(t) /\ conn'[t].id = conn[t].id)
    BY <1>2 DEF Connected
  <2>3. \A l \in 1..MaxLinks : links[l].state = "used" => links'[l].state = "used"
    BY <1>2
  <2> QED BY <1>1, <1>3, <2>1, <2>2, <2>3, NobodyWins
<1> QED BY <1>3, <1>4, <1>5, <1>6 DEF IInv

LEMMA DisconnectAllStep ==
    ASSUME IInv, NEW q \in Requests, NEW a \in Accounts, DisconnectAll(q, a)
    PROVE  IInv'
<1> DEFINE todo == OfSubject(a)
           r == [Idle EXCEPT !.step = "removing", !.todo = todo,
                             !.subject = a, !.once = TRUE]
<1>1. q \in Workers /\ todo \in SUBSET Staff
  BY DEF Workers, OfSubject
<1>2. Goes(q, r) /\ UNCHANGED <<active, links, conn, issued, dead>>
  BY DEF DisconnectAll
<1> HIDE DEF todo
<1>3. r \in Request
  BY <1>1, IdleIsOne DEF Request, Subject
<1>4. r.step = "removing" /\ r.once
  BY IdleIsOne DEF Request
<1> HIDE DEF r
<1>5. Fits(r)
  BY <1>4 DEF Fits, ConnectSteps
<1>6. \A k \in 1..MaxLinks : ~Winner(r, k)
  BY <1>4, NotAWinner
<1> QED BY <1>1, <1>2, <1>3, <1>5, <1>6, QuietStep

LEMMA DeleteRowStep ==
    ASSUME IInv, NEW q \in Workers, NEW s \in Staff, DeleteRow(q, s)
    PROVE  IInv'
<1> DEFINE old == requests[q]
           row == conn[s]
           left == old.todo \ {s}
           token == IF old.token.n = 0 THEN row.token ELSE old.token
           on == [old EXCEPT !.step = IF left = {} THEN "releasing" ELSE "removing",
                             !.todo = left, !.token = token]
           r == IF old.once THEN on ELSE Releasing(row.subject, row.token, left)
<1>1. old \in Request /\ Fits(old) /\ conn \in [Staff -> Row]
  BY TypesOf
<1>2. row.token \in Token /\ row.subject \in Subject /\ old.token \in Token
      /\ left \in SUBSET Staff
  BY <1>1 DEF Row, Request
<1>3. Goes(q, r) /\ conn' = [conn EXCEPT ![s] = NoRow]
      /\ UNCHANGED <<active, links, issued, dead>>
  BY DEF DeleteRow
<1>4. r \in Request /\ Fits(r) /\ r.step \in {"releasing", "removing"}
  <2>1. CASE old.once
    <3>1. token \in Token
      BY <1>2
    <3> HIDE DEF token, left
    <3>2. on \in Request
      BY <1>1, <1>2, <3>1 DEF Request
    <3>3. on.step \in {"releasing", "removing"} /\ on.once
      BY <1>1, <2>1 DEF Request
    <3> HIDE DEF on
    <3>4. Fits(on)
      BY <3>3 DEF Fits, ConnectSteps
    <3> QED BY <2>1, <3>2, <3>3, <3>4
  <2>2. CASE ~old.once
    <3> DEFINE rel == Releasing(row.subject, row.token, left)
    <3>1. rel \in Request /\ Fits(rel) /\ rel.step = "releasing"
      BY <1>2, ReleasingIsOne
    <3>2. r = rel
      BY <2>2
    <3> HIDE DEF rel, r
    <3> QED BY <3>1, <3>2
  <2> QED BY <2>1, <2>2
<1> HIDE DEF r
<1>5. \A k \in 1..MaxLinks : ~Winner(r, k)
  BY <1>4, NotAWinner
<1>6. /\ NoRow.token.n > 0 => /\ NoRow.status = "connected"
                               /\ NoRow.subject \in {Unknown, NoRow.token.of}
      /\ NoRow.status # "none" => Connected(s) /\ NoRow.id = conn[s].id
  BY NoRowIsOne
<1>7. NoRow \in Row
  BY NoRowIsOne
<1> QED BY <1>3, <1>4, <1>5, <1>6, <1>7, RowWritten

\* What releaseGrant leaves behind: the next connection, or nothing.
LEMMA ReleasedStep ==
    ASSUME IInv, NEW q \in Workers, Released(q),
           UNCHANGED <<active, links, conn, issued, dead>>
    PROVE  IInv'
<1>1. requests[q].todo \in SUBSET Staff
  BY TypesOf DEF Request
<1> QED BY <1>1, BecomesIdle, StartsRemoving DEF Released

LEMMA ListOthersStep ==
    ASSUME IInv, NEW q \in Workers, ListOthers(q)
    PROVE  IInv'
<1> DEFINE old == requests[q]
           seen == {conn[s].token : s \in {t \in Staff : conn[t].subject # Unknown}}
           r == [old EXCEPT !.step = "revoking", !.seen = seen]
<1>1. old \in Request /\ conn \in [Staff -> Row]
  BY TypesOf
<1>2. CASE Revocable(old)
  <2>1. Goes(q, r) /\ UNCHANGED <<active, links, conn, issued, dead>>
    BY <1>2 DEF ListOthers
  <2>2. \A s \in Staff : conn[s].token \in Token
    BY <1>1 DEF Row
  <2>3. \A t \in seen : t \in Token
    BY <2>2
  <2>4. \A t \in seen : t.n > 0 => t.of # old.subject
    <3> SUFFICES ASSUME NEW s \in Staff, conn[s].subject # Unknown, conn[s].token.n > 0,
                        conn[s].token.of = old.subject
                 PROVE  FALSE
      OBVIOUS
    <3>1. conn[s].status = "connected" /\ conn[s].subject = old.subject
      BY DEF IInv, RowsFit
    <3>2. s \in InUseBy(old.subject)
      BY <3>1 DEF InUseBy, OfSubject, Connected
    <3> QED BY <3>2, <1>2 DEF Revocable
  <2> HIDE DEF seen
  <2>5. r \in Request
    <3>1. seen \in SUBSET Token
      BY <2>3
    <3> QED BY <1>1, <3>1 DEF Request
  <2>6. r.step = "revoking" /\ r.seen = seen /\ r.subject = old.subject
    BY <1>1 DEF Request
  <2> HIDE DEF r
  <2>7. Fits(r)
    BY <2>4, <2>6 DEF Fits, ConnectSteps
  <2>8. \A k \in 1..MaxLinks : ~Winner(r, k)
    BY <2>6, NotAWinner
  <2> QED BY <2>1, <2>5, <2>7, <2>8, QuietStep
<1>3. CASE ~Revocable(old)
  BY <1>3, ReleasedStep DEF ListOthers
<1> QED BY <1>2, <1>3

LEMMA RevokeGrantStep ==
    ASSUME IInv, NEW q \in Workers, RevokeGrant(q)
    PROVE  IInv'
<1> DEFINE old == requests[q]
           r == IF old.todo = {} THEN Idle ELSE Removing(old.todo)
<1>1. old \in Request /\ issued \in [Accounts -> Nat] /\ dead \in [Accounts -> Nat]
  BY TypesOf
<1>2. old.token.of \in Accounts /\ old.todo \in SUBSET Staff
  BY <1>1 DEF Request, Token
<1>3. r \in Request /\ Fits(r) /\ r.step \in {"idle", "removing"}
  BY <1>2, IdleIsOne, RemovingIsOne
<1>4. Goes(q, r) /\ UNCHANGED <<active, links, conn, issued>>
      /\ dead' \in {dead, [dead EXCEPT ![old.token.of] = issued[old.token.of]]}
  BY DEF RevokeGrant, Released
<1> HIDE DEF r
<1>5. /\ requests' \in [Workers -> Request] /\ RequestsFit' /\ requests'[q] = r
      /\ \A p \in Workers : p # q => requests'[p] = requests[p]
  BY <1>3, <1>4, RequestMoves
<1>6. dead' \in [Accounts -> Nat] /\ GoogleFits'
  BY <1>1, <1>2, <1>4 DEF IInv, GoogleFits
<1>7. TypeOK' /\ RowsFit'
  BY <1>4, <1>5, <1>6 DEF IInv, TypeOK, RowsFit
<1>8. LinksFit'
  <2>1. \A k \in 1..MaxLinks : ~Winner(requests'[q], k)
    BY <1>3, <1>5, NotAWinner
  <2>2. \A t \in Staff : Connected(t)' =>
            conn'[t].id = 0 \/ (Connected(t) /\ conn'[t].id = conn[t].id)
    BY <1>4 DEF Connected
  <2>3. \A l \in 1..MaxLinks : links[l].state = "used" => links'[l].state = "used"
    BY <1>4
  <2> QED BY <1>5, <2>1, <2>2, <2>3, NobodyWins
<1> QED BY <1>5, <1>6, <1>7, <1>8 DEF IInv

LEMMA ReadForLoadStep ==
    ASSUME IInv, NEW q \in Requests, NEW s \in Staff, ReadForLoad(q, s)
    PROVE  IInv'
<1> DEFINE id == conn[s].id
           t == conn[s].token
           r == [Idle EXCEPT !.step = "asking", !.staff = s, !.ids = {id}, !.token = t]
<1>1. q \in Workers /\ conn[s] \in Row
  BY TypesOf DEF Workers
<1>2. id \in 0..MaxLinks /\ t \in Token
  BY <1>1 DEF Row
<1>3. Goes(q, r) /\ UNCHANGED <<active, links, conn, issued, dead>>
  BY DEF ReadForLoad
<1> HIDE DEF id, t
<1>4. r \in Request
  BY <1>2, IdleIsOne DEF Request
<1>5. r.step = "asking"
  BY IdleIsOne DEF Request
<1> HIDE DEF r
<1>6. Fits(r)
  BY <1>5 DEF Fits, ConnectSteps
<1>7. \A k \in 1..MaxLinks : ~Winner(r, k)
  BY <1>5, NotAWinner
<1> QED BY <1>1, <1>3, <1>4, <1>6, <1>7, QuietStep

LEMMA AskStep ==
    ASSUME IInv, NEW q \in Requests, Ask(q)
    PROVE  IInv'
<1> DEFINE old == requests[q]
           step == IF Live(old.token) THEN "saving" ELSE "failing"
           r == [old EXCEPT !.step = step]
<1>1. q \in Workers /\ old \in Request
  BY TypesOf DEF Workers
<1>2. step \in {"saving", "failing"}
  OBVIOUS
<1>3. Goes(q, r) /\ UNCHANGED <<active, links, conn, issued, dead>>
  BY DEF Ask
<1> HIDE DEF step
<1>4. r \in Request /\ r.step = step
  BY <1>1, <1>2 DEF Request
<1> HIDE DEF r
<1>5. Fits(r)
  BY <1>2, <1>4 DEF Fits, ConnectSteps
<1>6. \A k \in 1..MaxLinks : ~Winner(r, k)
  BY <1>2, <1>4, NotAWinner
<1> QED BY <1>1, <1>3, <1>4, <1>5, <1>6, QuietStep

\* A status is saved in a row that keeps its id.
LEMMA SaveStatusStep ==
    ASSUME IInv, NEW q \in Requests, NEW step, NEW row,
           conn[requests[q].staff].status # "none" => row \in Row,
           row.id = conn[requests[q].staff].id,
           row.token.n > 0 => /\ row.status = "connected"
                              /\ row.subject \in {Unknown, row.token.of},
           SaveStatus(q, step, row)
    PROVE  IInv'
<1> DEFINE s == requests[q].staff
<1>1. q \in Workers /\ requests[q] \in Request /\ conn \in [Staff -> Row]
  BY TypesOf DEF Workers
<1>2. s \in Staff
  BY <1>1 DEF Request
<1>3. Goes(q, Idle) /\ UNCHANGED <<active, links, issued, dead>>
  BY DEF SaveStatus
<1>4. \A k \in 1..MaxLinks : Winner(Idle, k) => Winner(requests[q], k)
  BY IdleIsOne, NotAWinner
<1>5. CASE conn' = conn
  BY <1>1, <1>3, <1>5, BecomesIdle
<1>6. CASE Connected(s) /\ conn' = [conn EXCEPT ![s] = row]
  <2>1. row \in Row
    BY <1>6 DEF Connected
  <2>2. row.status # "none" => Connected(s) /\ row.id = conn[s].id
    BY <1>6
  <2> HIDE DEF s
  <2> QED BY <1>1, <1>2, <1>3, <1>4, <1>6, <2>1, <2>2, IdleIsOne, RowWritten
<1> QED BY <1>5, <1>6 DEF SaveStatus

LEMMA SaveBusyStep ==
    ASSUME IInv, NEW q \in Requests, SaveBusy(q)
    PROVE  IInv'
<1> DEFINE s == requests[q].staff
           row == [conn[s] EXCEPT !.status = "connected"]
<1>1. requests[q] \in Request /\ conn \in [Staff -> Row]
  BY TypesOf DEF Workers
<1>2. s \in Staff
  BY <1>1 DEF Request
<1>3. conn[s] \in Row
  BY <1>1, <1>2
<1>4. /\ row \in Row /\ row.id = conn[s].id /\ row.token = conn[s].token
      /\ row.subject = conn[s].subject /\ row.status = "connected"
  BY <1>3 DEF Row
<1>5. SaveStatus(q, "saving", row)
  BY DEF SaveBusy
<1> HIDE DEF row
<1>6. row.token.n > 0 => row.subject \in {Unknown, row.token.of}
  BY <1>2, <1>4 DEF IInv, RowsFit
<1> QED BY <1>4, <1>5, <1>6, SaveStatusStep

LEMMA SaveRevokedStep ==
    ASSUME IInv, NEW q \in Requests, SaveRevoked(q)
    PROVE  IInv'
<1> DEFINE s == requests[q].staff
           row == [conn[s] EXCEPT !.status = "revoked", !.token = NoToken]
<1>1. requests[q] \in Request /\ conn \in [Staff -> Row]
  BY TypesOf DEF Workers
<1>2. s \in Staff
  BY <1>1 DEF Request
<1>3. conn[s] \in Row
  BY <1>1, <1>2
<1>4. row \in Row /\ row.id = conn[s].id /\ row.token = NoToken
  BY <1>3, NoTokenIsOne DEF Row
<1>5. SaveStatus(q, "failing", row)
  BY DEF SaveRevoked
<1> HIDE DEF row
<1>6. ~(row.token.n > 0)
  BY <1>4, NoTokenIsOne
<1> QED BY <1>4, <1>5, <1>6, SaveStatusStep

\* What is not done by a request: links, people, and the account's owner.
LEMMA IssueLinksStep ==
    ASSUME IInv, NEW s \in Staff, NEW new \in SUBSET (1..MaxLinks), IssueLinks(s, new)
    PROVE  IInv'
<1>1. links \in [1..MaxLinks -> Link]
  BY DEF IInv, TypeOK
<1>2. /\ links' \in [1..MaxLinks -> Link]
      /\ \A l \in 1..MaxLinks : links[l].state = "used" => links'[l].state = "used"
  BY <1>1 DEF IssueLinks, Link, Unissued
<1>3. UNCHANGED <<active, conn, issued, dead, requests>>
  BY DEF IssueLinks
<1> QED BY <1>2, <1>3
        DEF IInv, TypeOK, RequestsFit, RowsFit, GoogleFits, LinksFit, Connected

LEMMA ExpireLinkStep ==
    ASSUME IInv, NEW l \in 1..MaxLinks, ExpireLink(l)
    PROVE  IInv'
<1>1. links \in [1..MaxLinks -> Link]
  BY DEF IInv, TypeOK
<1>2. /\ links' \in [1..MaxLinks -> Link]
      /\ \A k \in 1..MaxLinks : links[k].state = "used" => links'[k].state = "used"
  BY <1>1 DEF ExpireLink, Link
<1>3. UNCHANGED <<active, conn, issued, dead, requests>>
  BY DEF ExpireLink
<1> QED BY <1>2, <1>3
        DEF IInv, TypeOK, RequestsFit, RowsFit, GoogleFits, LinksFit, Connected

LEMMA OutsideStep ==
    ASSUME IInv,
           \/ \E s \in Staff : Reactivate(s)
           \/ \E a \in Accounts : Withdraw(a)
    PROVE  IInv'
<1>1. /\ active \in [Staff -> BOOLEAN] /\ dead \in [Accounts -> Nat]
      /\ issued \in [Accounts -> Nat]
  BY DEF IInv, TypeOK
<1>2. ASSUME NEW s \in Staff, Reactivate(s)
      PROVE  IInv'
  BY <1>1, <1>2 DEF Reactivate, IInv, TypeOK, RequestsFit, RowsFit, GoogleFits, LinksFit,
                    Connected
<1>3. ASSUME NEW a \in Accounts, Withdraw(a)
      PROVE  IInv'
  <2>1. dead' \in [Accounts -> Nat] /\ GoogleFits'
    BY <1>1, <1>3 DEF Withdraw, IInv, GoogleFits
  <2> QED BY <1>3, <2>1 DEF Withdraw, IInv, TypeOK, RequestsFit, RowsFit, LinksFit, Connected
<1> QED BY <1>2, <1>3

-----------------------------------------------------------------------------
(* The invariant                                                           *)

LEMMA InitIInv == Init => IInv
<1> SUFFICES ASSUME Init PROVE IInv
  OBVIOUS
<1>1. \A s \in Staff : /\ conn[s] \in Row
                       /\ conn[s].id = 0
                       /\ conn[s].token.n > 0 =>
                             /\ conn[s].status = "connected"
                             /\ conn[s].subject \in {Unknown, conn[s].token.of}
  <2> TAKE s \in Staff
  <2>1. conn[s] = RowBefore(s)
    BY DEF Init
  <2>2. CASE Before[s].account = Unknown
    BY <2>1, <2>2, NoRowIsOne DEF RowBefore, NoRow
  <2>3. CASE Before[s].account # Unknown
    <3>1. Before[s].account \in Accounts /\ Before[s].subject \in Subject
          /\ Before[s].subject \in {Unknown, Before[s].account}
      BY <2>3, ExternalGrantsAssumption DEF Subject
    <3>2. conn[s] = [id |-> 0, status |-> "connected", subject |-> Before[s].subject,
                     token |-> [of |-> Before[s].account, n |-> 1]]
      BY <2>1, <2>3 DEF RowBefore
    <3> QED BY <3>1, <3>2, ExternalGrantsAssumption DEF Row, Token
  <2> QED BY <2>2, <2>3
<1>2. conn \in [Staff -> Row]
  BY <1>1 DEF Init
<1>3. requests \in [Workers -> Request] /\ RequestsFit
  BY IdleIsOne DEF Init, RequestsFit
<1>4. links \in [1..MaxLinks -> Link]
  <2>1. (CHOOSE s \in Staff : TRUE) \in Staff
    BY ExternalGrantsAssumption
  <2> QED BY <2>1 DEF Init, Link
<1>5. /\ active \in [Staff -> BOOLEAN] /\ issued \in [Accounts -> Nat]
      /\ dead \in [Accounts -> Nat] /\ GoogleFits
  BY DEF Init, GoogleFits
<1>6. LinksFit
  <2>1. \A q \in Workers : requests[q] = Idle
    BY DEF Init
  <2>2. \A q \in Workers, l \in 1..MaxLinks : ~Winner(requests[q], l)
    BY <2>1, IdleIsOne, NotAWinner
  <2>3. ASSUME NEW l \in 1..MaxLinks, NEW s \in Staff
        PROVE  conn[s].id # l
    <3>1. l # 0
      BY ExternalGrantsAssumption
    <3>2. conn[s].id = 0
      BY <1>1
    <3> QED BY <3>1, <3>2
  <2> QED BY <2>2, <2>3 DEF LinksFit
<1> QED BY <1>1, <1>2, <1>3, <1>4, <1>5, <1>6 DEF IInv, TypeOK, RowsFit

LEMMA StepIInv == IInv /\ [Next]_vars => IInv'
<1> SUFFICES ASSUME IInv, [Next]_vars PROVE IInv'
  OBVIOUS
<1>1. ASSUME NEW q \in Requests, Connecting(q)
      PROVE  IInv'
  BY <1>1, StartConnectStep, ConsentStep, ListCalendarsStep, ListingFailsStep,
     ConsumeLinkStep, ReadPreviousStep, LookUpStep, UpsertStep DEF Connecting
<1>2. ASSUME NEW q \in Requests, Disconnecting(q)
      PROVE  IInv'
  <2>1. q \in Workers
    BY DEF Workers
  <2>2. ASSUME NEW s \in Staff, Disconnect(q, s)
        PROVE  IInv'
    <3>1. {s} \in SUBSET Staff /\ Goes(q, Removing({s}))
          /\ UNCHANGED <<active, links, conn, issued, dead>>
      BY <2>2 DEF Disconnect
    <3> QED BY <2>1, <3>1, StartsRemoving
  <2> QED BY <1>2, <2>2, DeactivateStep, DisconnectAllStep DEF Disconnecting
<1>3. ASSUME NEW q \in Requests, Loading(q)
      PROVE  IInv'
  BY <1>3, ReadForLoadStep, AskStep, SaveBusyStep, SaveRevokedStep DEF Loading
<1>4. ASSUME NEW q \in Workers, Working(q)
      PROVE  IInv'
  <2>1. ASSUME RevokeFails(q) PROVE IInv'
    BY <2>1, ReleasedStep DEF RevokeFails
  <2>2. ASSUME Abandon(q) PROVE IInv'
    BY <2>2, BecomesIdle DEF Abandon
  <2> QED BY <1>4, <2>1, <2>2, DeleteRowStep, ListOthersStep, RevokeGrantStep DEF Working
<1>5. ASSUME StartCleanup PROVE IInv'
  <2>1. Cleaner \in Workers /\ Due \in SUBSET Staff
    BY DEF Workers, Due
  <2> QED BY <1>5, <2>1, StartsRemoving DEF StartCleanup
<1>6. ASSUME UNCHANGED vars PROVE IInv'
  BY <1>6 DEF vars, IInv, TypeOK, RequestsFit, RowsFit, GoogleFits, LinksFit, Connected
<1>7. CASE Next
  BY <1>1, <1>2, <1>3, <1>4, <1>5, <1>7, IssueLinksStep, ExpireLinkStep, OutsideStep DEF Next
<1> QED BY <1>6, <1>7

\* The invariant holds whatever the crashes, the failures and the order of steps.
THEOREM Invariance == Spec => []IInv
BY InitIInv, StepIInv, PTL DEF Spec

\* Rows, links, tokens and what every request holds have their types.
THEOREM TypeCorrect == Spec => []TypeOK
<1>1. IInv => TypeOK
  BY DEF IInv
<1> QED BY <1>1, Invariance, PTL

\* A connect link opens one connection, however many flows started with it.
THEOREM SingleUse == Spec => []LinksOpenOnce
<1>1. IInv => LinksOpenOnce
  BY DEF IInv, LinksFit, LinksOpenOnce, Won, Winner, Workers
<1> QED BY <1>1, Invariance, PTL

-----------------------------------------------------------------------------
(* What ServiceOS's own revocations take                                   *)

\* What a revocation cuts off was not among the rows its request had seen.
LEMMA SettledStep ==
    ASSUME IInv, NEW q \in Workers, NEW s \in Staff,
           RevokeGrant(q), requests[q].subject = requests[q].token.of,
           conn[s].token \in requests[q].seen, Live(conn[s].token)
    PROVE  Live(conn[s].token)'
<1> DEFINE r == requests[q]
           t == conn[s].token
<1>1. r \in Request /\ Fits(r) /\ r.step = "revoking"
      /\ conn \in [Staff -> Row] /\ dead \in [Accounts -> Nat]
  BY TypesOf DEF RevokeGrant, At
<1>2. t \in Token
  BY <1>1 DEF Row
<1>3. t.n > 0
  BY <1>1, <1>2 DEF Live, Token
<1>4. t.of # r.subject
  BY <1>1, <1>3 DEF Fits
<1>5. dead'[t.of] = dead[t.of]
  BY <1>1, <1>2, <1>4 DEF RevokeGrant, Token
<1>6. conn' = conn
  BY DEF RevokeGrant
<1> QED BY <1>5, <1>6 DEF Live

\* Giving one access back takes no other connection's that was there when
\* releaseGrant looked, whoever connects, withdraws or fails meanwhile.
THEOREM SettledOnesStay == Spec => SettledKeepTheirGrant
<1> DEFINE Stays ==
        \A q \in Workers, s \in Staff :
          /\ RevokeGrant(q) /\ requests[q].subject = requests[q].token.of
          /\ conn[s].subject # Unknown /\ conn[s].token \in requests[q].seen
          /\ Live(conn[s].token)
          => Live(conn[s].token)'
<1>1. IInv /\ [Next]_vars => [Stays]_vars
  BY SettledStep
<1> QED BY <1>1, Invariance, PTL DEF Spec, SettledKeepTheirGrant

-----------------------------------------------------------------------------
(* What is left behind at Google                                           *)

Carrying(r, a) ==
    /\ r.step \notin {"idle", "asking", "saving", "failing"}
    /\ r.token.of = a /\ Live(r.token)

\* A row or a request that still has the access of the account.
Keeper(a) ==
    \/ \E s \in Staff : conn[s].token.of = a /\ Live(conn[s].token)
    \/ \E q \in Workers : Carrying(requests[q], a)

LEMMA OrphanHasNoKeeper ==
    ASSUME NEW a
    PROVE  Orphan(a) <=> dead[a] < issued[a] /\ ~Keeper(a)
BY DEF Orphan, Keeper, Carries, Carrying

LEMMA OrphanHasNoKeeperThen ==
    ASSUME NEW a
    PROVE  Orphan(a)' <=> dead'[a] < issued'[a] /\ ~Keeper(a)'
BY DEF Orphan, Keeper, Carries, Carrying

\* A request that goes on, and one row that is written: as long as each hands
\* over what it had, somebody keeps the access.
LEMMA KeptOn ==
    ASSUME IInv, NEW a \in Accounts, ~Orphan(a), NEW q \in Workers, NEW r, Goes(q, r),
           UNCHANGED <<issued, dead>>,
           NEW s \in Staff, \A o \in Staff : o # s => conn'[o] = conn[o],
           Carrying(requests[q], a) => Keeper(a)',
           conn[s].token.of = a /\ Live(conn[s].token) => Keeper(a)'
    PROVE  ~Orphan(a)'
<1> SUFFICES ASSUME dead[a] < issued[a] PROVE Keeper(a)'
  BY OrphanHasNoKeeperThen
<1>1. Keeper(a)
  BY OrphanHasNoKeeper
<1>2. ASSUME NEW o \in Staff, conn[o].token.of = a, Live(conn[o].token)
      PROVE  Keeper(a)'
  <2>1. CASE o = s
    BY <1>2, <2>1
  <2>2. CASE o # s
    <3>1. conn'[o].token.of = a /\ Live(conn[o].token)'
      BY <1>2, <2>2 DEF Live
    <3> QED BY <3>1 DEF Keeper
  <2> QED BY <2>1, <2>2
<1>3. ASSUME NEW p \in Workers, Carrying(requests[p], a)
      PROVE  Keeper(a)'
  <2>1. CASE p = q
    BY <1>3, <2>1
  <2>2. CASE p # q
    <3>1. requests'[p] = requests[p]
      BY <2>2 DEF Goes, IInv, TypeOK
    <3>2. Carrying(requests[p], a)'
      BY <1>3, <3>1 DEF Carrying, Live
    <3> QED BY <3>2 DEF Keeper
  <2> QED BY <2>1, <2>2
<1> QED BY <1>1, <1>2, <1>3 DEF Keeper

\* The same when no row is written: the request keeps its token, or had none
\* that counted.
LEMMA CarriedOn ==
    ASSUME IInv, NEW a \in Accounts, ~Orphan(a), NEW q \in Workers, NEW r, Goes(q, r),
           UNCHANGED <<conn, issued, dead>>,
           Carrying(requests[q], a) =>
               /\ r.step \notin {"idle", "asking", "saving", "failing"}
               /\ r.token = requests[q].token
    PROVE  ~Orphan(a)'
<1>1. PICK s \in Staff : TRUE
  BY ExternalGrantsAssumption
<1>2. Carrying(requests[q], a) => Keeper(a)'
  <2> SUFFICES ASSUME Carrying(requests[q], a) PROVE Carrying(requests[q], a)'
    BY DEF Keeper
  <2>1. requests'[q] = r
    BY DEF Goes, IInv, TypeOK
  <2> QED BY <2>1 DEF Carrying, Live
<1>3. conn[s].token.of = a /\ Live(conn[s].token) => Keeper(a)'
  BY DEF Keeper, Live
<1> QED BY <1>1, <1>2, <1>3, KeptOn

\* A token of number 0 is never live.
LEMMA NothingToCarry ==
    ASSUME IInv, NEW r \in Request, r.token.n = 0, NEW a
    PROVE  ~Carrying(r, a)
<1>1. r.token.of \in Accounts /\ dead \in [Accounts -> Nat]
  BY DEF Request, Token, IInv, TypeOK
<1>2. dead[r.token.of] \in Nat
  BY <1>1
<1> QED BY <1>2 DEF Carrying, Live

LEMMA ConnectingKeeps ==
    ASSUME IInv, NEW a \in Accounts, ~Orphan(a), NEW q \in Requests,
           Connecting(q), ~Overtaken(q)
    PROVE  ~Orphan(a)'
<1> DEFINE old == requests[q]
<1>1. q \in Workers /\ old \in Request /\ Fits(old)
  BY TypesOf DEF Workers
<1>2. ASSUME NEW l \in 1..MaxLinks, StartConnect(q, l)
      PROVE  ~Orphan(a)'
  <2>1. ~Carrying(old, a)
    BY <1>2 DEF StartConnect, At, Carrying
  <2> QED BY <1>1, <1>2, <2>1, CarriedOn DEF StartConnect
<1>3. ASSUME NEW b \in Accounts, Consent(q, b)
      PROVE  ~Orphan(a)'
  <2> DEFINE t == [of |-> b, n |-> issued[b] + 1]
             r == [old EXCEPT !.step = "listing", !.subject = b, !.token = t]
  <2>1. issued \in [Accounts -> Nat] /\ dead \in [Accounts -> Nat] /\ dead[b] <= issued[b]
    BY DEF IInv, TypeOK, GoogleFits
  <2>2. r.step = "listing" /\ r.token = t
    BY <1>1 DEF Request
  <2>3. requests' = [requests EXCEPT ![q] = r] /\ dead' = dead /\ conn' = conn
        /\ issued' = [issued EXCEPT ![b] = @ + 1]
    BY <1>3 DEF Consent, Goes
  <2> HIDE DEF r
  <2>4. requests'[q] = r /\ \A p \in Workers : p # q => requests'[p] = requests[p]
    BY <1>1, <2>3 DEF IInv, TypeOK
  <2>5. CASE a = b
    <3>1. Carrying(requests[q], a)'
      BY <2>1, <2>2, <2>3, <2>4, <2>5 DEF Carrying, Live
    <3> QED BY <1>1, <3>1, OrphanHasNoKeeperThen DEF Keeper
  <2>6. CASE a # b
    <3>1. issued'[a] = issued[a] /\ dead'[a] = dead[a]
      BY <2>1, <2>3, <2>6
    <3>2. ~Carrying(old, a)
      <4>1. old.token.n = 0
        BY <1>1, <1>3 DEF Consent, At, Fits
      <4> QED BY <1>1, <4>1, NothingToCarry
    <3>3. Keeper(a) => Keeper(a)'
      BY <2>3, <2>4, <3>2 DEF Keeper, Carrying, Live
    <3> QED BY <3>1, <3>3, OrphanHasNoKeeper, OrphanHasNoKeeperThen
  <2> QED BY <2>5, <2>6
<1>4. ASSUME ListCalendars(q) PROVE ~Orphan(a)'
  <2> DEFINE r == [old EXCEPT !.step = "consuming"]
  <2>1. r.step = "consuming" /\ r.token = old.token
    BY <1>1 DEF Request
  <2>2. Goes(q, r) /\ UNCHANGED <<conn, issued, dead>>
    BY <1>4 DEF ListCalendars
  <2> HIDE DEF r
  <2> QED BY <1>1, <2>1, <2>2, CarriedOn
<1>5. ASSUME Goes(q, Releasing(old.subject, old.token, {})),
             UNCHANGED <<conn, issued, dead>>
      PROVE  ~Orphan(a)'
  <2> DEFINE r == Releasing(old.subject, old.token, {})
  <2>1. old.subject \in Subject /\ old.token \in Token
    BY <1>1 DEF Request
  <2>2. r.step = "releasing" /\ r.token = old.token
    BY <2>1, ReleasingIsOne
  <2> HIDE DEF r
  <2>3. Goes(q, r)
    BY <1>5 DEF r
  <2> QED BY <1>1, <1>5, <2>2, <2>3, CarriedOn
<1>6. ASSUME ListingFails(q) PROVE ~Orphan(a)'
  BY <1>5, <1>6 DEF ListingFails
<1>7. ASSUME ConsumeLink(q) PROVE ~Orphan(a)'
  <2> DEFINE r == [old EXCEPT !.step = "reading"]
  <2>1. r.step = "reading" /\ r.token = old.token
    BY <1>1 DEF Request
  <2>2. UNCHANGED <<conn, issued, dead>>
        /\ (Goes(q, r) \/ Goes(q, Releasing(old.subject, old.token, {})))
    BY <1>7 DEF ConsumeLink
  <2> HIDE DEF r
  <2>3. CASE Goes(q, r)
    BY <1>1, <2>1, <2>2, <2>3, CarriedOn
  <2> QED BY <1>5, <2>2, <2>3
<1>8. ASSUME ReadPrevious(q) PROVE ~Orphan(a)'
  <2> DEFINE r == [old EXCEPT !.step = "looking", !.previous = conn[old.staff]]
  <2>1. r.step = "looking" /\ r.token = old.token
    BY <1>1 DEF Request
  <2>2. Goes(q, r) /\ UNCHANGED <<conn, issued, dead>>
    BY <1>8 DEF ReadPrevious
  <2> HIDE DEF r
  <2> QED BY <1>1, <2>1, <2>2, CarriedOn
<1>9. ASSUME LookUp(q) PROVE ~Orphan(a)'
  <2> DEFINE found == IF Connected(old.staff) THEN {conn[old.staff].id} ELSE {}
             r == [old EXCEPT !.step = "writing", !.ids = found]
  <2>1. Goes(q, r) /\ UNCHANGED <<conn, issued, dead>>
    BY <1>9 DEF LookUp
  <2> HIDE DEF found
  <2>2. r.step = "writing" /\ r.token = old.token
    BY <1>1 DEF Request
  <2> HIDE DEF r
  <2> QED BY <1>1, <2>1, <2>2, CarriedOn
<1>10. ASSUME Upsert(q) PROVE ~Orphan(a)'
  <2> DEFINE s == old.staff
             row == [id |-> IF old.ids = {} THEN old.link ELSE conn[s].id,
                     status |-> "connected", subject |-> old.subject,
                     token |-> old.token]
             rel == Releasing(old.previous.subject, old.previous.token, {})
             r == IF Replaces(old) THEN rel ELSE Idle
  <2>1. s \in Staff /\ conn[s] = old.previous /\ Live(old.token)
        /\ old.subject = old.token.of /\ old.previous \in Row
        /\ old.token.of \in Accounts
    BY <1>1, <1>10 DEF Overtaken, Upsert, At, Fits, ConnectSteps, Request, Token
  <2>2. rel.step = "releasing" /\ rel.token = old.previous.token
    <3>1. old.previous.subject \in Subject /\ old.previous.token \in Token
      BY <2>1 DEF Row
    <3> QED BY <3>1, ReleasingIsOne
  <2>3. Goes(q, r) /\ conn' = [conn EXCEPT ![s] = row] /\ UNCHANGED <<issued, dead>>
    BY <1>10 DEF Upsert
  <2>4. row.token = old.token
    OBVIOUS
  <2> HIDE DEF row, rel
  <2>5. conn'[s] = row /\ (\A o \in Staff : o # s => conn'[o] = conn[o])
        /\ requests'[q] = r
    BY <1>1, <2>1, <2>3 DEF IInv, TypeOK, Goes
  <2>6. old.token.of = a => Keeper(a)'
    BY <2>1, <2>3, <2>4, <2>5 DEF Keeper, Live
  <2>7. Carrying(old, a) => Keeper(a)'
    BY <2>6 DEF Carrying
  <2>8. conn[s].token.of = a /\ Live(conn[s].token) => Keeper(a)'
    <3> SUFFICES ASSUME conn[s].token.of = a, Live(conn[s].token)
                 PROVE  Keeper(a)'
      OBVIOUS
    <3>1. CASE Replaces(old)
      <4>1. requests'[q] = rel
        BY <2>5, <3>1
      <4>2. Carrying(requests[q], a)'
        BY <2>1, <2>2, <2>3, <4>1 DEF Carrying, Live
      <4> QED BY <1>1, <4>2 DEF Keeper
    <3>2. CASE ~Replaces(old)
      <4>1. conn[s].token.n > 0
        <5>1. conn[s].token \in Token /\ dead[conn[s].token.of] \in Nat
          BY <2>1 DEF IInv, TypeOK, Row, Token
        <5> QED BY <5>1 DEF Live, Token
      <4>2. conn[s].status = "connected" /\ conn[s].subject \in {Unknown, conn[s].token.of}
        BY <2>1, <4>1 DEF IInv, RowsFit
      <4>3. conn[s].subject = old.token.of
        BY <2>1, <3>2, <4>2 DEF Replaces
      <4>4. old.token.of = a
        BY <2>1, <4>2, <4>3, ExternalGrantsAssumption
      <4> QED BY <2>6, <4>4
    <3> QED BY <3>1, <3>2
  <2> HIDE DEF r, s
  <2> QED BY <1>1, <2>1, <2>3, <2>5, <2>7, <2>8, KeptOn
<1> QED BY <1>2, <1>3, <1>4, <1>6, <1>7, <1>8, <1>9, <1>10 DEF Connecting

\* A request that was idle had nothing to hand over.
LEMMA StartingKeeps ==
    ASSUME IInv, NEW a \in Accounts, ~Orphan(a), NEW q \in Workers, At(q, "idle"),
           NEW r, Goes(q, r), UNCHANGED <<conn, issued, dead>>
    PROVE  ~Orphan(a)'
<1>1. ~Carrying(requests[q], a)
  BY DEF At, Carrying
<1> QED BY <1>1, CarriedOn

LEMMA LoadingKeeps ==
    ASSUME IInv, NEW a \in Accounts, ~Orphan(a), NEW q \in Requests,
           Loading(q), ~SaveRevoked(q)
    PROVE  ~Orphan(a)'
<1> DEFINE old == requests[q]
<1>1. q \in Workers /\ old \in Request
  BY TypesOf DEF Workers
<1>2. ASSUME NEW s \in Staff, ReadForLoad(q, s)
      PROVE  ~Orphan(a)'
  BY <1>1, <1>2, StartingKeeps DEF ReadForLoad
<1>3. ASSUME Ask(q) PROVE ~Orphan(a)'
  <2>1. ~Carrying(old, a)
    BY <1>3 DEF Ask, At, Carrying
  <2> QED BY <1>1, <1>3, <2>1, CarriedOn DEF Ask
<1>4. ASSUME SaveBusy(q) PROVE ~Orphan(a)'
  <2> DEFINE s == old.staff
             row == [conn[s] EXCEPT !.status = "connected"]
  <2>1. s \in Staff /\ conn[s] \in Row /\ ~Carrying(old, a)
    BY <1>1, <1>4, TypesOf DEF SaveBusy, SaveStatus, At, Carrying, Request
  <2>2. row.token = conn[s].token
    BY <2>1 DEF Row
  <2>3. Goes(q, Idle) /\ UNCHANGED <<issued, dead>>
        /\ (conn' = conn \/ conn' = [conn EXCEPT ![s] = row])
    BY <1>4 DEF SaveBusy, SaveStatus
  <2> HIDE DEF row
  <2>4. conn'[s].token = conn[s].token /\ \A o \in Staff : o # s => conn'[o] = conn[o]
    BY <2>1, <2>2, <2>3 DEF IInv, TypeOK
  <2>5. conn[s].token.of = a /\ Live(conn[s].token) => Keeper(a)'
    BY <2>1, <2>3, <2>4 DEF Keeper, Live
  <2> HIDE DEF s
  <2> QED BY <1>1, <2>1, <2>3, <2>4, <2>5, KeptOn
<1> QED BY <1>2, <1>3, <1>4 DEF Loading

LEMMA DeletingKeeps ==
    ASSUME IInv, NEW a \in Accounts, ~Orphan(a), NEW q \in Workers, NEW s \in Staff,
           DeleteRow(q, s), ~DropsSecond(q, s)
    PROVE  ~Orphan(a)'
<1> DEFINE old == requests[q]
           row == conn[s]
           left == old.todo \ {s}
           token == IF old.token.n = 0 THEN row.token ELSE old.token
           step == IF left = {} THEN "releasing" ELSE "removing"
           on == [old EXCEPT !.step = step, !.todo = left, !.token = token]
           rel == Releasing(row.subject, row.token, left)
           r == IF old.once THEN on ELSE rel
<1>1. old \in Request /\ conn \in [Staff -> Row] /\ row \in Row
  BY TypesOf
<1>2. ~(old.token.n > 0)
  BY DEF DropsSecond
<1>3. old.token.n = 0 /\ left \in SUBSET Staff /\ row.token \in Token
      /\ row.subject \in Subject
  BY <1>1, <1>2 DEF Request, Token, Row
<1>4. on.step \in {"releasing", "removing"} /\ on.token = row.token
  <2>1. token = row.token /\ step \in {"releasing", "removing"}
    BY <1>3
  <2> HIDE DEF token, left, step
  <2> QED BY <1>1, <2>1 DEF Request
<1>5. rel.step = "releasing" /\ rel.token = row.token
  BY <1>3, ReleasingIsOne
<1>6. Goes(q, r) /\ conn' = [conn EXCEPT ![s] = NoRow] /\ UNCHANGED <<issued, dead>>
  BY DEF DeleteRow
<1> HIDE DEF on, rel, left
<1>7. r.step \in {"releasing", "removing"} /\ r.token = row.token
  BY <1>4, <1>5
<1> HIDE DEF r
<1>8. requests'[q] = r /\ \A o \in Staff : o # s => conn'[o] = conn[o]
  BY <1>6 DEF Goes, IInv, TypeOK
<1>9. ~Carrying(old, a)
  BY <1>1, <1>3, NothingToCarry
<1>10. conn[s].token.of = a /\ Live(conn[s].token) => Keeper(a)'
  <2> SUFFICES ASSUME conn[s].token.of = a, Live(conn[s].token)
               PROVE  Carrying(requests[q], a)'
    BY DEF Keeper
  <2> QED BY <1>6, <1>7, <1>8 DEF Carrying, Live
<1> QED BY <1>6, <1>8, <1>9, <1>10, KeptOn

LEMMA ListingKeeps ==
    ASSUME IInv, NEW a \in Accounts, ~Orphan(a), NEW q \in Workers,
           ListOthers(q), ~Keeps(q)
    PROVE  ~Orphan(a)'
<1> DEFINE old == requests[q]
           seen == {conn[s].token : s \in {t \in Staff : conn[t].subject # Unknown}}
           r == [old EXCEPT !.step = "revoking", !.seen = seen]
<1>1. old \in Request
  BY TypesOf
<1>2. old.subject # Unknown /\ InUseBy(old.subject) = {}
  BY DEF Keeps
<1>3. CASE Revocable(old)
  <2>1. Goes(q, r) /\ UNCHANGED <<conn, issued, dead>>
    BY <1>3 DEF ListOthers
  <2> HIDE DEF seen
  <2>2. r.step = "revoking" /\ r.token = old.token
    BY <1>1 DEF Request
  <2> HIDE DEF r
  <2> QED BY <2>1, <2>2, CarriedOn
<1>4. CASE ~Revocable(old)
  <2>1. old.token.n = 0
    BY <1>1, <1>2, <1>4 DEF Revocable, Request, Token
  <2>2. ~Carrying(old, a)
    BY <1>1, <2>1, NothingToCarry
  <2>3. UNCHANGED <<conn, issued, dead>> /\ Released(q)
    BY <1>4 DEF ListOthers
  <2> QED BY <2>2, <2>3, CarriedOn DEF Released
<1> QED BY <1>3, <1>4

LEMMA RevokingKeeps ==
    ASSUME IInv, NEW a \in Accounts, ~Orphan(a), NEW q \in Workers, RevokeGrant(q)
    PROVE  ~Orphan(a)'
<1> DEFINE t == requests[q].token
<1>1. /\ t \in Token /\ issued \in [Accounts -> Nat] /\ dead \in [Accounts -> Nat]
      /\ dead[a] <= issued[a]
  BY TypesOf DEF Request, IInv, GoogleFits
<1>2. UNCHANGED <<conn, issued>> /\ Released(q)
      /\ dead' = IF Live(t) THEN [dead EXCEPT ![t.of] = issued[t.of]] ELSE dead
  BY DEF RevokeGrant
<1>3. CASE Live(t) /\ t.of = a
  <2>1. dead'[a] = issued'[a]
    BY <1>1, <1>2, <1>3
  <2>2. dead'[a] \in Nat
    BY <1>1, <1>2, <2>1
  <2> QED BY <2>1, <2>2, OrphanHasNoKeeperThen
<1>4. CASE ~Live(t)
  <2>1. ~Carrying(requests[q], a)
    BY <1>4 DEF Carrying
  <2>2. UNCHANGED <<conn, issued, dead>>
    BY <1>2, <1>4
  <2> QED BY <1>2, <2>1, <2>2, CarriedOn DEF Released
<1>5. CASE t.of # a
  <2>1. dead'[a] = dead[a]
    BY <1>1, <1>2, <1>5 DEF Token
  <2>2. ~Carrying(requests[q], a)
    BY <1>5 DEF Carrying
  <2>3. \A p \in Workers : p # q => requests'[p] = requests[p]
    BY <1>2 DEF Released, Goes, IInv, TypeOK
  <2>4. Keeper(a) => Keeper(a)'
    <3>1. ASSUME NEW s \in Staff, conn[s].token.of = a, Live(conn[s].token)
          PROVE  Keeper(a)'
      <4>1. conn'[s].token.of = a /\ Live(conn[s].token)'
        BY <1>2, <2>1, <3>1 DEF Live
      <4> QED BY <4>1 DEF Keeper
    <3>2. ASSUME NEW p \in Workers, Carrying(requests[p], a)
          PROVE  Keeper(a)'
      <4>1. requests'[p] = requests[p]
        BY <2>2, <2>3, <3>2
      <4>2. Carrying(requests[p], a)'
        BY <2>1, <3>2, <4>1 DEF Carrying, Live
      <4> QED BY <4>2 DEF Keeper
    <3> QED BY <3>1, <3>2 DEF Keeper
  <2>5. issued'[a] = issued[a]
    BY <1>2
  <2> QED BY <2>1, <2>4, <2>5, OrphanHasNoKeeper, OrphanHasNoKeeperThen
<1> QED BY <1>3, <1>4, <1>5

\* Nobody's grant changes hands here, or its owner has taken it back.
LEMMA OutsideKeeps ==
    ASSUME IInv, NEW a \in Accounts, ~Orphan(a),
           UNCHANGED <<conn, issued, requests>>,
           dead' = dead \/ \E b \in Accounts : Withdraw(b)
    PROVE  ~Orphan(a)'
<1>1. issued \in [Accounts -> Nat] /\ dead \in [Accounts -> Nat]
  BY DEF IInv, TypeOK
<1>2. CASE dead'[a] = dead[a]
  <2>1. Keeper(a) => Keeper(a)'
    BY <1>2 DEF Keeper, Carrying, Live
  <2> QED BY <1>2, <2>1, OrphanHasNoKeeper, OrphanHasNoKeeperThen
<1>3. CASE dead'[a] = issued[a]
  <2>1. ~(dead'[a] < issued'[a])
    BY <1>1, <1>3
  <2> QED BY <2>1, OrphanHasNoKeeperThen
<1>4. dead'[a] = dead[a] \/ dead'[a] = issued[a]
  BY <1>1 DEF Withdraw
<1> QED BY <1>2, <1>3, <1>4

\* Every live grant is in a row, or in the hands of a request that will store it
\* or give it back -- unless one of the mishaps named happens.
THEOREM LeftBehind == Spec => LeftBehindOnlyByMishap
<1> DEFINE Mishap ==
        \E q \in Workers :
            \/ Abandon(q) \/ RevokeFails(q) \/ Keeps(q)
            \/ Overtaken(q) \/ SaveRevoked(q)
            \/ \E s \in Staff : DropsSecond(q, s)
           Only == \A a \in Accounts : ~Orphan(a) /\ Orphan(a)' => Mishap
<1>1. IInv /\ [Next]_vars => [Only]_vars
  <2> SUFFICES ASSUME IInv, Next, NEW a \in Accounts, ~Orphan(a), ~Mishap
               PROVE  ~Orphan(a)'
    BY DEF Only
  <2>1. ASSUME NEW q \in Requests, Connecting(q) PROVE ~Orphan(a)'
    <3>1. ~Overtaken(q)
      BY DEF Workers
    <3> QED BY <2>1, <3>1, ConnectingKeeps
  <2>2. ASSUME NEW q \in Requests, Disconnecting(q) PROVE ~Orphan(a)'
    <3>1. q \in Workers /\ At(q, "idle") /\ UNCHANGED <<conn, issued, dead>>
          /\ \E r : Goes(q, r)
      BY <2>2 DEF Workers, Disconnecting, Disconnect, Deactivate, DisconnectAll
    <3> QED BY <3>1, StartingKeeps
  <2>3. ASSUME NEW q \in Requests, Loading(q) PROVE ~Orphan(a)'
    <3>1. ~SaveRevoked(q)
      BY DEF Workers
    <3> QED BY <2>3, <3>1, LoadingKeeps
  <2>4. ASSUME NEW q \in Workers, Working(q) PROVE ~Orphan(a)'
    BY <2>4, DeletingKeeps, ListingKeeps, RevokingKeeps DEF Working
  <2>5. ASSUME StartCleanup PROVE ~Orphan(a)'
    <3>1. Cleaner \in Workers
      BY DEF Workers
    <3> QED BY <2>5, <3>1, StartingKeeps DEF StartCleanup
  <2>6. ASSUME \/ \E s \in Staff : Reactivate(s)
               \/ \E s \in Staff, new \in SUBSET (1..MaxLinks) : IssueLinks(s, new)
               \/ \E l \in 1..MaxLinks : ExpireLink(l)
               \/ \E b \in Accounts : Withdraw(b)
        PROVE  ~Orphan(a)'
    <3>1. UNCHANGED <<conn, issued, requests>>
          /\ (dead' = dead \/ \E b \in Accounts : Withdraw(b))
      BY <2>6 DEF Reactivate, IssueLinks, ExpireLink, Withdraw
    <3> QED BY <3>1, OutsideKeeps
  <2> QED BY <2>1, <2>2, <2>3, <2>4, <2>5, <2>6 DEF Next
<1> QED BY <1>1, Invariance, PTL DEF Spec, LeftBehindOnlyByMishap
=============================================================================
