------------------------- MODULE CalendarCacheProofs -------------------------
(***************************************************************************)
(* Proofs about CalendarCache, for every number of loads, connects and     *)
(* calendars and every choice of the time-outs. IInv: what each load holds *)
(* is honest about its age, and a recorded withdrawal leaves a row without *)
(* a token. LateInv, on top of it: what a load knows of the connection it  *)
(* read, which shows that the two findings on late writes have no other    *)
(* cause than a load that read another choice or another token.            *)
(***************************************************************************)
EXTENDS CalendarCache, TLAPS

Working == {"claiming", "fetching", "saving", "failing", "asking"}

Honest(cache) == cache.content.asOf >= cache.fetchedAt

\* What an answer promises about its age.
Recent(l) ==
    l.step = "answered" /\ l.kind = "busy"
    => l.got.asOf >= l.started - (IF l.cached THEN MaxStale ELSE 0)

LoadOK(l) ==
    /\ l.started <= now
    /\ Honest(l.conn.cache)
    /\ l.step = "saving" => l.got.asOf >= l.started
    /\ Recent(l)
    /\ l.wasBlocked => l.step = "answered" /\ l.kind = "unconfirmed"
    /\ l.step \in Working => l.conn.id # 0

RowOK ==
    /\ Honest(row.cache)
    /\ blocked => row.id # 0 /\ row.token = 0

IInv == TypeOK /\ RowOK /\ \A i \in Loads : LoadOK(loads[i])

-----------------------------------------------------------------------------
(* Lemmas about the operators                                              *)

\* The constants, unpacked.
LEMMA Numbers ==
    /\ MaxConnects \in Nat /\ MaxTime \in Nat /\ BrowseTtl \in Nat
    /\ CommitTtl \in Nat /\ MaxStale \in Nat /\ Backoff \in Nat
    /\ ClaimLife \in Nat /\ Retention \in Nat
    /\ CommitTtl <= MaxStale /\ BrowseTtl <= MaxStale
<1>1. /\ MaxConnects \in Nat /\ MaxTime \in Nat /\ BrowseTtl \in Nat
      /\ CommitTtl \in Nat /\ MaxStale \in Nat /\ Backoff \in Nat
      /\ ClaimLife \in Nat /\ Retention \in Nat
  BY CalendarCacheAssumption
<1> QED BY <1>1, CalendarCacheAssumption

LEMMA AbsentType == Absent \in Connection /\ NoCache \in Cache /\ Nothing \in Content
BY Numbers DEF Absent, Connection, NoCache, Cache, Nothing, Content, Stamps, Times, Never

LEMMA CopyType ==
    ASSUME NEW c \in Connection
    PROVE  CopyOf(c) \in Copy
BY DEF CopyOf, Copy, Connection

LEMMA IdleType == IdleLoad \in Load
<1>1. CopyOf(Absent) \in Copy
  BY AbsentType, CopyType
<1> QED BY <1>1, Numbers, AbsentType DEF IdleLoad, Load, Modes, Times

\* Answering keeps the types and the promises, whatever is answered.
LEMMA AnswerOK ==
    ASSUME TypeOK, NEW l \in Load, l.started <= now,
           NEW kind \in {"free", "busy", "unconfirmed"}, NEW content \in Content,
           NEW cached \in BOOLEAN,
           kind = "busy" => content.asOf >= l.started - (IF cached THEN MaxStale ELSE 0),
           l.wasBlocked => kind = "unconfirmed"
    PROVE  /\ Answer(l, kind, content, cached) \in Load
           /\ LoadOK(Answer(l, kind, content, cached))
<1> DEFINE a == Answer(l, kind, content, cached)
<1>1. CopyOf(Absent) \in Copy
  BY AbsentType, CopyType
<1>2. a \in Load
  BY <1>1 DEF Answer, Load
<1>3. /\ a.started = l.started /\ a.step = "answered" /\ a.kind = kind
      /\ a.got = content /\ a.cached = cached /\ a.wasBlocked = l.wasBlocked
      /\ a.conn = CopyOf(Absent)
  BY DEF Answer, Load
<1>4. Honest(a.conn.cache)
  BY <1>3 DEF Honest, CopyOf, Absent, NoCache, Nothing, Never
<1> QED BY <1>2, <1>3, <1>4 DEF LoadOK, Recent, Working

LEMMA UnconfirmedOK ==
    ASSUME TypeOK, NEW l \in Load, l.started <= now
    PROVE  Unconfirmed(l) \in Load /\ LoadOK(Unconfirmed(l))
BY AnswerOK, AbsentType DEF Unconfirmed

\* A cache recent enough for the policy is recent enough to answer with.
LEMMA CacheRecent ==
    ASSUME NEW cache \in Cache, NEW started \in Times, NEW ttl \in Nat,
           Honest(cache), ttl <= MaxStale, started - cache.fetchedAt <= ttl
    PROVE  cache.content.asOf >= started - MaxStale
BY Numbers DEF Honest, Cache, Content, Stamps, Times, Never

LEMMA FallbackOK ==
    ASSUME TypeOK, NEW l \in Load, LoadOK(l), ~l.wasBlocked
    PROVE  Fallback(l) \in Load /\ LoadOK(Fallback(l))
<1>1. /\ l.started <= now /\ Honest(l.conn.cache) /\ l.started \in Times
      /\ l.conn.cache \in Cache /\ l.conn.cache.content \in Content
  BY DEF LoadOK, Load, Copy, Cache
<1>2. CASE IsCacheUsableWhenStale(l.conn.cache, l.started)
  <2>1. l.conn.cache.content.asOf >= l.started - MaxStale
    BY <1>1, <1>2, CacheRecent, Numbers DEF IsCacheUsableWhenStale
  <2> QED BY <1>1, <1>2, <2>1, AnswerOK DEF Fallback
<1>3. CASE ~IsCacheUsableWhenStale(l.conn.cache, l.started)
  BY <1>1, <1>3, UnconfirmedOK DEF Fallback
<1> QED BY <1>2, <1>3

LEMMA ResolvedOK ==
    ASSUME TypeOK, RowOK, NEW l \in Load, l.step = "called", l.started <= now,
           l.wasBlocked = blocked
    PROVE  Resolved(l, row) \in Load /\ LoadOK(Resolved(l, row))
<1>1. /\ row \in Connection /\ CopyOf(row) \in Copy /\ l.started \in Times
      /\ l.mode \in Modes
      /\ row.cache \in Cache /\ row.cache.content \in Content
  BY CopyType DEF TypeOK, Connection, Cache, Load
<1>2. CASE row.id = 0
  <2>1. ~l.wasBlocked
    BY <1>2 DEF RowOK
  <2> QED BY <1>2, <2>1, AnswerOK, AbsentType DEF Resolved
<1>3. CASE row.id # 0 /\ (row.status = "revoked" \/ row.token = 0)
  BY <1>3, UnconfirmedOK DEF Resolved
<1>4. CASE row.id # 0 /\ ~(row.status = "revoked" \/ row.token = 0)
  <2>1. ~l.wasBlocked
    BY <1>4 DEF RowOK
  <2>2. CASE row.calendars = {}
    BY <1>4, <2>1, <2>2, AnswerOK, AbsentType DEF Resolved
  <2>3. ASSUME NEW step \in {"asking", "claiming"}
        PROVE  LET k == [l EXCEPT !.step = step, !.conn = CopyOf(row)]
               IN  k \in Load /\ LoadOK(k)
    <3> DEFINE k == [l EXCEPT !.step = step, !.conn = CopyOf(row)]
    <3>1. k \in Load
      BY <1>1 DEF Load
    <3>2. /\ k.step = step /\ k.conn = CopyOf(row) /\ k.started = l.started
          /\ k.wasBlocked = l.wasBlocked
      BY DEF Load
    <3>3. k.conn.id = row.id /\ k.conn.cache = row.cache
      BY <3>2 DEF CopyOf
    <3> QED BY <1>4, <2>1, <3>1, <3>2, <3>3 DEF LoadOK, RowOK, Recent
  <2>4. CASE row.calendars # {} /\ l.mode = "beyond"
    BY <1>4, <2>3, <2>4 DEF Resolved
  <2>5. CASE row.calendars # {} /\ l.mode # "beyond" /\ IsCacheFresh(row.cache, l.started, l.mode)
    <3>1. row.cache.content.asOf >= l.started - MaxStale
      <4>1. Ttl(l.mode) \in Nat /\ Ttl(l.mode) <= MaxStale
        BY Numbers DEF Ttl
      <4> QED BY <1>1, <2>5, <4>1, CacheRecent DEF IsCacheFresh, RowOK
    <3> QED BY <1>1, <1>4, <2>1, <2>5, <3>1, AnswerOK DEF Resolved
  <2>6. CASE row.calendars # {} /\ l.mode # "beyond" /\ ~IsCacheFresh(row.cache, l.started, l.mode)
    BY <1>4, <2>3, <2>6 DEF Resolved
  <2> QED BY <2>2, <2>4, <2>5, <2>6
<1> QED BY <1>2, <1>3, <1>4

\* Saving what Google said keeps the row typed, honest and without the token
\* a withdrawal took.
LEMMA SavedOK ==
    ASSUME TypeOK, RowOK, NEW l \in Load, LoadOK(l), l.step = "saving"
    PROVE  /\ Saved(row, l) \in Connection
           /\ Honest(Saved(row, l).cache)
           /\ Saved(row, l).id = row.id /\ Saved(row, l).token = row.token
<1> DEFINE s == Saved(row, l)
<1>1. row \in Connection /\ l.started \in Stamps /\ l.got \in Content
  BY DEF TypeOK, Load, Stamps
<1>2. /\ s.cache = [fetchedAt |-> l.started, content |-> l.got]
      /\ s.id = row.id /\ s.token = row.token
  BY <1>1 DEF Saved, Connection
<1>3. s \in Connection
  BY <1>1 DEF Saved, Connection, Cache, Stamps
<1>4. Honest(s.cache)
  BY <1>2 DEF Honest, LoadOK
<1> QED BY <1>2, <1>3, <1>4

LEMMA FailedOK ==
    ASSUME TypeOK, RowOK, NEW l \in Load
    PROVE  /\ Failed(row, l) \in Connection
           /\ Honest(Failed(row, l).cache)
           /\ Failed(row, l).id = row.id
           /\ l.code = "revoked" \/ row.token = 0 => Failed(row, l).token = 0
<1>1. /\ row \in Connection /\ l.started \in Stamps /\ NoCache \in Cache
      /\ Never \in Stamps /\ 0 \in 0..MaxConnects
  BY AbsentType, Numbers DEF TypeOK, Load, Stamps
<1>2. Honest(NoCache)
  BY DEF Honest, NoCache, Nothing, Never
<1>3. CASE l.code = "revoked"
  <2> DEFINE s == Failed(row, l)
  <2>1. /\ s.cache = NoCache /\ s.id = row.id /\ s.token = 0
    BY <1>1, <1>3 DEF Failed, WithoutCache, Connection
  <2>2. s \in Connection
    BY <1>1, <1>3 DEF Failed, WithoutCache, Connection
  <2> QED BY <1>2, <2>1, <2>2
<1>4. CASE l.code # "revoked"
  <2> DEFINE s == Failed(row, l)
  <2>1. /\ s.cache = row.cache /\ s.id = row.id /\ s.token = row.token
    BY <1>1, <1>4 DEF Failed, Connection
  <2>2. s \in Connection
    BY <1>1, <1>4 DEF Failed, Connection
  <2> QED BY <1>4, <2>1, <2>2 DEF RowOK
<1> QED BY <1>3, <1>4

\* One load moves on; the others are as they were.
LEMMA GoesOK ==
    ASSUME IInv, NEW i \in Loads, NEW l \in Load, LoadOK(l), Goes(i, l), now' = now
    PROVE  loads' \in [Loads -> Load] /\ \A j \in Loads : LoadOK(loads[j])'
<1>1. loads' \in [Loads -> Load]
  BY DEF IInv, TypeOK, Goes
<1>2. \A j \in Loads : loads'[j] = IF j = i THEN l ELSE loads[j]
  BY DEF IInv, TypeOK, Goes
<1> QED BY <1>1, <1>2 DEF IInv, LoadOK

\* A load's step that leaves the row and the clock alone.
LEMMA QuietStep ==
    ASSUME IInv, NEW i \in Loads, NEW l \in Load, LoadOK(l), Goes(i, l),
           UNCHANGED <<row, connects, withdrawn, blocked, now>>
    PROVE  IInv'
<1>1. loads' \in [Loads -> Load] /\ \A j \in Loads : LoadOK(loads[j])'
  BY GoesOK
<1>2. TypeOK'
  BY <1>1 DEF IInv, TypeOK
<1> QED BY <1>1, <1>2 DEF IInv, RowOK

\* A load's step that writes the row.
LEMMA WritingStep ==
    ASSUME IInv, NEW i \in Loads, NEW l \in Load, LoadOK(l), Goes(i, l),
           row' \in Connection, Honest(row'.cache), blocked' \in BOOLEAN,
           blocked' => row'.id # 0 /\ row'.token = 0,
           UNCHANGED <<connects, withdrawn, now>>
    PROVE  IInv'
<1>1. loads' \in [Loads -> Load] /\ \A j \in Loads : LoadOK(loads[j])'
  BY GoesOK
<1>2. TypeOK'
  BY <1>1 DEF IInv, TypeOK
<1>3. RowOK'
  BY DEF RowOK, Honest
<1> QED BY <1>1, <1>2, <1>3 DEF IInv

\* A step of somebody else's: the loads stand still.
LEMMA OthersStep ==
    ASSUME IInv, row' \in Connection, Honest(row'.cache), blocked' \in BOOLEAN,
           blocked' => row'.id # 0 /\ row'.token = 0,
           connects' \in 0..MaxConnects, withdrawn' \in 0..connects',
           UNCHANGED <<loads, now>>
    PROVE  IInv'
<1>1. TypeOK'
  BY DEF IInv, TypeOK
<1>2. RowOK'
  BY DEF RowOK, Honest
<1>3. \A j \in Loads : LoadOK(loads[j])'
  BY DEF IInv, LoadOK
<1> QED BY <1>1, <1>2, <1>3 DEF IInv

-----------------------------------------------------------------------------
(* The invariant is inductive                                              *)

LEMMA IdleOK ==
    ASSUME now \in Times
    PROVE  LoadOK(IdleLoad)
BY Numbers DEF LoadOK, IdleLoad, Recent, Working, Honest, CopyOf, Absent,
               NoCache, Nothing, Never, Times

LEMMA InitIInv == Init => IInv
<1> SUFFICES ASSUME Init PROVE IInv
  OBVIOUS
<1>1. TypeOK
  <2>1. row \in Connection /\ loads \in [Loads -> Load]
    BY AbsentType, IdleType DEF Init
  <2>2. connects \in 0..MaxConnects /\ withdrawn \in 0..connects /\ now \in Times
    BY Numbers DEF Init, Times
  <2> QED BY <2>1, <2>2 DEF Init, TypeOK
<1>2. RowOK
  BY DEF Init, RowOK, Honest, Absent, NoCache, Nothing, Never
<1>3. \A i \in Loads : LoadOK(loads[i])
  BY <1>1, IdleOK DEF Init, TypeOK
<1> QED BY <1>1, <1>2, <1>3 DEF IInv

\* A load that is being worked on has read a connection that did not block it.
LEMMA AtWork ==
    ASSUME IInv, NEW i \in Loads, loads[i].step \in Working
    PROVE  /\ loads[i] \in Load /\ LoadOK(loads[i]) /\ ~loads[i].wasBlocked
           /\ loads[i].started <= now /\ loads[i].conn.id # 0
BY DEF IInv, TypeOK, LoadOK, Working

\* What Google is asked describes this moment.
LEMMA AskedOK ==
    ASSUME IInv, NEW i \in Loads, loads[i].step \in Working
    PROVE  /\ Asked(loads[i]) \in Content
           /\ Asked(loads[i]).asOf >= loads[i].started
<1>1. loads[i] \in Load /\ loads[i].started <= now /\ now \in Times
  BY AtWork DEF IInv, TypeOK
<1> QED BY <1>1, Numbers DEF Asked, Content, Load, Copy, Stamps, Times

\* An answer Google has just given.
LEMMA NewAnswerOK ==
    ASSUME IInv, NEW i \in Loads, loads[i].step \in Working,
           NEW got \in Content, got.asOf >= loads[i].started
    PROVE  /\ Answer(loads[i], "busy", got, FALSE) \in Load
           /\ LoadOK(Answer(loads[i], "busy", got, FALSE))
<1>1. /\ TypeOK /\ loads[i] \in Load /\ loads[i].started <= now
      /\ ~loads[i].wasBlocked
  BY AtWork DEF IInv
<1>2. got.asOf >= loads[i].started - (IF FALSE THEN MaxStale ELSE 0)
  BY <1>1 DEF Load, Times, Content, Stamps, Never
<1> QED BY <1>1, <1>2, AnswerOK

LEMMA StartStep ==
    ASSUME IInv, NEW i \in Loads, NEW mode \in Modes, Start(i, mode)
    PROVE  IInv'
<1> DEFINE l == [IdleLoad EXCEPT !.step = "called", !.mode = mode, !.started = now]
<1>1. l \in Load
  BY IdleType DEF IInv, TypeOK, Load
<1>2. LoadOK(l)
  <2>1. now \in Times
    BY DEF IInv, TypeOK
  <2>2. Honest(l.conn.cache)
    BY DEF IdleLoad, CopyOf, Honest, Absent, NoCache, Nothing, Never
  <2>3. l.step = "called" /\ l.started = now /\ l.wasBlocked = FALSE
    BY DEF IdleLoad
  <2> QED BY <2>1, <2>2, <2>3, Numbers DEF LoadOK, Recent, Working, Times
<1> QED BY <1>1, <1>2, QuietStep DEF Start

LEMMA ListStep ==
    ASSUME IInv, NEW i \in Loads, List(i)
    PROVE  IInv'
<1> DEFINE l == [loads[i] EXCEPT !.wasBlocked = blocked]
<1>1. l \in Load /\ l.step = "called" /\ l.started <= now /\ l.wasBlocked = blocked
  BY DEF IInv, TypeOK, LoadOK, List, Load
<1>2. Resolved(l, row) \in Load /\ LoadOK(Resolved(l, row))
  BY <1>1, ResolvedOK DEF IInv
<1> QED BY <1>2, QuietStep DEF List

LEMMA ClaimStep ==
    ASSUME IInv, NEW i \in Loads, Claim(i)
    PROVE  IInv'
<1> DEFINE l == [loads[i] EXCEPT !.step = "fetching"]
<1>1. loads[i].step \in Working /\ loads[i].step = "claiming"
  BY DEF Claim, Working
<1>2. /\ row' \in Connection /\ row'.cache = row.cache
      /\ row'.id = row.id /\ row'.token = row.token
  BY DEF Claim, IInv, TypeOK, Connection, Stamps
<1>3. /\ Honest(row'.cache) /\ blocked' \in BOOLEAN
      /\ blocked' => row'.id # 0 /\ row'.token = 0
  BY <1>2 DEF Claim, IInv, TypeOK, RowOK
<1>4. CASE Goes(i, l)
  <2>1. l \in Load /\ l.step = "fetching" /\ LoadOK(l)
    <3>1. /\ l \in Load /\ l.step = "fetching" /\ l.started = loads[i].started
          /\ l.conn = loads[i].conn /\ l.wasBlocked = loads[i].wasBlocked
      BY <1>1, AtWork DEF Load
    <3> QED BY <1>1, <3>1, AtWork DEF LoadOK, Recent
  <2> QED BY <1>2, <1>3, <1>4, <2>1, WritingStep DEF Claim
<1>5. CASE Goes(i, Fallback(loads[i]))
  <2>1. Fallback(loads[i]) \in Load /\ LoadOK(Fallback(loads[i]))
    BY <1>1, AtWork, FallbackOK DEF IInv
  <2> QED BY <1>2, <1>3, <1>5, <2>1, WritingStep DEF Claim
<1> QED BY <1>4, <1>5 DEF Claim

LEMMA NoClaimStep ==
    ASSUME IInv, NEW i \in Loads, NoClaim(i)
    PROVE  IInv'
<1>1. Fallback(loads[i]) \in Load /\ LoadOK(Fallback(loads[i]))
  BY AtWork, FallbackOK DEF IInv, NoClaim, Working
<1> QED BY <1>1, QuietStep DEF NoClaim

\* A load that fails goes on with what it had.
LEMMA FailingOK ==
    ASSUME IInv, NEW i \in Loads, loads[i].step \in Working,
           NEW l \in Load, l.step = "failing", l.started = loads[i].started,
           l.conn = loads[i].conn, l.wasBlocked = loads[i].wasBlocked
    PROVE  LoadOK(l)
BY AtWork DEF LoadOK, Recent

LEMMA FetchStep ==
    ASSUME IInv, NEW i \in Loads, Fetch(i)
    PROVE  IInv'
<1>1. loads[i].step \in Working /\ loads[i].step = "fetching"
  BY DEF Fetch, Working
<1>2. CASE Goes(i, [loads[i] EXCEPT !.step = "saving", !.got = Asked(loads[i])])
  <2> DEFINE l == [loads[i] EXCEPT !.step = "saving", !.got = Asked(loads[i])]
  <2>1. /\ l \in Load /\ l.step = "saving" /\ l.started = loads[i].started
        /\ l.conn = loads[i].conn /\ l.wasBlocked = loads[i].wasBlocked
        /\ l.got = Asked(loads[i])
    BY <1>1, AtWork, AskedOK DEF Load
  <2>2. LoadOK(l)
    BY <1>1, <2>1, AtWork, AskedOK DEF LoadOK, Recent
  <2> QED BY <1>2, <2>1, <2>2, QuietStep DEF Fetch
<1>3. ASSUME NEW code \in {"revoked", "failed"},
             Goes(i, [loads[i] EXCEPT !.step = "failing", !.code = code])
      PROVE  IInv'
  <2> DEFINE l == [loads[i] EXCEPT !.step = "failing", !.code = code]
  <2>1. /\ l \in Load /\ l.step = "failing" /\ l.started = loads[i].started
        /\ l.conn = loads[i].conn /\ l.wasBlocked = loads[i].wasBlocked
    BY <1>1, AtWork DEF Load
  <2>2. LoadOK(l)
    BY <1>1, <2>1, FailingOK
  <2>3. UNCHANGED <<row, connects, withdrawn, blocked, now>>
    BY DEF Fetch
  <2> QED BY <1>3, <2>1, <2>2, <2>3, QuietStep
<1> QED BY <1>2, <1>3 DEF Fetch

LEMMA SaveStep ==
    ASSUME IInv, NEW i \in Loads, Save(i)
    PROVE  IInv'
<1>1. loads[i].step \in Working /\ loads[i].step = "saving"
  BY DEF Save, Working
<1>2. loads[i].got \in Content /\ loads[i].got.asOf >= loads[i].started
  BY <1>1, AtWork DEF LoadOK, Load
<1>3. /\ Answer(loads[i], "busy", loads[i].got, FALSE) \in Load
      /\ LoadOK(Answer(loads[i], "busy", loads[i].got, FALSE))
  BY <1>1, <1>2, AtWork, NewAnswerOK
<1>4. /\ row' \in Connection /\ Honest(row'.cache)
      /\ row'.id = row.id /\ row'.token = row.token
  BY <1>1, AtWork, SavedOK DEF Save, IInv, TypeOK, RowOK
<1> QED BY <1>3, <1>4, WritingStep DEF Save, IInv, TypeOK, RowOK

LEMMA SaveFailsStep ==
    ASSUME IInv, NEW i \in Loads, SaveFails(i)
    PROVE  IInv'
<1>1. loads[i].step \in Working /\ loads[i].step = "saving"
  BY DEF SaveFails, Working
<1> DEFINE l == [loads[i] EXCEPT !.step = "failing", !.code = "failed", !.got = Nothing]
<1>2. /\ l \in Load /\ l.step = "failing" /\ l.started = loads[i].started
      /\ l.conn = loads[i].conn /\ l.wasBlocked = loads[i].wasBlocked
  BY <1>1, AtWork, AbsentType DEF Load
<1>3. LoadOK(l)
  BY <1>1, <1>2, FailingOK
<1>4. /\ row' \in Connection /\ Honest(row'.cache)
      /\ row'.id = row.id /\ row'.token = row.token
  BY <1>1, AtWork, SavedOK DEF SaveFails, IInv, TypeOK, RowOK
<1> QED BY <1>2, <1>3, <1>4, WritingStep DEF SaveFails, IInv, TypeOK, RowOK

LEMMA RecordFailureStep ==
    ASSUME IInv, NEW i \in Loads, RecordFailure(i)
    PROVE  IInv'
<1>1. loads[i].step \in Working
  BY DEF RecordFailure, Working
<1>2. AfterFailure(loads[i]) \in Load /\ LoadOK(AfterFailure(loads[i]))
  BY <1>1, AtWork, FallbackOK, UnconfirmedOK DEF IInv, AfterFailure
<1>3. /\ row' \in Connection /\ Honest(row'.cache) /\ blocked' \in BOOLEAN
      /\ blocked' => row'.id # 0 /\ row'.token = 0
  <2>1. CASE UNCHANGED <<row, blocked>>
    BY <2>1 DEF IInv, TypeOK, RowOK
  <2>2. CASE /\ row.id = loads[i].conn.id
             /\ row' = Failed(row, loads[i])
             /\ blocked' = (blocked \/ loads[i].code = "revoked")
    <3>1. row.id # 0
      BY <1>1, <2>2, AtWork
    <3>2. /\ row' \in Connection /\ Honest(row'.cache) /\ row'.id = row.id
          /\ loads[i].code = "revoked" \/ row.token = 0 => row'.token = 0
      BY <1>1, <2>2, AtWork, FailedOK DEF IInv
    <3> QED BY <2>2, <3>1, <3>2 DEF IInv, RowOK
  <2> QED BY <2>1, <2>2 DEF RecordFailure
<1> QED BY <1>2, <1>3, WritingStep DEF RecordFailure

LEMMA AskDirectlyStep ==
    ASSUME IInv, NEW i \in Loads, AskDirectly(i)
    PROVE  IInv'
<1>1. loads[i].step \in Working
  BY DEF AskDirectly, Working
<1>2. CASE Goes(i, Answer(loads[i], "busy", Asked(loads[i]), FALSE))
  <2>1. /\ Answer(loads[i], "busy", Asked(loads[i]), FALSE) \in Load
        /\ LoadOK(Answer(loads[i], "busy", Asked(loads[i]), FALSE))
    BY <1>1, AskedOK, NewAnswerOK
  <2> QED BY <1>2, <2>1, QuietStep DEF AskDirectly
<1>3. CASE Goes(i, Unconfirmed(loads[i]))
  BY <1>1, <1>3, AtWork, UnconfirmedOK, QuietStep DEF AskDirectly, IInv
<1> QED BY <1>2, <1>3 DEF AskDirectly

LEMMA CrashStep ==
    ASSUME IInv, NEW i \in Loads, Crash(i)
    PROVE  IInv'
<1>1. LoadOK(IdleLoad)
  BY IdleOK DEF IInv, TypeOK
<1> QED BY <1>1, IdleType, QuietStep DEF Crash

LEMMA LoadStep ==
    ASSUME IInv, LoadNext
    PROVE  IInv'
<1>1. PICK i \in Loads :
        \/ \E mode \in Modes : Start(i, mode)
        \/ List(i) \/ Claim(i) \/ NoClaim(i) \/ Fetch(i) \/ Save(i) \/ SaveFails(i)
        \/ RecordFailure(i) \/ AskDirectly(i) \/ Crash(i)
  BY DEF LoadNext
<1> QED BY <1>1, StartStep, ListStep, ClaimStep, NoClaimStep, FetchStep, SaveStep,
           SaveFailsStep, RecordFailureStep, AskDirectlyStep, CrashStep

LEMMA ConnectStep ==
    ASSUME IInv, NEW cals \in {{}, {Primary}}, Connect(cals)
    PROVE  IInv'
<1>1. /\ row' \in Connection /\ row'.cache = NoCache
      /\ connects' \in 0..MaxConnects /\ withdrawn' \in 0..connects'
  <2>1. cals \subseteq Calendars
    BY CalendarCacheAssumption
  <2>2. /\ connects + 1 \in 0..MaxConnects /\ row.id \in 0..MaxConnects
        /\ withdrawn \in 0..(connects + 1)
    BY Numbers DEF Connect, IInv, TypeOK, Connection
  <2>3. row' \in Connection /\ row'.cache = NoCache
    BY <2>1, <2>2, AbsentType DEF Connect, Connection, Absent
  <2> QED BY <2>2, <2>3 DEF Connect
<1>2. Honest(NoCache)
  BY DEF Honest, NoCache, Nothing, Never
<1> QED BY <1>1, <1>2, OthersStep DEF Connect

LEMMA SaveChoiceStep ==
    ASSUME IInv, NEW cals \in SUBSET Calendars, SaveChoice(cals)
    PROVE  IInv'
<1>1. /\ row' \in Connection /\ row'.cache = NoCache
      /\ row'.id = row.id /\ row'.token = row.token
  BY AbsentType DEF SaveChoice, WithoutCache, IInv, TypeOK, Connection, Stamps
<1>2. Honest(NoCache)
  BY DEF Honest, NoCache, Nothing, Never
<1> QED BY <1>1, <1>2, OthersStep DEF SaveChoice, IInv, TypeOK, RowOK

LEMMA DisconnectStep ==
    ASSUME IInv, Disconnect
    PROVE  IInv'
<1>1. Honest(Absent.cache)
  BY DEF Honest, Absent, NoCache, Nothing, Never
<1> QED BY <1>1, AbsentType, OthersStep DEF Disconnect, IInv, TypeOK

LEMMA WithdrawStep ==
    ASSUME IInv, Withdraw
    PROVE  IInv'
<1>1. connects' \in 0..MaxConnects /\ withdrawn' \in 0..connects'
  BY Numbers DEF Withdraw, IInv, TypeOK
<1> QED BY <1>1, OthersStep DEF Withdraw, IInv, TypeOK, RowOK

LEMMA ClearStaleCacheStep ==
    ASSUME IInv, ClearStaleCache
    PROVE  IInv'
<1>1. /\ row' \in Connection /\ row'.cache = NoCache
      /\ row'.id = row.id /\ row'.token = row.token
  BY AbsentType DEF ClearStaleCache, WithoutCache, IInv, TypeOK, Connection, Stamps
<1>2. Honest(NoCache)
  BY DEF Honest, NoCache, Nothing, Never
<1> QED BY <1>1, <1>2, OthersStep DEF ClearStaleCache, IInv, TypeOK, RowOK

LEMMA TickStep ==
    ASSUME IInv, Tick
    PROVE  IInv'
<1>1. now \in Times /\ now' \in Times /\ now <= now'
  BY Numbers DEF Tick, IInv, TypeOK, Times
<1>2. \A i \in Loads : loads[i].started \in Times
  BY DEF IInv, TypeOK, Load
<1>3. \A i \in Loads : LoadOK(loads[i])'
  BY <1>1, <1>2, Numbers DEF Tick, IInv, LoadOK, Recent, Times
<1> QED BY <1>1, <1>3 DEF Tick, IInv, TypeOK, RowOK

THEOREM Invariant == Spec => []IInv
<1>1. IInv /\ [Next]_vars => IInv'
  <2> SUFFICES ASSUME IInv, [Next]_vars PROVE IInv'
    OBVIOUS
  <2>1. CASE LoadNext
    BY <2>1, LoadStep
  <2>2. CASE \E cals \in {{}, {Primary}} : Connect(cals)
    BY <2>2, ConnectStep
  <2>3. CASE \E cals \in SUBSET Calendars \ {{}} : SaveChoice(cals)
    BY <2>3, SaveChoiceStep
  <2>4. CASE Disconnect
    BY <2>4, DisconnectStep
  <2>5. CASE Withdraw
    BY <2>5, WithdrawStep
  <2>6. CASE ClearStaleCache
    BY <2>6, ClearStaleCacheStep
  <2>7. CASE Tick
    BY <2>7, TickStep
  <2>8. CASE UNCHANGED vars
    BY <2>8 DEF vars, IInv, TypeOK, RowOK, LoadOK
  <2> QED BY <2>1, <2>2, <2>3, <2>4, <2>5, <2>6, <2>7, <2>8 DEF Next
<1> QED BY <1>1, InitIInv, PTL DEF Spec

-----------------------------------------------------------------------------
(* What it shows                                                           *)

\* The state keeps its types, whatever the order of loads, saves and connects.
THEOREM TypeCorrect == Spec => []TypeOK
<1>1. IInv => TypeOK
  BY DEF IInv
<1> QED BY <1>1, Invariant, PTL

\* The cache of a connection is at least as fresh as its stamp says, whichever
\* refresh was saved last (saveBusy stamps the start of the refresh).
THEOREM HonestStamps == Spec => []CacheNoOlderThanItSays
<1>1. IInv => CacheNoOlderThanItSays
  BY DEF IInv, RowOK, Honest, CacheNoOlderThanItSays
<1> QED BY <1>1, Invariant, PTL

\* No booking decision rests on busy time older than the policy trusts, for any
\* time-outs in the order policy.ts has them.
THEOREM RecentAnswers == Spec => []AnswersAreRecent
<1>1. IInv => AnswersAreRecent
  BY DEF IInv, LoadOK, Recent, AnswersAreRecent
<1> QED BY <1>1, Invariant, PTL

\* A recorded withdrawal blocks the person until a reconnect or a disconnect
\* (saveFailure wipes the token; a late saveBusy does not bring it back).
THEOREM BlockedStaysBlocked == Spec => []WithdrawalBlocks
<1>1. IInv => WithdrawalBlocks
  BY DEF IInv, LoadOK, WithdrawalBlocks
<1> QED BY <1>1, Invariant, PTL
-----------------------------------------------------------------------------
(* A second invariant: what a late write can and cannot spoil              *)

\* What a load knows of the connection it read: the calendars it asked for, a
\* token that was there, and one Google refused if it says so.
Knows(l, dead) ==
    /\ l.step = "saving" => l.got.calendars = l.conn.calendars
    /\ l.step \in Working => l.conn.token # 0
    /\ l.step = "failing" /\ l.code = "revoked" => l.conn.token <= dead

\* The row holds the newest token or none.
NewestToken == row.token \in {0, connects}

LateInv == IInv /\ NewestToken /\ \A i \in Loads : Knows(loads[i], withdrawn)

LEMMA AnswerStands ==
    ASSUME NEW l \in Load, NEW kind, NEW content, NEW cached
    PROVE  Answer(l, kind, content, cached).step = "answered"
BY DEF Answer, Load

LEMMA FallbackStands ==
    ASSUME NEW l \in Load
    PROVE  /\ Fallback(l).step = "answered" /\ Unconfirmed(l).step = "answered"
           /\ AfterFailure(l).step = "answered"
BY AnswerStands DEF Fallback, Unconfirmed, AfterFailure

LEMMA OnlyWorkingKnows ==
    ASSUME NEW l, l.step \notin Working, NEW dead
    PROVE  Knows(l, dead)
BY DEF Knows, Working

\* A load goes to work only on a row that has a token.
LEMMA ResolvedKnows ==
    ASSUME NEW l \in Load, NEW c, NEW dead, l.step = "called"
    PROVE  Knows(Resolved(l, c), dead)
<1>1. CASE Resolved(l, c).step \notin Working
  BY <1>1, OnlyWorkingKnows
<1>2. ASSUME NEW step \in {"asking", "claiming"}, c.token # 0
      PROVE  Knows([l EXCEPT !.step = step, !.conn = CopyOf(c)], dead)
  <2> DEFINE k == [l EXCEPT !.step = step, !.conn = CopyOf(c)]
  <2>1. k.step = step /\ k.conn = CopyOf(c)
    BY DEF Load
  <2>2. k.conn.token = c.token
    BY <2>1 DEF CopyOf
  <2> QED BY <1>2, <2>1, <2>2 DEF Knows, Working
<1>3. \/ Resolved(l, c).step = "answered"
      \/ /\ c.token # 0
         /\ \/ Resolved(l, c) = [l EXCEPT !.step = "asking", !.conn = CopyOf(c)]
            \/ Resolved(l, c) = [l EXCEPT !.step = "claiming", !.conn = CopyOf(c)]
  <2> DEFINE asking == [l EXCEPT !.step = "asking", !.conn = CopyOf(c)]
             claiming == [l EXCEPT !.step = "claiming", !.conn = CopyOf(c)]
             free == Answer(l, "free", Nothing, FALSE)
             cached == Answer(l, "busy", c.cache.content, TRUE)
  <2>1. free.step = "answered" /\ cached.step = "answered" /\ Unconfirmed(l).step = "answered"
    BY AnswerStands, FallbackStands
  <2>2. \/ Resolved(l, c) \in {free, cached, Unconfirmed(l)}
        \/ c.token # 0 /\ Resolved(l, c) \in {asking, claiming}
    <3> HIDE DEF asking, claiming, free, cached
    <3>1. Resolved(l, c) =
            IF c.id = 0 THEN free
            ELSE IF c.status = "revoked" \/ c.token = 0 THEN Unconfirmed(l)
            ELSE IF c.calendars = {} THEN free
            ELSE IF l.mode = "beyond" THEN asking
            ELSE IF IsCacheFresh(c.cache, l.started, l.mode) THEN cached
            ELSE claiming
      BY Zenon DEF Resolved, asking, claiming, free, cached
    <3> QED BY <3>1
  <2> QED BY <2>1, <2>2
<1> QED BY <1>1, <1>2, <1>3 DEF Working

\* One load moves on; what the others know stays true.
LEMMA OneLearns ==
    ASSUME LateInv, NEW i \in Loads, NEW l, Knows(l, withdrawn), Goes(i, l),
           UNCHANGED <<connects, withdrawn>>, row'.token \in {row.token, 0}
    PROVE  NewestToken' /\ \A j \in Loads : Knows(loads[j], withdrawn)'
<1>1. \A j \in Loads : loads'[j] = IF j = i THEN l ELSE loads[j]
  BY DEF LateInv, IInv, TypeOK, Goes
<1>2. \A j \in Loads : Knows(loads[j], withdrawn)'
  BY <1>1 DEF LateInv, Knows
<1> QED BY <1>2 DEF LateInv, NewestToken

\* The loads stand still.
LEMMA NobodyLearns ==
    ASSUME LateInv, UNCHANGED loads, withdrawn <= withdrawn', withdrawn' \in Nat,
           row'.token \in {0, connects'}
    PROVE  NewestToken' /\ \A j \in Loads : Knows(loads[j], withdrawn)'
<1>1. \A j \in Loads : loads[j].conn.token \in Nat
  BY Numbers DEF LateInv, IInv, TypeOK, Load, Copy
<1>2. withdrawn \in Nat
  BY Numbers DEF LateInv, IInv, TypeOK
<1>3. \A j \in Loads : Knows(loads[j], withdrawn)'
  BY <1>1, <1>2 DEF LateInv, Knows
<1> QED BY <1>3 DEF NewestToken

\* The steps of a load, by what they write of the row's token.
LEMMA LoadLearns ==
    ASSUME LateInv, LoadNext
    PROVE  NewestToken' /\ \A j \in Loads : Knows(loads[j], withdrawn)'
<1>1. PICK i \in Loads :
        \/ \E mode \in Modes : Start(i, mode)
        \/ List(i) \/ Claim(i) \/ NoClaim(i) \/ Fetch(i) \/ Save(i) \/ SaveFails(i)
        \/ RecordFailure(i) \/ AskDirectly(i) \/ Crash(i)
  BY DEF LoadNext
<1>2. row \in Connection /\ loads[i] \in Load
  BY DEF LateInv, IInv, TypeOK
<1>3. CASE \E mode \in Modes : Start(i, mode)
  <2>1. PICK mode \in Modes : Start(i, mode)
    BY <1>3
  <2> DEFINE l == [IdleLoad EXCEPT !.step = "called", !.mode = mode, !.started = now]
  <2>2. l.step \notin Working
    BY DEF IdleLoad, Working
  <2> QED BY <2>1, <2>2, OnlyWorkingKnows, OneLearns DEF Start
<1>4. CASE List(i)
  <2> DEFINE k == [loads[i] EXCEPT !.wasBlocked = blocked]
  <2>1. k \in Load /\ k.step = "called"
    BY <1>2, <1>4 DEF List, LateInv, IInv, TypeOK, Load
  <2>2. Knows(Resolved(k, row), withdrawn)
    BY <1>2, <2>1, ResolvedKnows
  <2> QED BY <1>4, <2>2, OneLearns DEF List
<1>5. CASE Claim(i)
  <2>1. row'.token = row.token
    BY <1>2, <1>5 DEF Claim, Connection
  <2>2. CASE Goes(i, [loads[i] EXCEPT !.step = "fetching"])
    <3> DEFINE l == [loads[i] EXCEPT !.step = "fetching"]
    <3>1. l.step = "fetching" /\ l.conn = loads[i].conn
      BY <1>2 DEF Load
    <3>2. Knows(l, withdrawn)
      BY <1>5, <3>1 DEF Knows, Claim, LateInv, Working
    <3> QED BY <1>5, <2>1, <2>2, <3>2, OneLearns DEF Claim
  <2>3. CASE Goes(i, Fallback(loads[i]))
    <3>1. Knows(Fallback(loads[i]), withdrawn)
      BY <1>2, FallbackStands, OnlyWorkingKnows DEF Working
    <3> QED BY <1>5, <2>1, <2>3, <3>1, OneLearns DEF Claim
  <2> QED BY <1>5, <2>2, <2>3 DEF Claim
<1>6. CASE NoClaim(i)
  <2>1. Knows(Fallback(loads[i]), withdrawn)
    BY <1>2, FallbackStands, OnlyWorkingKnows DEF Working
  <2> QED BY <1>6, <2>1, OneLearns DEF NoClaim
<1>7. CASE Fetch(i)
  <2>1. loads[i].conn.token # 0
    BY <1>7 DEF Fetch, LateInv, Knows, Working
  <2>2. CASE Goes(i, [loads[i] EXCEPT !.step = "saving", !.got = Asked(loads[i])])
    <3> DEFINE l == [loads[i] EXCEPT !.step = "saving", !.got = Asked(loads[i])]
    <3>1. /\ l.step = "saving" /\ l.conn = loads[i].conn
          /\ l.got.calendars = loads[i].conn.calendars
      BY <1>2 DEF Load, Asked
    <3>2. Knows(l, withdrawn)
      BY <2>1, <3>1 DEF Knows
    <3> QED BY <1>7, <2>2, <3>2, OneLearns DEF Fetch
  <2>3. ASSUME NEW code \in {"revoked", "failed"},
               code = "revoked" => ~TokenAlive(loads[i]),
               Goes(i, [loads[i] EXCEPT !.step = "failing", !.code = code])
        PROVE  NewestToken' /\ \A j \in Loads : Knows(loads[j], withdrawn)'
    <3> DEFINE l == [loads[i] EXCEPT !.step = "failing", !.code = code]
    <3>1. l.step = "failing" /\ l.conn = loads[i].conn /\ l.code = code
      BY <1>2 DEF Load
    <3>2. code = "revoked" => loads[i].conn.token <= withdrawn
      BY <1>2, <2>3, Numbers DEF TokenAlive, LateInv, IInv, TypeOK, Load, Copy
    <3>3. withdrawn' = withdrawn
      BY <1>7 DEF Fetch
    <3>4. Knows(l, withdrawn)
      BY <2>1, <3>1, <3>2, <3>3 DEF Knows
    <3> QED BY <1>7, <2>3, <3>4, OneLearns DEF Fetch
  <2> QED BY <1>7, <2>2, <2>3 DEF Fetch
<1>8. CASE Save(i)
  <2>1. row'.token = row.token
    BY <1>2, <1>8 DEF Save, Saved, Connection
  <2>2. Knows(Answer(loads[i], "busy", loads[i].got, FALSE), withdrawn)
    BY <1>2, AnswerStands, OnlyWorkingKnows DEF Working
  <2> QED BY <1>8, <2>1, <2>2, OneLearns DEF Save
<1>9. CASE SaveFails(i)
  <2> DEFINE l == [loads[i] EXCEPT !.step = "failing", !.code = "failed", !.got = Nothing]
  <2>1. row'.token = row.token
    BY <1>2, <1>9 DEF SaveFails, Saved, Connection
  <2>2. l.step = "failing" /\ l.code = "failed" /\ l.conn = loads[i].conn
    BY <1>2 DEF Load
  <2>3. Knows(l, withdrawn)
    BY <1>9, <2>2 DEF SaveFails, LateInv, Knows, Working
  <2> QED BY <1>9, <2>1, <2>3, OneLearns DEF SaveFails
<1>10. CASE RecordFailure(i)
  <2>1. row'.token \in {row.token, 0}
    BY <1>2, <1>10 DEF RecordFailure, Failed, WithoutCache, Connection
  <2>2. Knows(AfterFailure(loads[i]), withdrawn)
    BY <1>2, FallbackStands, OnlyWorkingKnows DEF Working
  <2> QED BY <1>10, <2>1, <2>2, OneLearns DEF RecordFailure
<1>11. CASE AskDirectly(i)
  <2>1. /\ Knows(Answer(loads[i], "busy", Asked(loads[i]), FALSE), withdrawn)
        /\ Knows(Unconfirmed(loads[i]), withdrawn)
    BY <1>2, AnswerStands, FallbackStands, OnlyWorkingKnows DEF Working
  <2> QED BY <1>11, <2>1, OneLearns DEF AskDirectly
<1>12. CASE Crash(i)
  <2>1. Knows(IdleLoad, withdrawn)
    BY OnlyWorkingKnows DEF IdleLoad, Working
  <2> QED BY <1>12, <2>1, OneLearns DEF Crash
<1> QED BY <1>1, <1>3, <1>4, <1>5, <1>6, <1>7, <1>8, <1>9, <1>10, <1>11, <1>12

\* The second invariant is inductive on top of the first.
LEMMA LateStep ==
    ASSUME LateInv, [Next]_vars
    PROVE  NewestToken' /\ \A j \in Loads : Knows(loads[j], withdrawn)'
<1>1. /\ row \in Connection /\ connects \in Nat /\ withdrawn \in Nat
      /\ withdrawn <= connects
  BY Numbers DEF LateInv, IInv, TypeOK
<1>2. row.token \in {0, connects}
  BY DEF LateInv, NewestToken
<1>3. CASE LoadNext
  BY <1>3, LoadLearns
<1>4. CASE \E cals \in {{}, {Primary}} : Connect(cals)
  <2>1. row'.token = connects' /\ UNCHANGED <<withdrawn, loads>>
    BY <1>4 DEF Connect, Absent
  <2> QED BY <1>1, <2>1, NobodyLearns
<1>5. CASE \E cals \in SUBSET Calendars \ {{}} : SaveChoice(cals)
  <2>1. row'.token = row.token /\ UNCHANGED <<connects, withdrawn, loads>>
    BY <1>1, <1>5 DEF SaveChoice, WithoutCache, Connection
  <2> QED BY <1>1, <1>2, <2>1, NobodyLearns
<1>6. CASE Disconnect
  <2>1. row'.token = 0 /\ UNCHANGED <<connects, withdrawn, loads>>
    BY <1>6 DEF Disconnect, Absent
  <2> QED BY <1>1, <2>1, NobodyLearns
<1>7. CASE Withdraw
  BY <1>1, <1>2, <1>7, NobodyLearns DEF Withdraw
<1>8. CASE ClearStaleCache
  <2>1. row'.token = row.token /\ UNCHANGED <<connects, withdrawn, loads>>
    BY <1>1, <1>8 DEF ClearStaleCache, WithoutCache, Connection
  <2> QED BY <1>1, <1>2, <2>1, NobodyLearns
<1>9. CASE Tick \/ UNCHANGED vars
  BY <1>1, <1>2, <1>9, NobodyLearns DEF Tick, vars
<1> QED BY <1>3, <1>4, <1>5, <1>6, <1>7, <1>8, <1>9 DEF Next

LEMMA LateInit == Init => LateInv
<1> SUFFICES ASSUME Init PROVE LateInv
  OBVIOUS
<1>1. NewestToken
  BY DEF Init, NewestToken, Absent
<1>2. \A i \in Loads : Knows(loads[i], withdrawn)
  BY DEF Init, Knows, IdleLoad, Working
<1> QED BY <1>1, <1>2, InitIInv DEF LateInv

THEOREM LateInvariant == Spec => []LateInv
<1>1. LateInv /\ IInv' /\ [Next]_vars => LateInv'
  BY LateStep DEF LateInv
<1> QED BY <1>1, LateInit, Invariant, PTL DEF Spec

\* A late result is written for other calendars than the row has by now.
LEMMA SavedMixes ==
    ASSUME LateInv, NEW i \in Loads, loads[i].step = "saving",
           row' = Saved(row, loads[i]), ~CacheDescribesTheChoice'
    PROVE  loads[i].conn.calendars # row.calendars
<1>1. row \in Connection /\ loads[i].got.calendars = loads[i].conn.calendars
  BY DEF LateInv, IInv, TypeOK, Knows
<1>2. row'.cache.content = loads[i].got /\ row'.calendars = row.calendars
  BY <1>1 DEF Saved, Connection
<1> QED BY <1>1, <1>2 DEF CacheDescribesTheChoice

\* The cache of a connection describes its chosen calendars unless a load that
\* had read another choice saves its result (store.ts, saveBusy by row id).
THEOREM LateSavesOnly == Spec => OnlyLateSavesMixChoices
<1> DEFINE Late == \E i \in Loads : /\ loads[i].step = "saving" /\ loads'[i].step # "saving"
                                    /\ loads[i].conn.calendars # row.calendars
<1>1. LateInv /\ [Next]_vars
      => [CacheDescribesTheChoice /\ ~CacheDescribesTheChoice' => Late]_row
  <2> SUFFICES ASSUME LateInv, [Next]_vars, row' # row,
                      CacheDescribesTheChoice, ~CacheDescribesTheChoice'
               PROVE  Late
    BY Zenon
  <2>1. row \in Connection /\ loads \in [Loads -> Load]
    BY DEF LateInv, IInv, TypeOK
  <2>2. ~(row'.cache = NoCache)
    BY DEF CacheDescribesTheChoice
  <2>3. ~(row'.cache = row.cache /\ row'.calendars = row.calendars)
    BY DEF CacheDescribesTheChoice
  <2>4. PICK i \in Loads : Claim(i) \/ Save(i) \/ SaveFails(i) \/ RecordFailure(i)
    <3>1. ~(\E cals : Connect(cals) \/ SaveChoice(cals))
      BY <2>1, <2>2 DEF Connect, SaveChoice, WithoutCache, Connection, Absent
    <3>2. ~Disconnect
      BY <2>2 DEF Disconnect, Absent
    <3>3. ~ClearStaleCache
      BY <2>1, <2>2 DEF ClearStaleCache, WithoutCache, Connection
    <3>4. LoadNext
      BY <3>1, <3>2, <3>3 DEF Next, vars, Withdraw, Tick
    <3> QED BY <3>4 DEF LoadNext, Start, List, NoClaim, Fetch, AskDirectly, Crash
  <2>5. CASE Claim(i)
    BY <2>1, <2>3, <2>5 DEF Claim, Connection
  <2>6. CASE RecordFailure(i)
    BY <2>1, <2>2, <2>3, <2>6 DEF RecordFailure, Failed, WithoutCache, Connection
  <2>7. ASSUME Save(i) \/ SaveFails(i) PROVE Late
    <3>1. loads[i].step = "saving" /\ row' = Saved(row, loads[i])
      BY <2>7 DEF Save, SaveFails
    <3>2. loads'[i].step # "saving"
      <4> DEFINE l == [loads[i] EXCEPT !.step = "failing", !.code = "failed", !.got = Nothing]
      <4>1. l.step = "failing"
        BY <2>1 DEF Load
      <4>2. Answer(loads[i], "busy", loads[i].got, FALSE).step = "answered"
        BY <2>1, AnswerStands
      <4>3. \/ loads'[i] = l
            \/ loads'[i] = Answer(loads[i], "busy", loads[i].got, FALSE)
        BY <2>1, <2>7 DEF Save, SaveFails, Goes
      <4> QED BY <4>1, <4>2, <4>3
    <3> QED BY <3>1, <3>2, SavedMixes
  <2> QED BY <2>4, <2>5, <2>6, <2>7
<1> QED BY <1>1, LateInvariant, PTL DEF Spec, OnlyLateSavesMixChoices

\* A connection whose access is alive is recorded as withdrawn only by a load
\* that had read another token (saveFailure by row id).
THEOREM LateFailuresOnly == Spec => OnlyLateFailuresRevoke
<1> DEFINE Late == \E i \in Loads : /\ loads[i].step = "failing" /\ loads'[i].step # "failing"
                                    /\ loads[i].conn.token # row.token
<1>1. LateInv /\ [Next]_vars
      => [RevokedMeansWithdrawn /\ ~RevokedMeansWithdrawn' => Late]_<<row, connects, withdrawn>>
  <2> SUFFICES ASSUME LateInv, [Next]_vars, RevokedMeansWithdrawn, ~RevokedMeansWithdrawn'
               PROVE  Late
    BY Zenon
  <2>1. /\ row \in Connection /\ loads \in [Loads -> Load]
        /\ connects \in Nat /\ withdrawn \in Nat
    BY Numbers DEF LateInv, IInv, TypeOK
  <2>2. row'.status = "revoked" /\ ~(connects' <= withdrawn')
    BY DEF RevokedMeansWithdrawn
  <2>3. ~(row'.status = row.status /\ UNCHANGED <<connects, withdrawn>>)
    BY <2>2 DEF RevokedMeansWithdrawn
  <2>4. PICK i \in Loads : Claim(i) \/ Save(i) \/ SaveFails(i) \/ RecordFailure(i)
    <3>1. ~(\E cals : Connect(cals)) /\ ~Disconnect
      <4>1. ASSUME NEW cals, Connect(cals) PROVE row'.status = "connected"
        BY <4>1 DEF Connect, Absent
      <4>2. Disconnect => row'.status = "connected"
        BY DEF Disconnect, Absent
      <4> QED BY <2>2, <4>1, <4>2
    <3>2. ~Withdraw
      BY <2>1, <2>2 DEF Withdraw
    <3>3. ~(\E cals : SaveChoice(cals)) /\ ~ClearStaleCache /\ ~Tick /\ ~UNCHANGED vars
      BY <2>1, <2>3 DEF SaveChoice, ClearStaleCache, WithoutCache, Connection, Tick, vars
    <3>4. LoadNext
      BY <3>1, <3>2, <3>3 DEF Next
    <3> QED BY <2>3, <3>4 DEF LoadNext, Start, List, NoClaim, Fetch, AskDirectly, Crash
  <2>5. UNCHANGED <<connects, withdrawn>>
    BY <2>4 DEF Claim, Save, SaveFails, RecordFailure
  <2>6. RecordFailure(i) /\ row' = Failed(row, loads[i]) /\ loads[i].code = "revoked"
    <3>1. ~Claim(i)
      BY <2>1, <2>3, <2>5 DEF Claim, Connection
    <3>2. ~Save(i) /\ ~SaveFails(i)
      BY <2>1, <2>2, <2>3, <2>5 DEF Save, SaveFails, Saved, Connection
    <3>3. RecordFailure(i) /\ row' = Failed(row, loads[i])
      BY <2>3, <2>4, <2>5, <3>1, <3>2 DEF RecordFailure
    <3> QED BY <2>1, <2>2, <3>3 DEF Failed, Connection
  <2>7. /\ loads[i].step = "failing" /\ loads[i] \in Load
        /\ loads[i].conn.token \in Nat
    BY <2>1, <2>6, Numbers DEF RecordFailure, Load, Copy
  <2>8. loads[i].conn.token # 0 /\ loads[i].conn.token <= withdrawn
    BY <2>6, <2>7 DEF LateInv, Knows, Working
  <2>9. loads[i].conn.token # row.token
    BY <2>1, <2>2, <2>5, <2>7, <2>8 DEF LateInv, NewestToken
  <2>10. loads'[i].step # "failing"
    BY <2>1, <2>6, <2>7, FallbackStands DEF RecordFailure, Goes
  <2> QED BY <2>7, <2>9, <2>10
<1> QED BY <1>1, LateInvariant, PTL DEF Spec, OnlyLateFailuresRevoke
=============================================================================
