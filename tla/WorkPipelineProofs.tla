------------------------- MODULE WorkPipelineProofs -------------------------
(***************************************************************************)
(* Proofs about the work pipeline, for any number of leads, rows and       *)
(* calls.  The argument: a call inside its transaction is the only one     *)
(* with its source row (Exclusive), so what it read of the row is still so *)
(* and what it did not find is still not there (CallInv); rows keep where  *)
(* they come from, and one comes from each source (OneEach).               *)
(***************************************************************************)
EXTENDS WorkPipeline, TLAPS

-----------------------------------------------------------------------------
(* Types *)

LEMMA RowTypes ==
    /\ NoLeadRow \in LeadRow /\ NoQuoteRow \in QuoteRow /\ NoJobRow \in JobRow
    /\ IdleRequest \in Request
<1>1. (CHOOSE a \in Amounts : TRUE) \in Amounts
  BY PipelineAssumption, Zenon
<1>2. NoLeadRow \in LeadRow
  BY DEF NoLeadRow, LeadRow, Stages
<1>3. NoQuoteRow \in QuoteRow
  BY <1>1 DEF NoQuoteRow, QuoteRow, Statuses
<1>4. NoJobRow \in JobRow
  BY <1>1 DEF NoJobRow, JobRow
<1>5. IdleRequest \in Request
  BY <1>2, <1>3 DEF IdleRequest, Request, Inside
<1> QED
  BY <1>2, <1>3, <1>4, <1>5

\* What a call that goes on or ends may look like
LEMMA GoesTyped ==
    ASSUME TypeOK, NEW r \in Requests, NEW new \in Request, Goes(r, new)
    PROVE  /\ req' \in [Requests -> Request]
           /\ audited' = audited /\ edits' = edits
BY DEF Goes, TypeOK

LEMMA SettlesTyped ==
    ASSUME TypeOK, NEW r \in Requests, NEW answer \in {"created", "existing"},
           NEW row \in QuoteIds \cup JobIds, Settles(r, answer, row)
    PROVE  /\ req' \in [Requests -> Request]
           /\ audited' = audited /\ edits' = edits
<1>1. req[r] \in Request
  BY DEF TypeOK
<1> DEFINE pc == IF answer = "created" THEN "audit" ELSE "done"
<1>2. pc \in {"audit", "done"}
  OBVIOUS
<1> HIDE DEF pc
<1>3. [req[r] EXCEPT !.pc = pc, !.answer = answer, !.result = row] \in Request
  <2>1. pc \in {"idle", "audit", "done"} \cup Inside
    BY <1>2
  <2> QED
    BY <1>1, <2>1 DEF Request
<1> QED
  BY <1>3, GoesTyped DEF Settles, pc

LEMMA FailsTyped ==
    ASSUME TypeOK, NEW r \in Requests,
           NEW answer \in {"not_found", "refused", "forbidden", "conflict", "lost"},
           Fails(r, answer)
    PROVE  TypeOK'
<1>0. req[r] \in Request
  BY DEF TypeOK
<1>1. [req[r] EXCEPT !.pc = "done", !.answer = answer] \in Request
  BY <1>0 DEF Request
<1>2. /\ req' \in [Requests -> Request]
      /\ audited' = audited /\ edits' = edits
  BY <1>1, GoesTyped DEF Fails
<1> QED
  BY <1>2 DEF TypeOK, Fails, tables

LEMMA EnterTyped ==
    ASSUME TypeOK, Enter
    PROVE  TypeOK'
<1>0. ByHand
  BY DEF Enter, CreateLead, CreateQuote, CreateJob, CreateProject
<1>1. edits' \in 0 .. MaxEdits /\ audited' = audited /\ req' = req
  BY <1>0, PipelineAssumption DEF TypeOK, ByHand
<1>2. ASSUME NEW l \in Leads, NEW private \in BOOLEAN, CreateLead(l, private)
      PROVE  TypeOK'
  BY <1>1, <1>2 DEF TypeOK, CreateLead, LeadRow, Stages
<1>3. ASSUME NEW q \in QuoteIds, NEW amount \in Amounts, CreateQuote(q, amount)
      PROVE  TypeOK'
  <2>1. [NoQuoteRow EXCEPT !.status = "draft", !.amount = amount] \in QuoteRow
    BY RowTypes DEF QuoteRow, Statuses
  <2> QED
    BY <1>1, <1>3, <2>1 DEF TypeOK, CreateQuote
<1>4. ASSUME NEW j \in JobIds, NEW amount \in Amounts, CreateJob(j, amount)
      PROVE  TypeOK'
  <2>1. [NoJobRow EXCEPT !.exists = TRUE, !.amount = amount] \in JobRow
    BY RowTypes DEF JobRow
  <2> QED
    BY <1>1, <1>4, <2>1 DEF TypeOK, CreateJob
<1>5. ASSUME NEW p \in ProjectIds, NEW kind \in {"normal", "private"}, CreateProject(p, kind)
      PROVE  TypeOK'
  BY <1>1, <1>5 DEF TypeOK, CreateProject, ProjectRow
<1> QED
  BY <1>2, <1>3, <1>4, <1>5 DEF Enter

LEMMA EditedRows ==
    ASSUME TypeOK
    PROVE  /\ \A row \in LeadRow : LeadEdits(row) \subseteq LeadRow
           /\ \A row \in QuoteRow : QuoteEdits(row) \subseteq QuoteRow
           /\ \A row \in JobRow : JobEdits(row) \subseteq JobRow
<1>1. ASSUME NEW row \in LeadRow, NEW new \in LeadEdits(row)
      PROVE  new \in LeadRow
  BY DEF LeadEdits, LeadRow
<1>2. ASSUME NEW row \in QuoteRow, NEW new \in QuoteEdits(row)
      PROVE  new \in QuoteRow
  BY DEF QuoteEdits, QuoteRow
<1>3. ASSUME NEW row \in JobRow, NEW new \in JobEdits(row)
      PROVE  new \in JobRow
  BY DEF JobEdits, JobRow
<1> QED
  BY <1>1, <1>2, <1>3

LEMMA EditTyped ==
    ASSUME TypeOK, Edit
    PROVE  TypeOK'
<1>0. ByHand \/ UNCHANGED <<audited, req, edits>>
  BY DEF Edit, EditLead, EditQuote, EditJob, ReplaceItems, CreateProjectForJob, AttachJobToProject
<1>1. edits' \in 0 .. MaxEdits /\ audited' = audited /\ req' = req
  BY <1>0, PipelineAssumption DEF TypeOK, ByHand
<1>2. ASSUME NEW l \in Leads, EditLead(l)
      PROVE  TypeOK'
  BY <1>1, <1>2, EditedRows DEF TypeOK, EditLead
<1>3. ASSUME NEW q \in QuoteIds, EditQuote(q)
      PROVE  TypeOK'
  BY <1>1, <1>3, EditedRows DEF TypeOK, EditQuote
<1>4. ASSUME NEW q \in QuoteIds, NEW total \in Amounts, ReplaceItems(q, total)
      PROVE  TypeOK'
  <2>1. [quote[q] EXCEPT !.amount = total] \in QuoteRow
    BY DEF TypeOK, QuoteRow
  <2> QED
    BY <1>1, <1>4, <2>1 DEF TypeOK, ReplaceItems
<1>5. ASSUME NEW j \in JobIds, EditJob(j)
      PROVE  TypeOK'
  BY <1>1, <1>5, EditedRows DEF TypeOK, EditJob
<1>6. ASSUME NEW j \in JobIds, NEW p \in ProjectIds,
             CreateProjectForJob(j, p) \/ AttachJobToProject(j, p)
      PROVE  TypeOK'
  <2>1. [job[j] EXCEPT !.project = p] \in JobRow
    BY DEF TypeOK, JobRow
  <2>2. CASE CreateProjectForJob(j, p)
    BY <1>1, <2>1, <2>2 DEF TypeOK, CreateProjectForJob, ProjectRow
  <2>3. CASE AttachJobToProject(j, p)
    BY <1>1, <2>1, <2>3 DEF TypeOK, AttachJobToProject
  <2> QED
    BY <1>6, <2>2, <2>3
<1> QED
  BY <1>2, <1>3, <1>4, <1>5, <1>6 DEF Edit

\* What a call that was begun refers to
Sourced(r) ==
    /\ req[r].pc # "idle" => /\ req[r].op = "convert" => req[r].source \in Leads
                             /\ req[r].op = "accept" => req[r].source \in QuoteIds
    /\ req[r].pc = "found" => req[r].result \in JobIds /\ req[r].op = "accept"

LEMMA ConvertTyped ==
    ASSUME TypeOK, NEW r \in Requests, Sourced(r), Convert(r)
    PROVE  TypeOK'
<1>0. req[r] \in Request
  BY DEF TypeOK
<1>1. ASSUME NEW l \in Leads, NEW private \in BOOLEAN, BeginConvert(r, l, private)
      PROVE  TypeOK'
  <2> DEFINE asked == [req[r] EXCEPT !.op = "convert", !.source = l, !.private = private]
  <2>1. /\ [asked EXCEPT !.pc = "locked", !.sawLead = lead[l]] \in Request
        /\ [asked EXCEPT !.pc = "done", !.answer = "not_found"] \in Request
    BY <1>0 DEF TypeOK, Request, Inside
  <2>2. \E new \in Request : Goes(r, new)
    BY <1>1, <2>1 DEF BeginConvert
  <2>3. /\ req' \in [Requests -> Request]
        /\ audited' = audited /\ edits' = edits
    BY <2>2, GoesTyped
  <2> QED
    BY <1>1, <2>3 DEF TypeOK, BeginConvert, tables
<1>2. CASE LookForQuote(r)
  <2>1. ASSUME NEW q \in QuotesSeen(r), Settles(r, "existing", q), UNCHANGED tables
        PROVE  TypeOK'
    <3>1. /\ req' \in [Requests -> Request]
          /\ audited' = audited /\ edits' = edits
      BY <2>1, SettlesTyped DEF QuotesSeen
    <3> QED
      BY <2>1, <3>1 DEF TypeOK, tables
  <2>2. CASE Fails(r, "refused")
    BY <2>2, FailsTyped
  <2>3. CASE Goes(r, [req[r] EXCEPT !.pc = "insert"]) /\ UNCHANGED tables
    <3>1. [req[r] EXCEPT !.pc = "insert"] \in Request
      BY <1>0 DEF Request, Inside
    <3>2. /\ req' \in [Requests -> Request]
          /\ audited' = audited /\ edits' = edits
      BY <2>3, <3>1, GoesTyped
    <3> QED
      BY <2>3, <3>2 DEF TypeOK, tables
  <2> QED
    BY <1>2, <2>1, <2>2, <2>3 DEF LookForQuote
<1>3. CASE InsertQuote(r)
  <2>1. CASE Fails(r, "forbidden") \/ Fails(r, "conflict")
    BY <2>1, FailsTyped
  <2>2. ASSUME ~(Fails(r, "forbidden") \/ Fails(r, "conflict"))
        PROVE  TypeOK'
    <3> DEFINE l == req[r].source
    <3>1. PICK q \in QuoteIds, amount \in Amounts :
            /\ quote' = [quote EXCEPT ![q] =
                 [status |-> "draft", lead |-> l, amount |-> amount,
                  archived |-> FALSE, private |-> req[r].private]]
            /\ Settles(r, "created", q)
      BY <1>3, <2>2 DEF InsertQuote
    <3>2. lead' = [lead EXCEPT ![l].stage = "quoted"] /\ job' = job /\ project' = project
      BY <1>3, <2>2 DEF InsertQuote
    <3>3. /\ req' \in [Requests -> Request]
          /\ audited' = audited /\ edits' = edits
      BY <3>1, SettlesTyped
    <3>4. lead' \in [Leads -> LeadRow]
      BY <3>2 DEF TypeOK, LeadRow, Stages
    <3>5. quote' \in [QuoteIds -> QuoteRow]
      <4>1. l \in Leads
        BY <1>3 DEF InsertQuote, Sourced
      <4>2. req[r].private \in BOOLEAN
        BY <1>0 DEF Request
      <4>3. [status |-> "draft", lead |-> l, amount |-> amount,
             archived |-> FALSE, private |-> req[r].private] \in QuoteRow
        BY <4>1, <4>2 DEF QuoteRow, Statuses
      <4> QED
        BY <3>1, <4>3 DEF TypeOK
    <3> QED
      BY <3>2, <3>3, <3>4, <3>5 DEF TypeOK
  <2> QED
    BY <2>1, <2>2
<1> QED
  BY <1>1, <1>2, <1>3 DEF Convert

LEMMA AcceptTyped ==
    ASSUME TypeOK, NEW r \in Requests, Sourced(r), Accept(r)
    PROVE  TypeOK'
<1>0. req[r] \in Request
  BY DEF TypeOK
<1>1. ASSUME NEW q \in QuoteIds, NEW p \in ProjectIds \cup {0}, NEW private \in BOOLEAN,
             BeginAccept(r, q, p, private)
      PROVE  TypeOK'
  <2> DEFINE asked == [req[r] EXCEPT !.op = "accept", !.source = q, !.into = p, !.private = private]
  <2>1. /\ [asked EXCEPT !.pc = "locked", !.sawQuote = quote[q]] \in Request
        /\ [asked EXCEPT !.pc = "done", !.answer = "not_found"] \in Request
    BY <1>0 DEF TypeOK, Request, Inside
  <2>2. \E new \in Request : Goes(r, new)
    BY <1>1, <2>1 DEF BeginAccept
  <2>3. /\ req' \in [Requests -> Request]
        /\ audited' = audited /\ edits' = edits
    BY <2>2, GoesTyped
  <2> QED
    BY <1>1, <2>3 DEF TypeOK, BeginAccept, tables
<1>2. CASE LookForJob(r)
  <2>1. CASE Fails(r, "not_found") \/ Fails(r, "refused")
    BY <2>1, FailsTyped
  <2>2. ASSUME NEW j \in JobsSeen(r), UNCHANGED tables,
               Goes(r, [req[r] EXCEPT !.pc = "found", !.result = j, !.attach = job[j].project = 0])
        PROVE  TypeOK'
    <3>1. [req[r] EXCEPT !.pc = "found", !.result = j, !.attach = job[j].project = 0] \in Request
      BY <1>0 DEF Request, Inside, JobsSeen
    <3>2. /\ req' \in [Requests -> Request]
          /\ audited' = audited /\ edits' = edits
      BY <2>2, <3>1, GoesTyped
    <3> QED
      BY <2>2, <3>2 DEF TypeOK, tables
  <2>3. CASE Goes(r, [req[r] EXCEPT !.pc = "insert"]) /\ UNCHANGED tables
    <3>1. [req[r] EXCEPT !.pc = "insert"] \in Request
      BY <1>0 DEF Request, Inside
    <3>2. /\ req' \in [Requests -> Request]
          /\ audited' = audited /\ edits' = edits
      BY <2>3, <3>1, GoesTyped
    <3> QED
      BY <2>3, <3>2 DEF TypeOK, tables
  <2> QED
    BY <1>2, <2>1, <2>2, <2>3 DEF LookForJob
<1>3. CASE KeepJob(r)
  <2> DEFINE j == req[r].result
             q == req[r].source
  <2>1. j \in JobIds /\ q \in QuoteIds
    BY <1>3 DEF KeepJob, Sourced
  <2>2. Settles(r, "existing", j)
    BY <1>3 DEF KeepJob
  <2>3. /\ req' \in [Requests -> Request]
        /\ audited' = audited /\ edits' = edits
    BY <2>1, <2>2, SettlesTyped
  <2>4. quote' \in [QuoteIds -> QuoteRow]
    <3>1. [quote[q] EXCEPT !.status = "accepted"] \in QuoteRow
      BY <2>1 DEF TypeOK, QuoteRow, Statuses
    <3> QED
      BY <1>3, <3>1 DEF TypeOK, KeepJob
  <2>5. job' \in [JobIds -> JobRow]
    <3>1. [job[j] EXCEPT !.project = req[r].into] \in JobRow
      BY <1>0, <2>1 DEF TypeOK, JobRow, Request
    <3> QED
      BY <1>3, <3>1 DEF TypeOK, KeepJob
  <2> QED
    BY <1>3, <2>3, <2>4, <2>5 DEF TypeOK, KeepJob
<1>4. CASE InsertJob(r)
  <2>1. CASE Fails(r, "forbidden") \/ Fails(r, "conflict")
    BY <2>1, FailsTyped
  <2>2. ASSUME ~(Fails(r, "forbidden") \/ Fails(r, "conflict"))
        PROVE  TypeOK'
    <3> DEFINE q == req[r].source
               new == [exists |-> TRUE, quote |-> q, amount |-> req[r].sawQuote.amount,
                       project |-> req[r].into, archived |-> FALSE, private |-> req[r].private]
    <3>1. PICK j \in JobIds : job' = [job EXCEPT ![j] = new] /\ Settles(r, "created", j)
      BY <1>4, <2>2 DEF InsertJob
    <3>2. /\ quote' = [quote EXCEPT ![q].status = "accepted"] /\ project' = project
          /\ lead' = [l \in Leads |-> IF l \in WonLead(r) THEN [lead[l] EXCEPT !.stage = "won"]
                                      ELSE lead[l]]
      BY <1>4, <2>2 DEF InsertJob
    <3>3. /\ req' \in [Requests -> Request]
          /\ audited' = audited /\ edits' = edits
      BY <3>1, SettlesTyped
    <3>4. q \in QuoteIds
      BY <1>4 DEF InsertJob, Sourced
    <3>5. new \in JobRow
      <4>1. req[r].sawQuote.amount \in Amounts /\ req[r].into \in ProjectIds \cup {0}
            /\ req[r].private \in BOOLEAN
        BY <1>0 DEF Request, QuoteRow
      <4> QED
        BY <3>4, <4>1 DEF JobRow
    <3>6. lead' \in [Leads -> LeadRow]
      <4>1. \A l \in Leads : lead[l] \in LeadRow /\ [lead[l] EXCEPT !.stage = "won"] \in LeadRow
        BY DEF TypeOK, LeadRow, Stages
      <4> QED
        BY <3>2, <4>1
    <3>7. quote' \in [QuoteIds -> QuoteRow]
      <4>1. [quote[q] EXCEPT !.status = "accepted"] \in QuoteRow
        BY <3>4 DEF TypeOK, QuoteRow, Statuses
      <4> QED
        BY <3>2, <4>1 DEF TypeOK
    <3>8. job' \in [JobIds -> JobRow]
      BY <3>1, <3>5 DEF TypeOK
    <3> QED
      BY <3>2, <3>3, <3>6, <3>7, <3>8 DEF TypeOK
  <2> QED
    BY <2>1, <2>2
<1> QED
  BY <1>1, <1>2, <1>3, <1>4 DEF Accept

LEMMA EndTyped ==
    ASSUME TypeOK, NEW r \in Requests, Lose(r) \/ Audit(r)
    PROVE  TypeOK'
<1>0. req[r] \in Request
  BY DEF TypeOK
<1>1. CASE Lose(r)
  <2>1. [req[r] EXCEPT !.pc = "done", !.answer = IF @ = "none" THEN "lost" ELSE @] \in Request
    BY <1>0 DEF Request
  <2>2. /\ req' \in [Requests -> Request]
        /\ audited' = audited /\ edits' = edits
    BY <1>1, <2>1, GoesTyped DEF Lose
  <2> QED
    BY <1>1, <2>2 DEF TypeOK, Lose, tables
<1>2. CASE Audit(r)
  <2>1. [req[r] EXCEPT !.pc = "done"] \in Request
    BY <1>0 DEF Request
  <2>2. [op |-> req[r].op, row |-> req[r].result, by |-> r]
          \in [op: {"convert", "accept"}, row: QuoteIds \cup JobIds \cup {0}, by: Requests]
    BY <1>0 DEF Request
  <2> QED
    BY <1>2, <2>1, <2>2 DEF TypeOK, Audit, tables
<1> QED
  BY <1>1, <1>2

LEMMA StepTyped ==
    ASSUME TypeOK, \A r \in Requests : Sourced(r), [Next]_vars
    PROVE  TypeOK'
<1>1. CASE UNCHANGED vars
  BY <1>1 DEF TypeOK, vars, tables
<1> QED
  BY <1>1, EnterTyped, EditTyped, ConvertTyped, AcceptTyped, EndTyped DEF Next
-----------------------------------------------------------------------------
(* The invariant *)

\* What one call may rely on, and what it has been told
CallInv(r) ==
    /\ Sourced(r)
    /\ req[r].pc \in Inside \cup {"idle"} => req[r].answer = "none"
    /\ req[r].pc = "audit" => req[r].answer = "created"
    /\ req[r].pc \in Inside /\ req[r].op = "accept"
         => quote[req[r].source] = req[r].sawQuote /\ quote[req[r].source].status # "none"
    /\ req[r].pc = "insert" /\ req[r].op = "accept"
         => req[r].sawQuote.status # "declined" /\ ~req[r].sawQuote.archived
    /\ req[r].pc = "insert" /\ r \in Owners
         => /\ req[r].op = "convert" => ~QuoteTaken(req[r].source)
            /\ req[r].op = "accept" => ~JobTaken(req[r].source)
    /\ Answered(r) /\ req[r].op = "convert"
         => /\ req[r].result \in QuoteIds /\ quote[req[r].result].status # "none"
            /\ quote[req[r].result].lead = req[r].source
    /\ (Answered(r) \/ req[r].pc = "found") /\ req[r].op = "accept"
         => /\ req[r].result \in JobIds /\ job[req[r].result].exists
            /\ job[req[r].result].quote = req[r].source

\* FOR UPDATE: one transaction at most holds a source row
Exclusive ==
    \A r, s \in Requests :
        /\ req[r].pc \in Inside /\ req[s].pc \in Inside
        /\ req[r].op = req[s].op /\ req[r].source = req[s].source
        => r = s

\* The unique indexes
OneEach ==
    /\ \A p, q \in QuoteIds :
         /\ quote[p].status # "none" /\ quote[q].status # "none"
         /\ quote[p].lead = quote[q].lead /\ quote[p].lead \in Leads
         => p = q
    /\ \A i, j \in JobIds :
         job[i].exists /\ job[j].exists /\ job[i].quote = job[j].quote /\ job[i].quote # 0 => i = j

OneMaker ==
    \A r, s \in Requests :
        /\ req[r].answer = "created" /\ req[s].answer = "created"
        /\ req[r].op = req[s].op /\ req[r].source = req[s].source
        => r = s

AuditsHold ==
    \A e \in audited : /\ req[e.by].pc = "done" /\ req[e.by].answer = "created"
                       /\ e.op = req[e.by].op /\ e.row = req[e.by].result

IInv ==
    /\ TypeOK
    /\ \A r \in Requests : CallInv(r)
    /\ Exclusive /\ OneEach /\ OneMaker /\ AuditsHold
    /\ JobMeansAccepted /\ OwnersRetrySafely

LEMMA InitInv == Init => IInv
<1> SUFFICES ASSUME Init PROVE IInv
  OBVIOUS
<1>1. TypeOK
  BY RowTypes, PipelineAssumption DEF Init, TypeOK, ProjectRow
<1>2. \A r \in Requests : req[r].pc = "idle" /\ req[r].answer = "none" /\ req[r].op = "convert"
  BY DEF Init, IdleRequest
<1>3. \A r \in Requests : CallInv(r)
  BY <1>2 DEF CallInv, Sourced, Inside, Answered
<1>4. Exclusive /\ OneMaker /\ OwnersRetrySafely
  BY <1>2, PipelineAssumption DEF Exclusive, OneMaker, OwnersRetrySafely, Inside
<1>5. OneEach /\ JobMeansAccepted
  BY DEF Init, OneEach, JobMeansAccepted, NoQuoteRow, NoJobRow
<1>6. AuditsHold
  BY DEF Init, AuditsHold
<1> QED
  BY <1>1, <1>3, <1>4, <1>5, <1>6 DEF IInv

(***************************************************************************)
(* What steps do to the tables                                             *)
(***************************************************************************)
\* A row is never removed and never changes what it comes from
RowsGrow ==
    /\ \A q \in QuoteIds : quote[q].status # "none"
         => quote'[q].status # "none" /\ quote'[q].lead = quote[q].lead
    /\ \A j \in JobIds : job[j].exists => job'[j].exists /\ job'[j].quote = job[j].quote

\* No row comes of a lead, or of a quote, but those that did
NoNewQuote ==
    \A q \in QuoteIds : quote'[q].status # "none" /\ quote'[q].lead \in Leads
         => quote[q].status # "none" /\ quote[q].lead = quote'[q].lead
NoNewJob ==
    \A j \in JobIds : job'[j].exists /\ job'[j].quote # 0
         => job[j].exists /\ job[j].quote = job'[j].quote

\* Nothing a call relies on is touched
LEMMA CallKept ==
    ASSUME TypeOK, TypeOK', NEW s \in Requests, CallInv(s), req'[s] = req[s], RowsGrow,
           req[s].pc \in Inside /\ req[s].op = "accept"
             => quote'[req[s].source] = quote[req[s].source],
           req[s].pc = "insert" /\ req[s].op = "convert"
             => (QuoteTaken(req[s].source)' => QuoteTaken(req[s].source)),
           req[s].pc = "insert" /\ req[s].op = "accept"
             => (JobTaken(req[s].source)' => JobTaken(req[s].source))
    PROVE  CallInv(s)'
<1> DEFINE me == req[s]
<1>1. req'[s] = me
  OBVIOUS
<1>2. Sourced(s)' /\ (Answered(s)' <=> Answered(s))
  BY DEF CallInv, Sourced, Answered
<1>3. /\ me.pc \in Inside \cup {"idle"} => me.answer = "none"
      /\ me.pc = "audit" => me.answer = "created"
      /\ me.pc = "insert" /\ me.op = "accept" => me.sawQuote.status # "declined" /\ ~me.sawQuote.archived
  BY DEF CallInv
<1>4. me.pc \in Inside /\ me.op = "accept"
        => quote'[me.source] = me.sawQuote /\ quote'[me.source].status # "none"
  BY DEF CallInv
<1>5. me.pc = "insert" /\ s \in Owners
        => /\ me.op = "convert" => ~QuoteTaken(me.source)'
           /\ me.op = "accept" => ~JobTaken(me.source)'
  BY DEF CallInv
<1>6. Answered(s) /\ me.op = "convert"
        => /\ me.result \in QuoteIds /\ quote'[me.result].status # "none"
           /\ quote'[me.result].lead = me.source
  BY DEF CallInv, RowsGrow
<1>7. (Answered(s) \/ me.pc = "found") /\ me.op = "accept"
        => /\ me.result \in JobIds /\ job'[me.result].exists
           /\ job'[me.result].quote = me.source
  BY DEF CallInv, RowsGrow
<1>8. me.pc = "insert" /\ s \in Owners
        => /\ me.op = "convert" => ~QuoteTaken(req[s].source)'
           /\ me.op = "accept" => ~JobTaken(req[s].source)'
  BY <1>1, <1>5 DEF QuoteTaken, JobTaken
<1> QED
  BY <1>1, <1>2, <1>3, <1>4, <1>6, <1>7, <1>8 DEF CallInv, QuoteIds, JobIds

LEMMA NoneTaken ==
    ASSUME TypeOK
    PROVE  /\ NoNewQuote => \A l \in Leads : QuoteTaken(l)' => QuoteTaken(l)
           /\ NoNewJob => \A q \in QuoteIds : JobTaken(q)' => JobTaken(q)
<1>1. ASSUME NoNewQuote, NEW l \in Leads, QuoteTaken(l)'
      PROVE  QuoteTaken(l)
  BY <1>1 DEF NoNewQuote, QuoteTaken, QuoteIds
<1>2. ASSUME NoNewJob, NEW q \in QuoteIds, JobTaken(q)'
      PROVE  JobTaken(q)
  BY <1>2 DEF NoNewJob, JobTaken, JobIds, QuoteIds
<1> QED
  BY <1>1, <1>2

LEMMA OneEachKept ==
    ASSUME TypeOK, OneEach, RowsGrow, NoNewQuote, NoNewJob
    PROVE  OneEach'
<1>1. ASSUME NEW p \in QuoteIds, NEW q \in QuoteIds,
             quote'[p].status # "none", quote'[q].status # "none",
             quote'[p].lead = quote'[q].lead, quote'[p].lead \in Leads
      PROVE  p = q
  BY <1>1 DEF OneEach, NoNewQuote
<1>2. ASSUME NEW i \in JobIds, NEW j \in JobIds,
             job'[i].exists, job'[j].exists, job'[i].quote = job'[j].quote, job'[i].quote # 0
      PROVE  i = j
  BY <1>2 DEF OneEach, NoNewJob
<1> QED
  BY <1>1, <1>2 DEF OneEach, QuoteIds, JobIds

(***************************************************************************)
(* Rows entered and edited by hand                                         *)
(***************************************************************************)
HandEffect ==
    /\ RowsGrow /\ NoNewQuote /\ NoNewJob
    /\ \A q \in QuoteIds : QuoteLocked(q) /\ quote[q].status # "none" => quote'[q] = quote[q]
    /\ JobMeansAccepted'
    /\ req' = req /\ audited' = audited

\* The quote of a job is there
LEMMA QuoteOfJob ==
    ASSUME TypeOK, JobMeansAccepted, NEW j \in JobIds, job[j].exists, job[j].quote # 0
    PROVE  /\ job[j].quote \in QuoteIds /\ quote[job[j].quote].status = "accepted"
           /\ JobTaken(job[j].quote)
BY DEF TypeOK, JobMeansAccepted, JobRow, JobTaken

LEMMA EnterEffect ==
    ASSUME TypeOK, JobMeansAccepted, Enter
    PROVE  HandEffect
<1>0. req' = req /\ audited' = audited
  BY DEF Enter, CreateLead, CreateQuote, CreateJob, CreateProject, ByHand
<1>1. CASE quote' = quote /\ job' = job
  BY <1>0, <1>1 DEF HandEffect, RowsGrow, NoNewQuote, NoNewJob, JobMeansAccepted, JobIds
<1>2. ASSUME NEW q \in QuoteIds, NEW amount \in Amounts, CreateQuote(q, amount)
      PROVE  HandEffect
  <2> DEFINE new == [NoQuoteRow EXCEPT !.status = "draft", !.amount = amount]
  <2>1. quote' = [quote EXCEPT ![q] = new] /\ job' = job /\ quote[q].status = "none"
    BY <1>2 DEF CreateQuote, FreshQuote
  <2>2. quote'[q] = new /\ \A p \in QuoteIds \ {q} : quote'[p] = quote[p]
    BY <2>1 DEF TypeOK
  <2>3. new.status = "draft" /\ new.lead \notin Leads
    BY PipelineAssumption DEF NoQuoteRow
  <2> HIDE DEF new
  <2>4. JobMeansAccepted'
    BY <2>1, <2>2, QuoteOfJob DEF JobMeansAccepted, JobIds
  <2> QED
    BY <1>0, <2>1, <2>2, <2>3, <2>4 DEF HandEffect, RowsGrow, NoNewQuote, NoNewJob
<1>3. ASSUME NEW j \in JobIds, NEW amount \in Amounts, CreateJob(j, amount)
      PROVE  HandEffect
  <2> DEFINE new == [NoJobRow EXCEPT !.exists = TRUE, !.amount = amount]
  <2>1. job' = [job EXCEPT ![j] = new] /\ quote' = quote /\ ~job[j].exists
    BY <1>3 DEF CreateJob, FreshJob
  <2>2. job'[j] = new /\ \A i \in JobIds \ {j} : job'[i] = job[i]
    BY <2>1 DEF TypeOK
  <2>3. new.quote = 0
    BY DEF NoJobRow
  <2> HIDE DEF new
  <2>4. JobMeansAccepted'
    BY <2>1, <2>2, <2>3 DEF JobMeansAccepted, JobIds
  <2> QED
    BY <1>0, <2>1, <2>2, <2>3, <2>4 DEF HandEffect, RowsGrow, NoNewQuote, NoNewJob
<1> QED
  BY <1>1, <1>2, <1>3 DEF Enter, CreateLead, CreateProject

LEMMA EditEffect ==
    ASSUME TypeOK, JobMeansAccepted, Edit
    PROVE  HandEffect
<1>0. req' = req /\ audited' = audited
  BY DEF Edit, EditLead, EditQuote, EditJob, ReplaceItems, CreateProjectForJob, AttachJobToProject, ByHand
<1>1. CASE quote' = quote /\ job' = job
  BY <1>0, <1>1 DEF HandEffect, RowsGrow, NoNewQuote, NoNewJob, JobMeansAccepted, JobIds
<1>2. ASSUME NEW q \in QuoteIds, NEW row \in QuoteRow,
             quote' = [quote EXCEPT ![q] = row], job' = job, ~QuoteLocked(q),
             quote[q].status # "none", row.status # "none", row.lead = quote[q].lead,
             JobTaken(q) /\ quote[q].status = "accepted" => row.status = "accepted"
      PROVE  HandEffect
  <2>1. quote'[q] = row /\ \A p \in QuoteIds \ {q} : quote'[p] = quote[p]
    BY <1>2 DEF TypeOK
  <2>2. JobMeansAccepted'
    BY <1>2, <2>1, QuoteOfJob DEF JobMeansAccepted, JobIds
  <2> QED
    BY <1>0, <1>2, <2>1, <2>2 DEF HandEffect, RowsGrow, NoNewQuote, NoNewJob
<1>3. ASSUME NEW j \in JobIds, NEW row \in JobRow,
             job' = [job EXCEPT ![j] = row], quote' = quote,
             job[j].exists, row.exists, row.quote = job[j].quote
      PROVE  HandEffect
  <2>1. job'[j] = row /\ \A i \in JobIds \ {j} : job'[i] = job[i]
    BY <1>3 DEF TypeOK
  <2>2. JobMeansAccepted'
    BY <1>3, <2>1 DEF JobMeansAccepted, JobIds
  <2> QED
    BY <1>0, <1>3, <2>1, <2>2 DEF HandEffect, RowsGrow, NoNewQuote, NoNewJob
<1>4. ASSUME NEW q \in QuoteIds, EditQuote(q)
      PROVE  HandEffect
  <2>1. PICK row \in QuoteEdits(quote[q]) : MayTurn(q, row.status) /\ quote' = [quote EXCEPT ![q] = row]
    BY <1>4 DEF EditQuote
  <2>2. quote[q] \in QuoteRow /\ quote[q].status # "none" /\ ~QuoteLocked(q) /\ job' = job
    BY <1>4 DEF EditQuote, TypeOK
  <2>3. row \in QuoteRow
    BY <2>2, EditedRows
  <2>4. row.lead = quote[q].lead /\ row.status # "none"
    BY <2>1, <2>2 DEF QuoteEdits, QuoteRow, Statuses
  <2>5. JobTaken(q) /\ quote[q].status = "accepted" => row.status = "accepted"
    BY <2>1 DEF MayTurn
  <2> QED
    BY <1>2, <2>1, <2>2, <2>3, <2>4, <2>5
<1>5. ASSUME NEW q \in QuoteIds, NEW total \in Amounts, ReplaceItems(q, total)
      PROVE  HandEffect
  <2> DEFINE row == [quote[q] EXCEPT !.amount = total]
  <2>1. quote[q] \in QuoteRow
    BY DEF TypeOK
  <2>2. row \in QuoteRow /\ row.status = quote[q].status /\ row.lead = quote[q].lead
    BY <2>1 DEF QuoteRow
  <2>3. quote' = [quote EXCEPT ![q] = row] /\ job' = job /\ ~QuoteLocked(q) /\ quote[q].status # "none"
    BY <1>5 DEF ReplaceItems
  <2> HIDE DEF row
  <2> QED
    BY <1>2, <2>2, <2>3
<1>6. ASSUME NEW j \in JobIds, EditJob(j)
      PROVE  HandEffect
  <2>1. PICK row \in JobEdits(job[j]) : job' = [job EXCEPT ![j] = row]
    BY <1>6 DEF EditJob
  <2>2. job[j] \in JobRow /\ job[j].exists /\ quote' = quote
    BY <1>6 DEF EditJob, TypeOK
  <2>3. row \in JobRow
    BY <2>2, EditedRows
  <2>4. row.exists /\ row.quote = job[j].quote
    BY <2>1, <2>2 DEF JobEdits, JobRow
  <2> QED
    BY <1>3, <2>1, <2>2, <2>3, <2>4
<1>7. ASSUME NEW j \in JobIds, NEW p \in ProjectIds,
             CreateProjectForJob(j, p) \/ AttachJobToProject(j, p)
      PROVE  HandEffect
  <2> DEFINE row == [job[j] EXCEPT !.project = p]
  <2>1. job[j] \in JobRow /\ job[j].exists /\ quote' = quote /\ job' = [job EXCEPT ![j] = row]
    BY <1>7 DEF CreateProjectForJob, AttachJobToProject, TypeOK
  <2>2. row \in JobRow /\ row.exists /\ row.quote = job[j].quote
    BY <2>1 DEF JobRow
  <2> HIDE DEF row
  <2> QED
    BY <1>3, <2>1, <2>2
<1> QED
  BY <1>1, <1>4, <1>5, <1>6, <1>7 DEF Edit, EditLead

LEMMA HandInv ==
    ASSUME IInv, TypeOK', HandEffect
    PROVE  IInv'
<1>1. TypeOK /\ RowsGrow /\ NoNewQuote /\ NoNewJob /\ req' = req /\ audited' = audited
  BY DEF IInv, HandEffect
<1>2. ASSUME NEW s \in Requests
      PROVE  CallInv(s)'
  <2>1. CallInv(s)
    BY DEF IInv
  <2>2. ASSUME req[s].pc \in Inside, req[s].op = "accept"
        PROVE  quote'[req[s].source] = quote[req[s].source]
    <3>1. req[s].source \in QuoteIds /\ quote[req[s].source].status # "none"
      BY <2>1, <2>2 DEF CallInv, Sourced, Inside
    <3>2. QuoteLocked(req[s].source)
      BY <2>2 DEF QuoteLocked
    <3> QED
      BY <3>1, <3>2 DEF HandEffect
  <2>3. req[s].pc = "insert" => /\ req[s].op = "convert" => req[s].source \in Leads
                                /\ req[s].op = "accept" => req[s].source \in QuoteIds
    BY <2>1 DEF CallInv, Sourced
  <2>4. \A l \in Leads : QuoteTaken(l)' => QuoteTaken(l)
    BY <1>1, NoneTaken
  <2>5. \A q \in QuoteIds : JobTaken(q)' => JobTaken(q)
    BY <1>1, NoneTaken
  <2>6. req[s].pc = "insert" /\ req[s].op = "convert" => (QuoteTaken(req[s].source)' => QuoteTaken(req[s].source))
    BY <1>1, <2>3, <2>4 DEF QuoteTaken, QuoteIds
  <2>7. req[s].pc = "insert" /\ req[s].op = "accept" => (JobTaken(req[s].source)' => JobTaken(req[s].source))
    BY <1>1, <2>3, <2>5 DEF JobTaken, JobIds
  <2>8. req'[s] = req[s]
    BY <1>1
  <2> QED
    BY <1>1, <2>1, <2>2, <2>6, <2>7, <2>8, CallKept
<1>3. OneEach'
  BY <1>1, OneEachKept DEF IInv
<1>4. Exclusive' /\ OneMaker' /\ AuditsHold' /\ OwnersRetrySafely'
  BY <1>1 DEF IInv, Exclusive, OneMaker, AuditsHold, OwnersRetrySafely
<1>5. JobMeansAccepted'
  BY DEF HandEffect
<1> QED
  BY <1>2, <1>3, <1>4, <1>5 DEF IInv

(***************************************************************************)
(* Steps of a call                                                         *)
(***************************************************************************)
\* The call r moves on to the record new; the tables may change with it
LEMMA CallStep ==
    ASSUME IInv, TypeOK', NEW r \in Requests, NEW new,
           req' = [req EXCEPT ![r] = new], audited' = audited, req[r].pc # "done",
           \A s \in Requests : CallInv(s)',
           OneEach', JobMeansAccepted',
           new.pc \in Inside =>
             \/ req[r].pc \in Inside /\ new.op = req[r].op /\ new.source = req[r].source
             \/ new.op = "convert" /\ ~LeadLocked(new.source)
             \/ new.op = "accept" /\ ~QuoteLocked(new.source),
           new.answer = "created" =>
             \/ req[r].answer = "created" /\ new.op = req[r].op /\ new.source = req[r].source
             \/ \A s \in Requests \ {r} :
                  ~(req[s].answer = "created" /\ req[s].op = new.op /\ req[s].source = new.source),
           r \in Owners => new.answer # "conflict"
    PROVE  IInv'
<1>1. req'[r] = new /\ \A s \in Requests \ {r} : req'[s] = req[s]
  BY DEF IInv, TypeOK
<1>2. Exclusive'
  <2> SUFFICES ASSUME NEW s \in Requests, s # r, req[s].pc \in Inside, new.pc \in Inside,
                      req[s].op = new.op, req[s].source = new.source
               PROVE  FALSE
    BY <1>1 DEF IInv, Exclusive, Inside
  <2>1. CASE req[r].pc \in Inside /\ new.op = req[r].op /\ new.source = req[r].source
    BY <2>1 DEF IInv, Exclusive
  <2>2. CASE new.op = "convert" /\ ~LeadLocked(new.source)
    BY <2>2 DEF LeadLocked
  <2>3. CASE new.op = "accept" /\ ~QuoteLocked(new.source)
    BY <2>3 DEF QuoteLocked
  <2> QED
    BY <2>1, <2>2, <2>3
<1>3. OneMaker'
  <2> SUFFICES ASSUME NEW s \in Requests, s # r, req[s].answer = "created", new.answer = "created",
                      req[s].op = new.op, req[s].source = new.source
               PROVE  FALSE
    BY <1>1 DEF IInv, OneMaker
  <2> QED
    BY DEF IInv, OneMaker
<1>4. AuditsHold'
  <2>1. \A e \in audited : e.by \in Requests /\ e.by # r
    BY DEF IInv, TypeOK, AuditsHold
  <2> QED
    BY <1>1, <2>1 DEF IInv, AuditsHold
<1>5. OwnersRetrySafely'
  BY <1>1, PipelineAssumption DEF IInv, OwnersRetrySafely
<1> QED
  BY <1>2, <1>3, <1>4, <1>5 DEF IInv

\* A step that reads, answers or gives up: the tables stay
LEMMA QuietStep ==
    ASSUME IInv, TypeOK', NEW r \in Requests, NEW new,
           Goes(r, new), UNCHANGED tables, req[r].pc # "done", CallInv(r)',
           new.pc \in Inside =>
             \/ req[r].pc \in Inside /\ new.op = req[r].op /\ new.source = req[r].source
             \/ new.op = "convert" /\ ~LeadLocked(new.source)
             \/ new.op = "accept" /\ ~QuoteLocked(new.source),
           new.answer = "created" =>
             req[r].answer = "created" /\ new.op = req[r].op /\ new.source = req[r].source,
           r \in Owners => new.answer # "conflict"
    PROVE  IInv'
<1>1. /\ req' = [req EXCEPT ![r] = new] /\ audited' = audited
      /\ quote' = quote /\ job' = job
  BY DEF Goes, tables
<1>2. ASSUME NEW s \in Requests, s # r
      PROVE  CallInv(s)'
    <2>1. req'[s] = req[s] /\ CallInv(s) /\ TypeOK
      BY <1>1, <1>2 DEF IInv, TypeOK
    <2>2. RowsGrow
      BY <1>1 DEF RowsGrow
    <2>3. (QuoteTaken(req[s].source)' => QuoteTaken(req[s].source))
          /\ (JobTaken(req[s].source)' => JobTaken(req[s].source))
      BY <1>1, <2>1 DEF QuoteTaken, JobTaken, QuoteIds, JobIds
    <2> QED
      BY <1>1, <2>1, <2>2, <2>3, CallKept
<1>3. OneEach' /\ JobMeansAccepted'
  BY <1>1 DEF IInv, OneEach, JobMeansAccepted, QuoteIds, JobIds
<1>4. \A s \in Requests : CallInv(s)'
  BY <1>2
<1> QED
  BY <1>1, <1>3, <1>4, CallStep

\* A call that failed, or was lost, relies on nothing
LEMMA FailStep ==
    ASSUME IInv, TypeOK', NEW r \in Requests,
           NEW answer \in {"not_found", "refused", "forbidden", "conflict", "lost"},
           Fails(r, answer), req[r].pc \in Inside,
           r \in Owners => answer # "conflict"
    PROVE  IInv'
<1> DEFINE new == [req[r] EXCEPT !.pc = "done", !.answer = answer]
<1>1. req[r] \in Request /\ Sourced(r)
  BY DEF IInv, TypeOK, CallInv
<1>2. new.pc = "done" /\ new.answer = answer /\ new.op = req[r].op /\ new.source = req[r].source
  BY <1>1 DEF Request
<1>3. Goes(r, new) /\ UNCHANGED tables
  BY DEF Fails
<1> HIDE DEF new
<1>4. req'[r] = new
  BY <1>3 DEF Goes, IInv, TypeOK
<1>5. Sourced(r)'
  BY <1>1, <1>2, <1>4 DEF Sourced, Inside, QuoteIds
<1>6. CallInv(r)'
  BY <1>2, <1>4, <1>5 DEF CallInv, Inside, Answered
<1>7. req[r].pc # "done" /\ new.pc \notin Inside /\ new.answer # "created"
  BY <1>2 DEF Inside
<1> QED
  BY <1>2, <1>3, <1>6, <1>7, QuietStep

LEMMA LoseInv ==
    ASSUME IInv, TypeOK', NEW r \in Requests, Lose(r)
    PROVE  IInv'
<1> DEFINE new == [req[r] EXCEPT !.pc = "done", !.answer = IF @ = "none" THEN "lost" ELSE @]
<1>1. req[r] \in Request /\ CallInv(r) /\ req[r].pc \in Inside \cup {"audit"}
  BY DEF IInv, TypeOK, Lose
<1>2. /\ new.pc = "done" /\ new.op = req[r].op /\ new.source = req[r].source
      /\ new.result = req[r].result
      /\ new.answer = IF req[r].answer = "none" THEN "lost" ELSE req[r].answer
  BY <1>1 DEF Request
<1>3. Goes(r, new) /\ UNCHANGED tables
  BY DEF Lose
<1> HIDE DEF new
<1>4. req'[r] = new /\ quote' = quote /\ job' = job
  BY <1>3 DEF Goes, IInv, TypeOK, tables
<1>5. new.answer = "lost" \/ (new.answer = "created" /\ req[r].answer = "created" /\ req[r].pc = "audit")
  BY <1>1, <1>2 DEF CallInv, Inside
<1>6. Sourced(r)'
  BY <1>1, <1>2, <1>4 DEF CallInv, Sourced, Inside, QuoteIds
<1>7. CallInv(r)'
  BY <1>1, <1>2, <1>4, <1>5, <1>6 DEF CallInv, Inside, Answered, QuoteIds, JobIds
<1>8. req[r].pc # "done" /\ new.pc \notin Inside /\ new.answer # "conflict"
  BY <1>1, <1>2, <1>5 DEF Inside
<1> QED
  BY <1>2, <1>3, <1>5, <1>7, <1>8, QuietStep

LEMMA BeginInv ==
    ASSUME IInv, TypeOK', NEW r \in Requests,
           \/ \E l \in Leads, private \in BOOLEAN : BeginConvert(r, l, private)
           \/ \E q \in QuoteIds, p \in ProjectIds \cup {0}, private \in BOOLEAN :
                 BeginAccept(r, q, p, private)
    PROVE  IInv'
<1>1. req[r] \in Request /\ CallInv(r) /\ req[r].pc = "idle" /\ req[r].answer = "none" /\ UNCHANGED tables
  BY DEF IInv, TypeOK, CallInv, BeginConvert, BeginAccept
<1> DEFINE Begun(new) ==
        /\ Goes(r, new)
        /\ \/ new.pc = "done" /\ new.answer = "not_found"
           \/ new.pc = "locked" /\ new.answer = "none"
        /\ \/ /\ new.op = "convert" /\ new.source \in Leads
              /\ new.pc = "locked" => ~LeadLocked(new.source)
           \/ /\ new.op = "accept" /\ new.source \in QuoteIds
              /\ new.pc = "locked" => /\ ~QuoteLocked(new.source)
                                      /\ quote[new.source] = new.sawQuote
                                      /\ quote[new.source].status # "none"
<1>2. \E new \in Request : Begun(new)
  <2>1. ASSUME NEW l \in Leads, NEW private \in BOOLEAN, BeginConvert(r, l, private)
        PROVE  \E new \in Request : Begun(new)
    <3> DEFINE asked == [req[r] EXCEPT !.op = "convert", !.source = l, !.private = private]
    <3>1. asked \in Request /\ asked.op = "convert" /\ asked.source = l /\ asked.answer = "none"
      BY <1>1 DEF Request
    <3>2. \/ ~LeadLocked(l) /\ Goes(r, [asked EXCEPT !.pc = "locked", !.sawLead = lead[l]])
          \/ Goes(r, [asked EXCEPT !.pc = "done", !.answer = "not_found"])
      BY <2>1 DEF BeginConvert
    <3> HIDE DEF asked
    <3>3. CASE ~LeadLocked(l) /\ Goes(r, [asked EXCEPT !.pc = "locked", !.sawLead = lead[l]])
      <4> DEFINE new == [asked EXCEPT !.pc = "locked", !.sawLead = lead[l]]
      <4>1. lead[l] \in LeadRow
        BY DEF IInv, TypeOK
      <4>2. new \in Request /\ new.pc = "locked" /\ new.answer = "none" /\ new.op = "convert" /\ new.source = l
        BY <3>1, <4>1 DEF Request, Inside
      <4> HIDE DEF new
      <4>3. Goes(r, new)
        BY <3>3 DEF new
      <4> QED
        BY <3>3, <4>2, <4>3
    <3>4. CASE Goes(r, [asked EXCEPT !.pc = "done", !.answer = "not_found"])
      <4> DEFINE new == [asked EXCEPT !.pc = "done", !.answer = "not_found"]
      <4>1. new \in Request /\ new.pc = "done" /\ new.answer = "not_found" /\ new.op = "convert" /\ new.source = l
        BY <3>1 DEF Request
      <4> HIDE DEF new
      <4>2. Goes(r, new)
        BY <3>4 DEF new
      <4> QED
        BY <4>1, <4>2
    <3> QED
      BY <3>2, <3>3, <3>4
  <2>2. ASSUME NEW q \in QuoteIds, NEW p \in ProjectIds \cup {0}, NEW private \in BOOLEAN,
               BeginAccept(r, q, p, private)
        PROVE  \E new \in Request : Begun(new)
    <3> DEFINE asked == [req[r] EXCEPT !.op = "accept", !.source = q, !.into = p, !.private = private]
    <3>1. asked \in Request /\ asked.op = "accept" /\ asked.source = q /\ asked.answer = "none"
      BY <1>1 DEF Request
    <3>2. \/ /\ ~QuoteLocked(q) /\ quote[q].status # "none"
             /\ Goes(r, [asked EXCEPT !.pc = "locked", !.sawQuote = quote[q]])
          \/ Goes(r, [asked EXCEPT !.pc = "done", !.answer = "not_found"])
      BY <2>2 DEF BeginAccept
    <3> HIDE DEF asked
    <3>3. CASE /\ ~QuoteLocked(q) /\ quote[q].status # "none"
               /\ Goes(r, [asked EXCEPT !.pc = "locked", !.sawQuote = quote[q]])
      <4> DEFINE new == [asked EXCEPT !.pc = "locked", !.sawQuote = quote[q]]
      <4>1. quote[q] \in QuoteRow
        BY DEF IInv, TypeOK
      <4>2. new \in Request /\ new.pc = "locked" /\ new.answer = "none" /\ new.op = "accept"
            /\ new.source = q /\ new.sawQuote = quote[q]
        BY <3>1, <4>1 DEF Request, Inside
      <4> HIDE DEF new
      <4>3. Goes(r, new)
        BY <3>3 DEF new
      <4> QED
        BY <3>3, <4>2, <4>3
    <3>4. CASE Goes(r, [asked EXCEPT !.pc = "done", !.answer = "not_found"])
      <4> DEFINE new == [asked EXCEPT !.pc = "done", !.answer = "not_found"]
      <4>1. new \in Request /\ new.pc = "done" /\ new.answer = "not_found" /\ new.op = "accept" /\ new.source = q
        BY <3>1 DEF Request
      <4> HIDE DEF new
      <4>2. Goes(r, new)
        BY <3>4 DEF new
      <4> QED
        BY <4>1, <4>2
    <3> QED
      BY <3>2, <3>3, <3>4
  <2> QED
    BY <2>1, <2>2
<1>3. PICK new \in Request : Begun(new)
  BY <1>2
<1>4. req'[r] = new /\ quote' = quote /\ job' = job
  BY <1>1, <1>3 DEF Goes, IInv, TypeOK, tables
<1>5. Sourced(r)'
  BY <1>3, <1>4 DEF Sourced, QuoteIds
<1>6. CallInv(r)'
  BY <1>3, <1>4, <1>5 DEF CallInv, Inside, Answered
<1> QED
  BY <1>1, <1>3, <1>6, QuietStep DEF Inside

LEMMA LookForQuoteInv ==
    ASSUME IInv, TypeOK', NEW r \in Requests, LookForQuote(r)
    PROVE  IInv'
<1>1. /\ req[r] \in Request /\ CallInv(r)
      /\ req[r].pc = "locked" /\ req[r].op = "convert" /\ req[r].answer = "none"
      /\ req[r].source \in Leads
  BY DEF IInv, TypeOK, CallInv, Sourced, LookForQuote, Inside
<1>2. CASE Fails(r, "refused")
  BY <1>1, <1>2, FailStep DEF Inside
<1>3. ASSUME NEW q \in QuotesSeen(r), Settles(r, "existing", q), UNCHANGED tables
      PROVE  IInv'
  <2> DEFINE new == [req[r] EXCEPT !.pc = "done", !.answer = "existing", !.result = q]
  <2>1. q \in QuoteIds /\ quote[q].status # "none" /\ quote[q].lead = req[r].source
    BY DEF QuotesSeen
  <2>2. /\ new.pc = "done" /\ new.answer = "existing" /\ new.result = q
        /\ new.op = "convert" /\ new.source = req[r].source
    BY <1>1 DEF Request
  <2>3. Goes(r, new)
    BY <1>3 DEF Settles
  <2> HIDE DEF new
  <2>4. req'[r] = new /\ quote' = quote
    BY <1>3, <2>3 DEF Goes, IInv, TypeOK, tables
  <2>5. CallInv(r)'
    BY <1>1, <2>1, <2>2, <2>4 DEF CallInv, Sourced, Inside, Answered, QuoteIds
  <2> QED
    BY <1>1, <1>3, <2>2, <2>3, <2>5, QuietStep DEF Inside
<1>4. CASE QuotesSeen(r) = {} /\ Goes(r, [req[r] EXCEPT !.pc = "insert"]) /\ UNCHANGED tables
  <2> DEFINE new == [req[r] EXCEPT !.pc = "insert"]
  <2>1. r \in Owners => ~QuoteTaken(req[r].source)
    BY <1>4 DEF QuotesSeen, QuoteTaken, Sees
  <2>2. new.pc = "insert" /\ new.answer = "none" /\ new.op = "convert" /\ new.source = req[r].source
    BY <1>1 DEF Request
  <2>3. Goes(r, new)
    BY <1>4
  <2> HIDE DEF new
  <2>4. req'[r] = new /\ quote' = quote
    BY <1>4, <2>3 DEF Goes, IInv, TypeOK, tables
  <2>5. r \in Owners => ~QuoteTaken(req[r].source)'
    BY <2>1, <2>2, <2>4 DEF QuoteTaken, QuoteIds
  <2>6. CallInv(r)'
    BY <1>1, <2>2, <2>4, <2>5 DEF CallInv, Sourced, Inside, Answered, QuoteIds
  <2> QED
    BY <1>1, <1>4, <2>2, <2>3, <2>6, QuietStep DEF Inside
<1> QED
  BY <1>2, <1>3, <1>4 DEF LookForQuote

LEMMA LookForJobInv ==
    ASSUME IInv, TypeOK', NEW r \in Requests, LookForJob(r)
    PROVE  IInv'
<1>1. /\ req[r] \in Request /\ CallInv(r)
      /\ req[r].pc = "locked" /\ req[r].op = "accept" /\ req[r].answer = "none"
      /\ req[r].source \in QuoteIds
      /\ quote[req[r].source] = req[r].sawQuote /\ quote[req[r].source].status # "none"
  BY DEF IInv, TypeOK, CallInv, Sourced, LookForJob, Inside
<1>2. CASE Fails(r, "not_found") \/ Fails(r, "refused")
  BY <1>1, <1>2, FailStep DEF Inside
<1>3. ASSUME NEW j \in JobsSeen(r), UNCHANGED tables,
             Goes(r, [req[r] EXCEPT !.pc = "found", !.result = j, !.attach = job[j].project = 0])
      PROVE  IInv'
  <2> DEFINE new == [req[r] EXCEPT !.pc = "found", !.result = j, !.attach = job[j].project = 0]
  <2>1. j \in JobIds /\ job[j].exists /\ job[j].quote = req[r].source
    BY DEF JobsSeen
  <2>2. /\ new.pc = "found" /\ new.answer = "none" /\ new.result = j
        /\ new.op = "accept" /\ new.source = req[r].source /\ new.sawQuote = req[r].sawQuote
    BY <1>1 DEF Request
  <2>3. Goes(r, new)
    BY <1>3
  <2> HIDE DEF new
  <2>4. req'[r] = new /\ quote' = quote /\ job' = job
    BY <1>3, <2>3 DEF Goes, IInv, TypeOK, tables
  <2>5. CallInv(r)'
    BY <1>1, <2>1, <2>2, <2>4 DEF CallInv, Sourced, Inside, Answered, QuoteIds, JobIds
  <2> QED
    BY <1>1, <1>3, <2>2, <2>3, <2>5, QuietStep DEF Inside
<1>4. CASE /\ JobsSeen(r) = {} /\ req[r].sawQuote.status # "declined" /\ ~req[r].sawQuote.archived
           /\ Goes(r, [req[r] EXCEPT !.pc = "insert"]) /\ UNCHANGED tables
  <2> DEFINE new == [req[r] EXCEPT !.pc = "insert"]
  <2>1. r \in Owners => ~JobTaken(req[r].source)
    BY <1>4 DEF JobsSeen, JobTaken, Sees
  <2>2. /\ new.pc = "insert" /\ new.answer = "none" /\ new.op = "accept"
        /\ new.source = req[r].source /\ new.sawQuote = req[r].sawQuote
    BY <1>1 DEF Request
  <2>3. Goes(r, new)
    BY <1>4
  <2> HIDE DEF new
  <2>4. req'[r] = new /\ quote' = quote /\ job' = job
    BY <1>4, <2>3 DEF Goes, IInv, TypeOK, tables
  <2>5. r \in Owners => ~JobTaken(req[r].source)'
    BY <2>1, <2>2, <2>4 DEF JobTaken, JobIds
  <2>6. CallInv(r)'
    BY <1>1, <1>4, <2>2, <2>4, <2>5 DEF CallInv, Sourced, Inside, Answered, QuoteIds
  <2> QED
    BY <1>1, <1>4, <2>2, <2>3, <2>6, QuietStep DEF Inside
<1> QED
  BY <1>2, <1>3, <1>4 DEF LookForJob

LEMMA InsertQuoteInv ==
    ASSUME IInv, TypeOK', NEW r \in Requests, InsertQuote(r)
    PROVE  IInv'
<1>1. /\ req[r] \in Request /\ CallInv(r) /\ TypeOK
      /\ req[r].pc = "insert" /\ req[r].op = "convert" /\ req[r].source \in Leads
  BY DEF IInv, TypeOK, CallInv, Sourced, InsertQuote
<1>2. CASE Fails(r, "forbidden")
  BY <1>1, <1>2, FailStep DEF Inside
<1>3. CASE QuoteTaken(req[r].source) /\ Fails(r, "conflict")
  BY <1>1, <1>3, FailStep DEF Inside, CallInv
<1>4. ASSUME ~Fails(r, "forbidden"), ~QuoteTaken(req[r].source)
      PROVE  IInv'
  <2> DEFINE l == req[r].source
  <2>1. PICK q \in QuoteIds, amount \in Amounts :
          /\ FreshQuote(q)
          /\ quote' = [quote EXCEPT ![q] =
               [status |-> "draft", lead |-> l, amount |-> amount,
                archived |-> FALSE, private |-> req[r].private]]
          /\ Settles(r, "created", q)
    BY <1>4 DEF InsertQuote
  <2>2. job' = job
    BY <1>4 DEF InsertQuote
  <2>3. /\ quote[q].status = "none" /\ quote'[q].status = "draft" /\ quote'[q].lead = l
        /\ \A p \in QuoteIds \ {q} : quote'[p] = quote[p]
    BY <1>1, <2>1 DEF TypeOK, FreshQuote
  <2> DEFINE new == [req[r] EXCEPT !.pc = "audit", !.answer = "created", !.result = q]
  <2>4. /\ new.pc = "audit" /\ new.answer = "created" /\ new.result = q
        /\ new.op = "convert" /\ new.source = l
    BY <1>1 DEF Request
  <2>5. req' = [req EXCEPT ![r] = new] /\ audited' = audited
    BY <2>1 DEF Settles, Goes
  <2> HIDE DEF new
  <2>6. req'[r] = new
    BY <1>1, <2>5 DEF TypeOK
  <2>7. RowsGrow
    BY <2>2, <2>3 DEF RowsGrow
  <2>8. ASSUME NEW s \in Requests, s # r
        PROVE  CallInv(s)'
    <3>1. req'[s] = req[s] /\ CallInv(s)
      BY <1>1, <2>5, <2>8 DEF IInv, TypeOK
    <3>2. req[s].pc \in Inside /\ req[s].op = "accept" => quote'[req[s].source] = quote[req[s].source]
      BY <2>3, <3>1 DEF CallInv, Sourced, Inside
    <3>3. ASSUME req[s].pc = "insert", req[s].op = "convert", QuoteTaken(req[s].source)'
          PROVE  QuoteTaken(req[s].source)
      <4>1. req[s].source # l
        BY <1>1, <2>8, <3>3 DEF IInv, Exclusive, Inside
      <4> QED
        BY <2>3, <3>1, <3>3, <4>1 DEF QuoteTaken, QuoteIds
    <3>4. JobTaken(req[s].source)' => JobTaken(req[s].source)
      BY <2>2, <3>1 DEF JobTaken, JobIds
    <3> QED
      BY <1>1, <2>7, <3>1, <3>2, <3>3, <3>4, CallKept
  <2>9. CallInv(r)'
    BY <1>1, <2>3, <2>4, <2>6 DEF CallInv, Sourced, Inside, Answered, QuoteIds
  <2>10. OneEach'
    <3>1. ASSUME NEW p \in QuoteIds, quote[p].status # "none"
          PROVE  quote[p].lead # l
      BY <1>4, <3>1 DEF QuoteTaken
    <3> QED
      BY <2>2, <2>3, <3>1 DEF IInv, OneEach, QuoteIds, JobIds
  <2>11. JobMeansAccepted'
    BY <1>1, <2>2, <2>3, QuoteOfJob DEF IInv, JobMeansAccepted, JobIds
  <2>12. \A s \in Requests \ {r} :
          ~(req[s].answer = "created" /\ req[s].op = new.op /\ req[s].source = new.source)
    <3> SUFFICES ASSUME NEW s \in Requests, req[s].answer = "created",
                        req[s].op = "convert", req[s].source = l
                 PROVE  FALSE
      BY <2>4
    <3>1. CallInv(s) /\ Answered(s)
      BY DEF IInv, Answered
    <3> QED
      BY <1>4, <3>1 DEF CallInv, QuoteTaken
  <2>13. \A s \in Requests : CallInv(s)'
    BY <2>8, <2>9
  <2>14. req[r].pc # "done" /\ new.pc \notin Inside /\ new.answer # "conflict"
    BY <1>1, <2>4 DEF Inside
  <2> QED
    BY <2>5, <2>10, <2>11, <2>12, <2>13, <2>14, CallStep
<1> QED
  BY <1>2, <1>3, <1>4 DEF InsertQuote

LEMMA KeepJobInv ==
    ASSUME IInv, TypeOK', NEW r \in Requests, KeepJob(r)
    PROVE  IInv' /\ NoNewJob
<1> DEFINE j == req[r].result
           q == req[r].source
<1>1. /\ req[r] \in Request /\ CallInv(r) /\ TypeOK
      /\ req[r].pc = "found" /\ req[r].op = "accept" /\ q \in QuoteIds /\ j \in JobIds
      /\ quote[q].status # "none" /\ job[j].exists /\ job[j].quote = q
  BY DEF IInv, TypeOK, CallInv, Sourced, KeepJob, Inside
<1>2. /\ quote'[q].status = "accepted" /\ quote'[q].lead = quote[q].lead
      /\ \A p \in QuoteIds \ {q} : quote'[p] = quote[p]
  BY <1>1 DEF KeepJob, TypeOK, QuoteRow
<1>3. \A i \in JobIds : job'[i].exists = job[i].exists /\ job'[i].quote = job[i].quote
  <2>1. [job[j] EXCEPT !.project = req[r].into].exists = job[j].exists
        /\ [job[j] EXCEPT !.project = req[r].into].quote = job[j].quote
    BY <1>1 DEF TypeOK, JobRow
  <2>2. job' = job \/ job' = [job EXCEPT ![j] = [job[j] EXCEPT !.project = req[r].into]]
    BY DEF KeepJob
  <2> QED
    BY <1>1, <2>1, <2>2 DEF TypeOK
<1> DEFINE new == [req[r] EXCEPT !.pc = "done", !.answer = "existing", !.result = j]
<1>4. /\ new.pc = "done" /\ new.answer = "existing" /\ new.result = j
      /\ new.op = "accept" /\ new.source = q
  BY <1>1 DEF Request
<1>5. req' = [req EXCEPT ![r] = new] /\ audited' = audited
  BY DEF KeepJob, Settles, Goes
<1> HIDE DEF new
<1>6. req'[r] = new
  BY <1>1, <1>5 DEF TypeOK
<1>7. RowsGrow /\ NoNewQuote /\ NoNewJob
  BY <1>1, <1>2, <1>3 DEF RowsGrow, NoNewQuote, NoNewJob
<1>8. ASSUME NEW s \in Requests, s # r
      PROVE  CallInv(s)'
  <2>1. req'[s] = req[s] /\ CallInv(s)
    BY <1>1, <1>5, <1>8 DEF IInv, TypeOK
  <2>2. ASSUME req[s].pc \in Inside, req[s].op = "accept"
        PROVE  quote'[req[s].source] = quote[req[s].source]
    <3>1. req[s].source # q
      BY <1>1, <1>8, <2>2 DEF IInv, Exclusive, Inside
    <3>2. req[s].source \in QuoteIds
      BY <2>1, <2>2 DEF CallInv, Sourced, Inside
    <3> QED
      BY <1>2, <3>1, <3>2
  <2>3. req[s].pc = "insert" /\ req[s].op = "convert" => (QuoteTaken(req[s].source)' => QuoteTaken(req[s].source))
    BY <1>2, <1>1, <2>1 DEF QuoteTaken, QuoteIds
  <2>4. JobTaken(req[s].source)' => JobTaken(req[s].source)
    BY <1>3, <2>1 DEF JobTaken, JobIds
  <2> QED
    BY <1>1, <1>7, <2>1, <2>2, <2>3, <2>4, CallKept
<1>9. CallInv(r)'
  BY <1>1, <1>3, <1>4, <1>6 DEF CallInv, Sourced, Inside, Answered, QuoteIds, JobIds
<1>10. OneEach'
  BY <1>1, <1>7, OneEachKept DEF IInv
<1>11. JobMeansAccepted'
  BY <1>1, <1>2, <1>3, QuoteOfJob DEF IInv, JobMeansAccepted, JobIds
<1>12. \A s \in Requests : CallInv(s)'
  BY <1>8, <1>9
<1>13. req[r].pc # "done" /\ new.pc \notin Inside /\ new.answer # "conflict" /\ new.answer # "created"
  BY <1>1, <1>4 DEF Inside
<1> QED
  BY <1>5, <1>7, <1>10, <1>11, <1>12, <1>13, CallStep

\* The job is made of the quote as it stands
LEMMA InsertJobInv ==
    ASSUME IInv, TypeOK', NEW r \in Requests, InsertJob(r)
    PROVE  /\ IInv'
           /\ \A j \in JobIds : ~job[j].exists /\ job'[j].exists
                => LET q == job'[j].quote
                   IN quote[q].amount = job'[j].amount /\ quote[q].status # "declined" /\ ~quote[q].archived
<1> DEFINE q == req[r].source
<1>1. /\ req[r] \in Request /\ CallInv(r) /\ TypeOK
      /\ req[r].pc = "insert" /\ req[r].op = "accept" /\ q \in QuoteIds
      /\ quote[q].status # "none" /\ quote[q] = req[r].sawQuote
      /\ quote[q].status # "declined" /\ ~quote[q].archived
  BY DEF IInv, TypeOK, CallInv, Sourced, InsertJob, Inside
<1> DEFINE Priced == \A j \in JobIds : ~job[j].exists /\ job'[j].exists
                      => LET p == job'[j].quote
                         IN quote[p].amount = job'[j].amount /\ quote[p].status # "declined" /\ ~quote[p].archived
<1>2. CASE Fails(r, "forbidden")
  BY <1>1, <1>2, FailStep DEF Inside, Fails, tables
<1>3. CASE JobTaken(q) /\ Fails(r, "conflict")
  BY <1>1, <1>3, FailStep DEF Inside, CallInv, Fails, tables
<1>4. ASSUME ~Fails(r, "forbidden"), ~JobTaken(q)
      PROVE  IInv' /\ Priced
  <2>1. PICK j \in JobIds :
          /\ FreshJob(j)
          /\ job' = [job EXCEPT ![j] =
               [exists |-> TRUE, quote |-> q, amount |-> req[r].sawQuote.amount,
                project |-> req[r].into, archived |-> FALSE, private |-> req[r].private]]
          /\ Settles(r, "created", j)
    BY <1>4 DEF InsertJob
  <2>2. quote' = [quote EXCEPT ![q].status = "accepted"]
    BY <1>4 DEF InsertJob
  <2>3. /\ ~job[j].exists /\ job'[j].exists /\ job'[j].quote = q /\ job'[j].amount = quote[q].amount
        /\ \A i \in JobIds \ {j} : job'[i] = job[i]
    BY <1>1, <2>1 DEF TypeOK, FreshJob
  <2>4. /\ quote'[q].status = "accepted" /\ quote'[q].lead = quote[q].lead
        /\ \A p \in QuoteIds \ {q} : quote'[p] = quote[p]
    BY <1>1, <2>2 DEF TypeOK, QuoteRow
  <2> DEFINE new == [req[r] EXCEPT !.pc = "audit", !.answer = "created", !.result = j]
  <2>5. /\ new.pc = "audit" /\ new.answer = "created" /\ new.result = j
        /\ new.op = "accept" /\ new.source = q
    BY <1>1 DEF Request
  <2>6. req' = [req EXCEPT ![r] = new] /\ audited' = audited
    BY <2>1 DEF Settles, Goes
  <2> HIDE DEF new
  <2>7. req'[r] = new
    BY <1>1, <2>6 DEF TypeOK
  <2>8. RowsGrow /\ NoNewQuote
    BY <1>1, <2>3, <2>4 DEF RowsGrow, NoNewQuote
  <2>9. ASSUME NEW s \in Requests, s # r
        PROVE  CallInv(s)'
    <3>1. req'[s] = req[s] /\ CallInv(s)
      BY <1>1, <2>6, <2>9 DEF IInv, TypeOK
    <3>2. req[s].pc \in Inside /\ req[s].op = "accept" => req[s].source # q /\ req[s].source \in QuoteIds
      BY <1>1, <2>9, <3>1 DEF IInv, Exclusive, CallInv, Sourced, Inside
    <3>3. req[s].pc \in Inside /\ req[s].op = "accept" => quote'[req[s].source] = quote[req[s].source]
      BY <2>4, <3>2
    <3>4. req[s].pc = "insert" /\ req[s].op = "convert" => (QuoteTaken(req[s].source)' => QuoteTaken(req[s].source))
      BY <1>1, <2>4, <3>1 DEF QuoteTaken, QuoteIds
    <3>5. req[s].pc = "insert" /\ req[s].op = "accept" => (JobTaken(req[s].source)' => JobTaken(req[s].source))
      BY <2>3, <3>1, <3>2 DEF JobTaken, JobIds, Inside
    <3> QED
      BY <1>1, <2>8, <3>1, <3>3, <3>4, <3>5, CallKept
  <2>10. CallInv(r)'
    BY <1>1, <2>3, <2>5, <2>7 DEF CallInv, Sourced, Inside, Answered, QuoteIds, JobIds
  <2>11. OneEach'
    <3>1. ASSUME NEW i \in JobIds, job[i].exists
          PROVE  job[i].quote # q
      BY <1>4, <3>1 DEF JobTaken
    <3>2. ASSUME NEW p1 \in QuoteIds, NEW p2 \in QuoteIds,
                 quote'[p1].status # "none", quote'[p2].status # "none",
                 quote'[p1].lead = quote'[p2].lead, quote'[p1].lead \in Leads
          PROVE  p1 = p2
      BY <2>8, <3>2 DEF IInv, OneEach, NoNewQuote
    <3>3. ASSUME NEW i1 \in JobIds, NEW i2 \in JobIds,
                 job'[i1].exists, job'[i2].exists, job'[i1].quote = job'[i2].quote, job'[i1].quote # 0
          PROVE  i1 = i2
      BY <2>3, <3>1, <3>3 DEF IInv, OneEach
    <3> QED
      BY <3>2, <3>3 DEF OneEach, QuoteIds, JobIds
  <2>12. JobMeansAccepted'
    BY <1>1, <2>3, <2>4, QuoteOfJob DEF IInv, JobMeansAccepted, JobIds
  <2>13. \A s \in Requests \ {r} :
          ~(req[s].answer = "created" /\ req[s].op = new.op /\ req[s].source = new.source)
    <3> SUFFICES ASSUME NEW s \in Requests, req[s].answer = "created",
                        req[s].op = "accept", req[s].source = q
                 PROVE  FALSE
      BY <2>5
    <3>1. CallInv(s) /\ Answered(s)
      BY DEF IInv, Answered
    <3> QED
      BY <1>4, <3>1 DEF CallInv, JobTaken
  <2>14. \A s \in Requests : CallInv(s)'
    BY <2>9, <2>10
  <2>15. req[r].pc # "done" /\ new.pc \notin Inside /\ new.answer # "conflict"
    BY <1>1, <2>5 DEF Inside
  <2>16. IInv'
    BY <2>6, <2>11, <2>12, <2>13, <2>14, <2>15, CallStep
  <2>17. Priced
    BY <1>1, <2>3
  <2> QED
    BY <2>16, <2>17
<1> QED
  BY <1>2, <1>3, <1>4 DEF InsertJob

LEMMA AuditInv ==
    ASSUME IInv, TypeOK', NEW r \in Requests, Audit(r)
    PROVE  IInv'
<1>1. req[r] \in Request /\ CallInv(r) /\ req[r].pc = "audit" /\ req[r].answer = "created" /\ TypeOK
  BY DEF IInv, TypeOK, CallInv, Audit
<1> DEFINE new == [req[r] EXCEPT !.pc = "done"]
<1>2. /\ new.pc = "done" /\ new.answer = "created" /\ new.op = req[r].op
      /\ new.source = req[r].source /\ new.result = req[r].result
  BY <1>1 DEF Request
<1>3. req' = [req EXCEPT ![r] = new] /\ quote' = quote /\ job' = job
  BY DEF Audit, tables
<1> HIDE DEF new
<1>4. req'[r] = new /\ \A s \in Requests \ {r} : req'[s] = req[s]
  BY <1>1, <1>3 DEF TypeOK
<1>5. ASSUME NEW s \in Requests
      PROVE  CallInv(s)'
  <2>1. CallInv(s)
    BY DEF IInv
  <2>2. CASE s = r
    BY <1>1, <1>2, <1>3, <1>4, <2>2 DEF CallInv, Sourced, Inside, Answered, QuoteIds, JobIds
  <2>3. CASE s # r
    <3>1. RowsGrow
      BY <1>3 DEF RowsGrow
    <3>2. req'[s] = req[s]
      BY <1>4, <2>3
    <3>3. (QuoteTaken(req[s].source)' => QuoteTaken(req[s].source))
          /\ (JobTaken(req[s].source)' => JobTaken(req[s].source))
      BY <1>3, <3>2 DEF QuoteTaken, JobTaken, QuoteIds, JobIds
    <3> QED
      BY <1>1, <1>3, <2>1, <3>1, <3>2, <3>3, CallKept
  <2> QED
    BY <2>2, <2>3
<1>6. OneEach' /\ JobMeansAccepted'
  BY <1>3 DEF IInv, OneEach, JobMeansAccepted, QuoteIds, JobIds
<1>7. Exclusive' /\ OneMaker' /\ OwnersRetrySafely'
  BY <1>1, <1>2, <1>4, PipelineAssumption DEF IInv, Exclusive, OneMaker, OwnersRetrySafely, Inside
<1>8. AuditsHold'
  <2> DEFINE entry == [op |-> req[r].op, row |-> req[r].result, by |-> r]
  <2>1. audited' = audited \cup {entry}
    BY DEF Audit
  <2>2. ASSUME NEW e \in audited'
        PROVE  /\ req'[e.by].pc = "done" /\ req'[e.by].answer = "created"
               /\ e.op = req'[e.by].op /\ e.row = req'[e.by].result
    <3>1. CASE e = entry
      BY <1>2, <1>4, <3>1
    <3>2. CASE e \in audited
      <4>1. e.by \in Requests \ {r}
        BY <1>1, <3>2 DEF IInv, TypeOK, AuditsHold
      <4> QED
        BY <1>4, <3>2, <4>1 DEF IInv, AuditsHold
    <3> QED
      BY <2>1, <3>1, <3>2
  <2> QED
    BY <2>2 DEF AuditsHold
<1> QED
  BY <1>5, <1>6, <1>7, <1>8 DEF IInv

(***************************************************************************)
(* The theorems                                                            *)
(***************************************************************************)
LEMMA StepInv == IInv /\ [Next]_vars => IInv'
<1> SUFFICES ASSUME IInv, [Next]_vars PROVE IInv'
  OBVIOUS
<1>1. TypeOK /\ JobMeansAccepted /\ \A r \in Requests : Sourced(r)
  BY DEF IInv, CallInv
<1>2. TypeOK'
  BY <1>1, StepTyped
<1>3. CASE Enter \/ Edit
  BY <1>1, <1>2, <1>3, EnterEffect, EditEffect, HandInv
<1>4. ASSUME NEW r \in Requests, Convert(r)
      PROVE  IInv'
  BY <1>2, <1>4, BeginInv, LookForQuoteInv, InsertQuoteInv DEF Convert
<1>5. ASSUME NEW r \in Requests, Accept(r)
      PROVE  IInv'
  BY <1>2, <1>5, BeginInv, LookForJobInv, KeepJobInv, InsertJobInv DEF Accept
<1>6. ASSUME NEW r \in Requests, Lose(r) \/ Audit(r)
      PROVE  IInv'
  BY <1>2, <1>6, LoseInv, AuditInv
<1>7. CASE UNCHANGED vars
  <2>1. /\ lead' = lead /\ quote' = quote /\ job' = job /\ project' = project
        /\ audited' = audited /\ req' = req /\ edits' = edits
    BY <1>7 DEF vars, tables
  <2>2. HandEffect
    BY <1>1, <2>1 DEF HandEffect, RowsGrow, NoNewQuote, NoNewJob, JobMeansAccepted, JobIds
  <2> QED
    BY <1>2, <2>2, HandInv
<1> QED
  BY <1>3, <1>4, <1>5, <1>6, <1>7 DEF Next

\* The invariant holds in every reachable state: each call is alone with its
\* source row, and there is one quote of a lead and one job of a quote.
THEOREM Invariance == Spec => []IInv
<1>1. Init => IInv
  BY InitInv
<1>2. IInv /\ [Next]_vars => IInv'
  BY StepInv
<1> QED
  BY <1>1, <1>2, PTL DEF Spec

\* Rows, calls and audit entries have their types.
THEOREM TypeCorrect == Spec => []TypeOK
<1>1. IInv => TypeOK
  BY DEF IInv
<1> QED
  BY <1>1, Invariance, PTL

\* A quote with a job stays accepted, whatever is done by hand meanwhile.
THEOREM QuotesStayAccepted == Spec => []JobMeansAccepted
<1>1. IInv => JobMeansAccepted
  BY DEF IInv
<1> QED
  BY <1>1, Invariance, PTL

\* A conversion by somebody who sees every row never fails on a unique index.
THEOREM RetriesAreSafe == Spec => []OwnersRetrySafely
<1>1. IInv => OwnersRetrySafely
  BY DEF IInv
<1> QED
  BY <1>1, Invariance, PTL

\* Answers about the same source name the same row.
LEMMA SameAnswer ==
    ASSUME IInv, NEW r \in Requests, NEW s \in Requests, Answered(r), Answered(s),
           req[r].op = req[s].op, req[r].source = req[s].source
    PROVE  req[r].result = req[s].result
<1>1. CallInv(r) /\ CallInv(s) /\ req[r].op \in {"convert", "accept"}
  BY DEF IInv, TypeOK, Request
<1>2. req[r].pc # "idle"
  BY <1>1 DEF CallInv, Answered
<1>3. CASE req[r].op = "convert"
  BY <1>1, <1>2, <1>3 DEF IInv, OneEach, CallInv, Sourced
<1>4. CASE req[r].op = "accept"
  <2>1. req[r].source \in QuoteIds /\ req[r].source # 0
    BY <1>1, <1>2, <1>4, PipelineAssumption DEF CallInv, Sourced, QuoteIds
  <2> QED
    BY <1>1, <1>4, <2>1 DEF IInv, OneEach, CallInv
<1> QED
  BY <1>1, <1>3, <1>4

\* Whoever converts the same lead or quote is told of the same row.
THEOREM OneRowPerSource == Spec => []CreatedOnce
<1>1. IInv => CreatedOnce
  BY SameAnswer DEF IInv, CreatedOnce, OneMaker
<1> QED
  BY <1>1, Invariance, PTL

\* A row made by a conversion has one audit entry at most.
THEOREM OneEntryPerRow == Spec => []AuditedOnce
<1>1. ASSUME IInv, NEW a \in audited, NEW b \in audited, a.op = b.op, a.row = b.row
      PROVE  a = b
  <2>1. /\ a.by \in Requests /\ b.by \in Requests
        /\ req[a.by].answer = "created" /\ req[b.by].answer = "created"
        /\ req[a.by].op = req[b.by].op /\ req[a.by].result = req[b.by].result
    BY <1>1 DEF IInv, TypeOK, AuditsHold
  <2>2. CallInv(a.by) /\ CallInv(b.by) /\ req[a.by].op \in {"convert", "accept"}
    BY <1>1, <2>1 DEF IInv, TypeOK, Request
  <2>3. req[a.by].source = req[b.by].source
    BY <2>1, <2>2 DEF CallInv, Answered
  <2>4. a.by = b.by
    BY <1>1, <2>1, <2>3 DEF IInv, OneMaker
  <2>5. a \in [op: {"convert", "accept"}, row: QuoteIds \cup JobIds \cup {0}, by: Requests]
        /\ b \in [op: {"convert", "accept"}, row: QuoteIds \cup JobIds \cup {0}, by: Requests]
    BY <1>1 DEF IInv, TypeOK
  <2> QED
    BY <1>1, <2>4, <2>5
<1>2. IInv => AuditedOnce
  BY <1>1 DEF AuditedOnce
<1> QED
  BY <1>2, Invariance, PTL

\* A job is made of its quote as the quote stands at that moment.
THEOREM JobsFollowTheirQuote == Spec => PricedAsAccepted
<1> DEFINE Priced == \A j \in JobIds :
                       ~job[j].exists /\ job'[j].exists /\ job'[j].quote # 0
                       => LET q == job'[j].quote
                          IN quote[q].amount = job'[j].amount /\ quote[q].status # "declined" /\ ~quote[q].archived
<1>1. ASSUME IInv, [Next]_vars
      PROVE  Priced
  <2>1. TypeOK /\ JobMeansAccepted /\ TypeOK'
    BY <1>1, StepInv DEF IInv
  <2>2. CASE job' = job
    BY <2>2
  <2>3. CASE NoNewJob
    BY <2>3 DEF NoNewJob
  <2>4. CASE Enter \/ Edit
    BY <2>1, <2>3, <2>4, EnterEffect, EditEffect DEF HandEffect
  <2>5. ASSUME NEW r \in Requests, InsertJob(r)
        PROVE  Priced
    BY <1>1, <2>1, <2>5, InsertJobInv
  <2>6. ASSUME NEW r \in Requests, KeepJob(r)
        PROVE  Priced
    BY <1>1, <2>1, <2>3, <2>6, KeepJobInv
  <2>7. ASSUME NEW r \in Requests, Convert(r) \/ Lose(r) \/ Audit(r)
        PROVE  job' = job
    BY <2>7 DEF Convert, BeginConvert, LookForQuote, InsertQuote, Lose, Audit, Fails, tables
  <2>8. ASSUME NEW r \in Requests, Accept(r), ~KeepJob(r), ~InsertJob(r)
        PROVE  job' = job
    BY <2>8 DEF Accept, BeginAccept, LookForJob, Fails, tables
  <2>9. CASE UNCHANGED vars
    BY <2>2, <2>9 DEF vars, tables
  <2> QED
    BY <1>1, <2>2, <2>4, <2>5, <2>6, <2>7, <2>8, <2>9 DEF Next
<1>2. IInv /\ [Next]_vars => [Priced]_vars
  BY <1>1
<1> QED
  BY <1>2, Invariance, PTL DEF Spec, PricedAsAccepted
=============================================================================
