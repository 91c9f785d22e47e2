---------------------------- MODULE WorkPipeline ----------------------------
(***************************************************************************)
(* The work pipeline of one business: leads, quotes, jobs and projects,    *)
(* and the database functions that convert one into the next (migration    *)
(* 0021), called by the work service for several people at once.           *)
(*                                                                         *)
(* A conversion is a transaction of several statements at READ COMMITTED:  *)
(* it locks its source row, looks for an earlier result, and writes.  What *)
(* others commit between two statements is seen by the later one.  The     *)
(* functions run with the caller's row level security, so a row that is    *)
(* private (by its visibility or its bucket) exists for an owner and does  *)
(* not exist for a member; the unique indexes know all rows.  A result is  *)
(* private like its source unless the caller asks otherwise, so either may *)
(* come of any source.                                                     *)
(*                                                                         *)
(* A lead that is "contacted" is treated like a "new" one and a quote that *)
(* was "sent" like a "draft" by every guard; the status of jobs and        *)
(* projects guards nothing and is left out.  Of the money only the amount  *)
(* is kept.                                                                *)
(***************************************************************************)
EXTENDS Integers

CONSTANTS
    Leads, NoLead,  \* the leads people may enter; the lead of a quote without one
    Requests,       \* calls of a conversion, each made once; a retry is another call
    Owners,         \* those made by somebody who may see private rows
    Amounts,        \* the totals a quote or a job may have
    MaxQuotes, MaxJobs, MaxProjects,   \* bounds on the rows
    MaxEdits        \* bound on rows entered and edited by hand

ASSUME PipelineAssumption ==
    /\ NoLead \notin Leads
    /\ Owners \subseteq Requests
    /\ Amounts # {}
    /\ MaxQuotes \in Nat /\ MaxJobs \in Nat /\ MaxProjects \in Nat /\ MaxEdits \in Nat

VARIABLES
    lead,       \* the rows of the table leads
    quote,      \* of quotes
    job,        \* of jobs
    project,    \* of projects
    audited,    \* the audit entries of conversions
    req,        \* the calls
    edits       \* rows entered and edited by hand so far

tables == <<lead, quote, job, project>>
vars == <<tables, audited, req, edits>>

QuoteIds == 1 .. MaxQuotes
JobIds == 1 .. MaxJobs
ProjectIds == 1 .. MaxProjects
Stages == {"new", "quoted", "won", "lost"}
Statuses == {"draft", "accepted", "declined"}

\* "none" stands for a row that does not exist
LeadRow == [stage: Stages \cup {"none"}, archived: BOOLEAN, private: BOOLEAN]
QuoteRow == [status: Statuses \cup {"none"}, lead: Leads \cup {NoLead}, amount: Amounts,
             archived: BOOLEAN, private: BOOLEAN]
JobRow == [exists: BOOLEAN, quote: QuoteIds \cup {0}, amount: Amounts,
           project: ProjectIds \cup {0}, archived: BOOLEAN, private: BOOLEAN]
ProjectRow == {"none", "normal", "private"}

NoLeadRow == [stage |-> "none", archived |-> FALSE, private |-> FALSE]
NoQuoteRow == [status |-> "none", lead |-> NoLead, amount |-> CHOOSE a \in Amounts : TRUE,
               archived |-> FALSE, private |-> FALSE]
NoJobRow == [exists |-> FALSE, quote |-> 0, amount |-> CHOOSE a \in Amounts : TRUE,
             project |-> 0, archived |-> FALSE, private |-> FALSE]

\* Where a call is: its transaction holds the lock of its source row in
\* Inside; "audit" is after the commit of a conversion that made a row.
Inside == {"locked", "insert", "found"}
Request == [pc: {"idle", "audit", "done"} \cup Inside,
            op: {"convert", "accept"},
            source: Leads \cup QuoteIds \cup {0},     \* the lead or quote to convert
            private: BOOLEAN,                         \* the result is to be private
            into: ProjectIds \cup {0},                \* the project asked for
            sawLead: LeadRow, sawQuote: QuoteRow,     \* the source row as read
            attach: BOOLEAN,                          \* the job found had no project
            result: QuoteIds \cup JobIds \cup {0},    \* the quote or job answered
            answer: {"none", "created", "existing", "not_found", "refused",
                     "forbidden", "conflict", "lost"}]

IdleRequest == [pc |-> "idle", op |-> "convert", source |-> 0, private |-> FALSE, into |-> 0,
                sawLead |-> NoLeadRow, sawQuote |-> NoQuoteRow, attach |-> FALSE,
                result |-> 0, answer |-> "none"]

Sees(r, private) == private => r \in Owners

\* Mutant: the source row is read without FOR UPDATE
ReadUnlocked(row) == FALSE

LeadLocked(l) == \E r \in Requests : req[r].pc \in Inside /\ req[r].op = "convert" /\ req[r].source = l
QuoteLocked(q) == \E r \in Requests : req[r].pc \in Inside /\ req[r].op = "accept" /\ req[r].source = q

\* The next free row of a table
FreshQuote(q) == quote[q].status = "none" /\ \A p \in QuoteIds : p < q => quote[p].status # "none"
FreshJob(j) == ~job[j].exists /\ \A i \in JobIds : i < j => job[i].exists
FreshProject(p) == project[p] = "none" /\ \A i \in ProjectIds : i < p => project[i] # "none"

\* Mutant: no unique index on the lead of a quote
NoIndex(l) == FALSE

\* The unique indexes uq_quotes_lead and uq_jobs_quote refuse another row
QuoteTaken(l) == \E q \in QuoteIds : quote[q].status # "none" /\ quote[q].lead = l
JobTaken(q) == \E j \in JobIds : job[j].exists /\ job[j].quote = q

Init ==
    /\ lead = [l \in Leads |-> NoLeadRow]
    /\ quote = [q \in QuoteIds |-> NoQuoteRow]
    /\ job = [j \in JobIds |-> NoJobRow]
    /\ project = [p \in ProjectIds |-> "none"]
    /\ audited = {}
    /\ req = [r \in Requests |-> IdleRequest]
    /\ edits = 0

(***************************************************************************)
(* Rows entered and edited by hand.  Each is one statement; it waits for   *)
(* the lock of the row.  An owner makes every edit a member may make.      *)
(***************************************************************************)
ByHand == edits < MaxEdits /\ edits' = edits + 1 /\ UNCHANGED <<audited, req>>

CreateLead(l, private) ==
    /\ ByHand
    /\ lead[l].stage = "none"
    /\ lead' = [lead EXCEPT ![l] = [stage |-> "new", archived |-> FALSE, private |-> private]]
    /\ UNCHANGED <<quote, job, project>>

CreateQuote(q, amount) ==
    /\ ByHand
    /\ FreshQuote(q)
    /\ quote' = [quote EXCEPT ![q] = [NoQuoteRow EXCEPT !.status = "draft", !.amount = amount]]
    /\ UNCHANGED <<lead, job, project>>

CreateJob(j, amount) ==
    /\ ByHand
    /\ FreshJob(j)
    /\ job' = [job EXCEPT ![j] = [NoJobRow EXCEPT !.exists = TRUE, !.amount = amount]]
    /\ UNCHANGED <<lead, quote, project>>

CreateProject(p, kind) ==
    /\ ByHand
    /\ FreshProject(p)
    /\ project' = [project EXCEPT ![p] = kind]
    /\ UNCHANGED <<lead, quote, job>>

\* A change of one column; archived rows stay archived
LeadEdits(row) ==
    {[row EXCEPT !.stage = s] : s \in Stages} \cup {[row EXCEPT !.private = b] : b \in BOOLEAN}
        \cup {[row EXCEPT !.archived = TRUE]}
QuoteEdits(row) ==
    {[row EXCEPT !.status = s] : s \in Statuses} \cup {[row EXCEPT !.amount = a] : a \in Amounts}
        \cup {[row EXCEPT !.private = b] : b \in BOOLEAN} \cup {[row EXCEPT !.archived = TRUE]}
\* Mutant: a job may name a project nobody entered
JobEditsUnchecked(row) == {[row EXCEPT !.project = p] : p \in 0 .. MaxProjects + 1}
JobEdits(row) ==
    {[row EXCEPT !.amount = a] : a \in Amounts}
        \cup {[row EXCEPT !.project = p] : p \in {0} \cup {i \in ProjectIds : project[i] # "none"}}
        \cup {[row EXCEPT !.private = b] : b \in BOOLEAN} \cup {[row EXCEPT !.archived = TRUE]}

\* Mutant: the trigger only knows of declined quotes
MayTurnBack(q, status) == ~(quote[q].status = "declined" /\ status = "accepted")

\* The trigger on the status of a quote, with the jobs committed by now
MayTurn(q, status) ==
    status # quote[q].status =>
        /\ ~(quote[q].status = "declined" /\ status = "accepted")
        /\ ~(quote[q].status = "accepted" /\ JobTaken(q))

EditLead(l) ==
    /\ ByHand
    /\ lead[l].stage # "none" /\ ~LeadLocked(l)
    /\ \E row \in LeadEdits(lead[l]) : lead' = [lead EXCEPT ![l] = row]
    /\ UNCHANGED <<quote, job, project>>

EditQuote(q) ==
    /\ ByHand
    /\ quote[q].status # "none" /\ ~QuoteLocked(q)
    /\ \E row \in QuoteEdits(quote[q]) :
         /\ MayTurn(q, row.status)
         /\ quote' = [quote EXCEPT ![q] = row]
    /\ UNCHANGED <<lead, job, project>>

EditJob(j) ==
    /\ ByHand
    /\ job[j].exists
    /\ \E row \in JobEdits(job[j]) : job' = [job EXCEPT ![j] = row]
    /\ UNCHANGED <<lead, quote, project>>

(***************************************************************************)
(* Functions that touch nothing but the row they lock: one step each.      *)
(***************************************************************************)
ReplaceItems(q, total) ==
    /\ ByHand
    /\ quote[q].status \notin {"none", "accepted"} /\ ~quote[q].archived
    /\ ~QuoteLocked(q)
    /\ quote' = [quote EXCEPT ![q].amount = total]
    /\ UNCHANGED <<lead, job, project>>

CreateProjectForJob(j, p) ==
    /\ ByHand
    /\ job[j].exists /\ job[j].project = 0 /\ ~job[j].archived
    /\ FreshProject(p)
    /\ project' = [project EXCEPT ![p] = IF job[j].private THEN "private" ELSE "normal"]
    /\ job' = [job EXCEPT ![j].project = p]
    /\ UNCHANGED <<lead, quote>>

\* (Not counted as an edit: doing it again changes nothing.)
AttachJobToProject(j, p) ==
    /\ job[j].exists /\ project[p] # "none"
    /\ job' = [job EXCEPT ![j].project = p]
    /\ UNCHANGED <<lead, quote, project, audited, req, edits>>

(***************************************************************************)
(* Conversions                                                             *)
(***************************************************************************)
\* The call r goes on, or ends, with these fields changed
Goes(r, new) == req' = [req EXCEPT ![r] = new] /\ UNCHANGED <<audited, edits>>

\* It ends without having changed anything
Fails(r, answer) ==
    /\ Goes(r, [req[r] EXCEPT !.pc = "done", !.answer = answer])
    /\ UNCHANGED tables

\* Mutant: an entry for every answer
AuditsAll(r, answer, row) ==
    Goes(r, [req[r] EXCEPT !.pc = "audit", !.answer = answer, !.result = row])

Settles(r, answer, row) ==
    Goes(r, [req[r] EXCEPT !.pc = IF answer = "created" THEN "audit" ELSE "done",
                           !.answer = answer, !.result = row])

\* convert_lead_to_quote: lock and read the lead
BeginConvert(r, l, private) ==
    /\ req[r].pc = "idle"
    /\ LET asked == [req[r] EXCEPT !.op = "convert", !.source = l, !.private = private] IN
         IF lead[l].stage # "none" /\ Sees(r, lead[l].private)
         THEN /\ ~LeadLocked(l)
              /\ Goes(r, [asked EXCEPT !.pc = "locked", !.sawLead = lead[l]])
         ELSE Goes(r, [asked EXCEPT !.pc = "done", !.answer = "not_found"])
    /\ UNCHANGED tables

\* look for the quote of the lead, as far as the caller may see it
QuotesSeen(r) ==
    {q \in QuoteIds : /\ quote[q].status # "none"
                      /\ quote[q].lead = req[r].source
                      /\ Sees(r, quote[q].private)}

LookForQuote(r) ==
    /\ req[r].pc = "locked" /\ req[r].op = "convert"
    /\ \/ \E q \in QuotesSeen(r) : Settles(r, "existing", q) /\ UNCHANGED tables
       \/ /\ QuotesSeen(r) = {}
          /\ req[r].sawLead.stage = "lost" \/ req[r].sawLead.archived
          /\ Fails(r, "refused")
       \/ /\ QuotesSeen(r) = {}
          /\ req[r].sawLead.stage # "lost" /\ ~req[r].sawLead.archived
          /\ Goes(r, [req[r] EXCEPT !.pc = "insert"])
          /\ UNCHANGED tables

\* insert the quote, mark the lead, commit
InsertQuote(r) ==
    /\ req[r].pc = "insert" /\ req[r].op = "convert"
    /\ LET l == req[r].source
           private == req[r].private
       IN \/ ~Sees(r, private) /\ Fails(r, "forbidden")
          \/ Sees(r, private) /\ QuoteTaken(l) /\ Fails(r, "conflict")
          \/ /\ Sees(r, private) /\ ~QuoteTaken(l)
             /\ \E q \in QuoteIds, amount \in Amounts :
                  /\ FreshQuote(q)
                  /\ quote' = [quote EXCEPT ![q] =
                       [status |-> "draft", lead |-> l, amount |-> amount,
                        archived |-> FALSE, private |-> private]]
                  /\ Settles(r, "created", q)
             /\ lead' = [lead EXCEPT ![l].stage = "quoted"]
             /\ UNCHANGED <<job, project>>

\* accept_quote_create_job: lock and read the quote
BeginAccept(r, q, p, private) ==
    /\ req[r].pc = "idle"
    /\ LET asked == [req[r] EXCEPT !.op = "accept", !.source = q, !.into = p, !.private = private] IN
         IF quote[q].status # "none" /\ Sees(r, quote[q].private)
         THEN /\ ~QuoteLocked(q)
              /\ Goes(r, [asked EXCEPT !.pc = "locked", !.sawQuote = quote[q]])
         ELSE Goes(r, [asked EXCEPT !.pc = "done", !.answer = "not_found"])
    /\ UNCHANGED tables

JobsSeen(r) ==
    {j \in JobIds : job[j].exists /\ job[j].quote = req[r].source /\ Sees(r, job[j].private)}

ProjectUsable(r) == req[r].into # 0 => project[req[r].into] # "none"
                                       /\ Sees(r, project[req[r].into] = "private")

\* check the project, then look for the job of the quote.  A project of
\* another client is refused; the clients are not modelled.
LookForJob(r) ==
    /\ req[r].pc = "locked" /\ req[r].op = "accept"
    /\ \/ ~ProjectUsable(r) /\ Fails(r, "not_found")
       \/ ProjectUsable(r) /\ req[r].into # 0 /\ Fails(r, "refused")
       \/ /\ ProjectUsable(r)
          /\ \E j \in JobsSeen(r) :
               Goes(r, [req[r] EXCEPT !.pc = "found", !.result = j, !.attach = job[j].project = 0])
          /\ UNCHANGED tables
       \/ /\ ProjectUsable(r) /\ JobsSeen(r) = {}
          /\ req[r].sawQuote.status = "declined" \/ req[r].sawQuote.archived
          /\ Fails(r, "refused")
       \/ /\ ProjectUsable(r) /\ JobsSeen(r) = {}
          /\ req[r].sawQuote.status # "declined" /\ ~req[r].sawQuote.archived
          /\ Goes(r, [req[r] EXCEPT !.pc = "insert"])
          /\ UNCHANGED tables

\* The job was there: put it into the project if it had none when looked
\* at, and see that the quote is accepted.  (When the trigger refuses that,
\* the transaction ends as in Lose; so too in InsertJob.)
KeepJob(r) ==
    /\ req[r].pc = "found"
    /\ LET j == req[r].result
           q == req[r].source
       IN /\ MayTurn(q, "accepted")
          /\ job' = IF req[r].into # 0 /\ req[r].attach /\ Sees(r, job[j].private)
                    THEN [job EXCEPT ![j].project = req[r].into] ELSE job
          /\ quote' = [quote EXCEPT ![q].status = "accepted"]
          /\ Settles(r, "existing", j)
    /\ UNCHANGED <<lead, project>>

\* The lead is won unless the caller may not see it; a lead being
\* converted is waited for.
WonLead(r) == {l \in Leads : l = req[r].sawQuote.lead /\ lead[l].stage # "won" /\ Sees(r, lead[l].private)}

InsertJob(r) ==
    /\ req[r].pc = "insert" /\ req[r].op = "accept"
    /\ LET q == req[r].source
           private == req[r].private
       IN \/ ~Sees(r, private) /\ Fails(r, "forbidden")
          \/ Sees(r, private) /\ JobTaken(q) /\ Fails(r, "conflict")
          \/ /\ Sees(r, private) /\ ~JobTaken(q) /\ MayTurn(q, "accepted")
             /\ \A l \in WonLead(r) : ~LeadLocked(l)
             /\ \E j \in JobIds :
                  /\ FreshJob(j)
                  /\ job' = [job EXCEPT ![j] =
                       [exists |-> TRUE, quote |-> q, amount |-> req[r].sawQuote.amount,
                        project |-> req[r].into, archived |-> FALSE, private |-> private]]
                  /\ Settles(r, "created", j)
             /\ quote' = [quote EXCEPT ![q].status = "accepted"]
             /\ lead' = [l \in Leads |-> IF l \in WonLead(r) THEN [lead[l] EXCEPT !.stage = "won"]
                                         ELSE lead[l]]
             /\ UNCHANGED project

\* The server or the connection goes away: before the commit the
\* transaction is rolled back, after it the audit entry is never written.
Lose(r) ==
    /\ req[r].pc \in Inside \cup {"audit"}
    /\ Goes(r, [req[r] EXCEPT !.pc = "done", !.answer = IF @ = "none" THEN "lost" ELSE @])
    /\ UNCHANGED tables

\* The service writes one entry for a conversion that made a row
Audit(r) ==
    /\ req[r].pc = "audit"
    /\ audited' = audited \cup {[op |-> req[r].op, row |-> req[r].result, by |-> r]}
    /\ req' = [req EXCEPT ![r].pc = "done"]
    /\ UNCHANGED <<tables, edits>>

Convert(r) ==
    \/ \E l \in Leads, private \in BOOLEAN : BeginConvert(r, l, private)
    \/ LookForQuote(r) \/ InsertQuote(r)

Accept(r) ==
    \/ \E q \in QuoteIds, p \in ProjectIds \cup {0}, private \in BOOLEAN : BeginAccept(r, q, p, private)
    \/ LookForJob(r) \/ KeepJob(r) \/ InsertJob(r)

Enter ==
    \/ \E l \in Leads, private \in BOOLEAN : CreateLead(l, private)
    \/ \E q \in QuoteIds, amount \in Amounts : CreateQuote(q, amount)
    \/ \E j \in JobIds, amount \in Amounts : CreateJob(j, amount)
    \/ \E p \in ProjectIds, kind \in {"normal", "private"} : CreateProject(p, kind)

Edit ==
    \/ \E l \in Leads : EditLead(l)
    \/ \E q \in QuoteIds : EditQuote(q) \/ \E total \in Amounts : ReplaceItems(q, total)
    \/ \E j \in JobIds : EditJob(j) \/ \E p \in ProjectIds : CreateProjectForJob(j, p) \/ AttachJobToProject(j, p)

Next ==
    \/ Enter \/ Edit
    \/ \E r \in Requests : Convert(r) \/ Accept(r) \/ Lose(r) \/ Audit(r)

Spec == Init /\ [][Next]_vars

-----------------------------------------------------------------------------
(* Properties *)

TypeOK ==
    /\ lead \in [Leads -> LeadRow]
    /\ quote \in [QuoteIds -> QuoteRow]
    /\ job \in [JobIds -> JobRow]
    /\ project \in [ProjectIds -> ProjectRow]
    /\ audited \subseteq [op: {"convert", "accept"}, row: QuoteIds \cup JobIds \cup {0}, by: Requests]
    /\ req \in [Requests -> Request]
    /\ edits \in 0 .. MaxEdits

\* A quote that has its job stays accepted, whatever people turn it into by
\* hand while the job is being made (the trigger of 0021 against the lock of
\* accept_quote_create_job).
JobMeansAccepted ==
    \A j \in JobIds : job[j].exists /\ job[j].quote # 0 => quote[job[j].quote].status = "accepted"

\* Somebody who sees every row never runs into a unique index: the second of
\* two conversions, at once or later, finds what the first one made.
OwnersRetrySafely == \A r \in Owners : req[r].answer # "conflict"

\* Whoever converts the same lead or the same quote is told of the same row,
\* and one of them at most that he made it; also when the row is hidden from
\* one of them.
Answered(r) == req[r].answer \in {"created", "existing"}
CreatedOnce ==
    \A r, s \in Requests :
        /\ Answered(r) /\ Answered(s)
        /\ req[r].op = req[s].op /\ req[r].source = req[s].source
        => /\ req[r].result = req[s].result
           /\ req[r].answer = "created" /\ req[s].answer = "created" => r = s

\* A job made of a quote carries the price the quote has at that moment, and
\* the quote is neither declined nor archived then, although both were read
\* some statements before.
PricedAsAccepted ==
    [][\A j \in JobIds :
         ~job[j].exists /\ job'[j].exists /\ job'[j].quote # 0
         => LET q == job'[j].quote
            IN quote[q].amount = job'[j].amount /\ quote[q].status # "declined" /\ ~quote[q].archived]_vars

\* However often a conversion is repeated, its audit trail has one entry at
\* most (it has none when the server goes away before it writes it).
AuditedOnce == \A a, b \in audited : a.op = b.op /\ a.row = b.row => a = b
=============================================================================
