-------------------------------- MODULE Report --------------------------------
(***************************************************************************)
(* The reports of one community for one week: they are generated by the    *)
(* weekly batch or by an owner, judged by a second model, approved,        *)
(* published or rejected by owners and superseded when one is generated    *)
(* again.  The community's row points at the report published last.        *)
(*                                                                         *)
(* A generation is an LLM call, a transaction that supersedes the parent   *)
(* and inserts the report, and the judgement with a transaction of its     *)
(* own.  A decision is one transaction: it reads the status, checks it     *)
(* against the table of transitions and writes the new one, which waits    *)
(* for the row to be free and compares nothing.  A transaction that only   *)
(* writes one status is one step from then on; one that also derives the   *)
(* community's pointer again holds the row for two more: the UPDATE of     *)
(* the pointer sees what was committed when it began, even if it has to    *)
(* wait for the community's row.                                           *)
(*                                                                         *)
(* Abstracted: templates, payloads, prompts and texts; authorization;      *)
(* feedback, which a unique index guards.  Other weeks and variants are    *)
(* generated apart, and only share the pointer.                            *)
(***************************************************************************)
EXTENDS Integers, FiniteSets

CONSTANTS
  Requests,    \* slots for generations and decisions under way
  MaxReports,  \* bound: reports ever inserted
  MaxStamps    \* bound: attempts to publish

ASSUME BoundAssumption == MaxReports \in Nat /\ MaxStamps \in Nat

VARIABLES
  report,    \* rows of t_reports
  pointer,   \* the report that last_published_report_id names: {} for NULL
  clock,     \* the latest publishedAt handed out
  pc,        \* pc[q]: next step of request q
  tx,        \* tx[q]: what request q keeps in memory and in its transaction
  overtaken, \* history: requests about to write a pointer derived from old rows
  lost,      \* history: reports whose status was overwritten unseen
  drifted,   \* history: something was lost since the pointer was last derived
  doubled    \* history: a generation began although another was not needed

vars == <<report, pointer, clock, pc, tx, overtaken, lost, drifted, doubled>>
requests == <<pc, tx>>
history == <<overtaken, lost, drifted, doubled>>

-----------------------------------------------------------------------------
(* Rows and requests *)

Reports == 1..MaxReports
Status == {"DRAFT", "APPROVED", "PUBLISHED", "REJECTED", "SKIPPED", "SUPERSEDED"}

\* published is 0 where publishedAt is NULL; low tells whether the judge's score
\* is below the threshold of automatic rejection.
Row == [status: Status \cup {"NONE"}, low: BOOLEAN, published: 0..MaxStamps]
NoRow == [status |-> "NONE", low |-> FALSE, published |-> 0]
Born(status) == [NoRow EXCEPT !.status = status]

\* A generation has target SUPERSEDED and its parent as the report, 0 without
\* one; born is the status of the report that it inserts.
Memory == [report: Reports \cup {0}, target: Status \cup {"NONE"}, seen: Status \cup {"NONE"},
           born: {"NONE", "DRAFT", "SKIPPED"}, stamp: 0..MaxStamps, newest: SUBSET Reports]
NoMemory == [report |-> 0, target |-> "NONE", seen |-> "NONE",
             born |-> "NONE", stamp |-> 0, newest |-> {}]

Label == {"idle", "llm", "write", "derive", "commit", "judge"}

Existing(rows) == {r \in Reports : rows[r].status /= "NONE"}
Live(rows) == {r \in Existing(rows) : rows[r].status \notin {"REJECTED", "SUPERSEDED"}}
Published(rows) == {r \in Reports : rows[r].status = "PUBLISHED"}

\* The newest published report, which recalculateCommunityLastPublished selects.
Newest(rows) ==
  {r \in Published(rows) : \A o \in Published(rows) : rows[o].published <= rows[r].published}

Init ==
  /\ report = [r \in Reports |-> NoRow]
  /\ pointer = {}
  /\ clock = 0
  /\ pc = [q \in Requests |-> "idle"]
  /\ tx = [q \in Requests |-> NoMemory]
  /\ overtaken = {} /\ lost = {}
  /\ drifted = FALSE /\ doubled = FALSE

Goto(q, label) == pc' = [pc EXCEPT ![q] = label]
Finish(q) == Goto(q, "idle") /\ tx' = [tx EXCEPT ![q] = NoMemory]

-----------------------------------------------------------------------------
(* Generation, up to its transaction *)

Generating(q) == pc[q] = "llm" \/ tx[q].target = "SUPERSEDED"

\* Not needed: another generation is under way, or a report other than the one
\* to be superseded is live.
StartGeneration(q, parent, needed) ==
  /\ pc[q] = "idle"
  /\ Goto(q, "llm")
  /\ tx' = [tx EXCEPT ![q] = [NoMemory EXCEPT !.report = parent]]
  /\ doubled' = (doubled \/ ~needed \/ \E o \in Requests : Generating(o))
  /\ UNCHANGED <<report, pointer, clock, overtaken, lost, drifted>>

OwnerGenerates(q, parent) ==
  /\ parent \in Existing(report) \cup {0}
  /\ StartGeneration(q, parent, Live(report) \subseteq {parent})

\* Faulty: only a report that was decided on counts as existing.
BatchSkipsDecided(q) ==
  /\ \A r \in Live(report) : report[r].status = "DRAFT"
  /\ StartGeneration(q, 0, TRUE)

\* generateWeeklyReports looks for a report of the week that is neither rejected
\* nor superseded.
BatchGenerates(q) ==
  /\ Live(report) = {}
  /\ StartGeneration(q, 0, TRUE)

\* The timer aborts the call, or the call fails: nothing was written yet.
LlmFails(q) ==
  /\ pc[q] = "llm"
  /\ Finish(q)
  /\ UNCHANGED <<report, pointer, clock, history>>

\* Faulty: nothing aborts a call that does not answer.
NeverFails(q) == FALSE /\ LlmFails(q)
LlmTimesOut(q) == LlmFails(q)

-----------------------------------------------------------------------------
(* Reading a status *)

\* Faulty: a draft can be published.
AllowedEarly(from, to) ==
  \/ from \in {"DRAFT", "APPROVED"} /\ to /= from
  \/ from \in {"PUBLISHED", "REJECTED", "SKIPPED"} /\ to = "SUPERSEDED"

\* assertStatusTransition
Allowed(from, to) ==
  CASE from = "DRAFT" -> to \in {"APPROVED", "REJECTED", "SUPERSEDED"}
    [] from = "APPROVED" -> to \in {"PUBLISHED", "REJECTED", "SUPERSEDED"}
    [] from \in {"PUBLISHED", "REJECTED", "SKIPPED"} -> to = "SUPERSEDED"
    [] OTHER -> FALSE

\* publishedAt is the time before the write.
Stamp(target) == IF target = "PUBLISHED" THEN clock + 1 ELSE 0

\* approveReport, publishReport and rejectReport up to the write.
Decide(q, r, target) ==
  /\ pc[q] = "idle" /\ r \in Existing(report)
  /\ Allowed(report[r].status, target)
  /\ target = "PUBLISHED" => clock < MaxStamps
  /\ clock' = IF target = "PUBLISHED" THEN clock + 1 ELSE clock
  /\ tx' = [tx EXCEPT ![q] = [NoMemory EXCEPT !.report = r, !.target = target,
                                !.seen = report[r].status, !.stamp = Stamp(target)]]
  /\ Goto(q, "write")
  /\ UNCHANGED <<report, pointer, history>>

Free(r) == r \in Reports /\ Existing(report) = 1..(r - 1)

\* What the request keeps once it has inserted row n: the id, if it is judged.
Kept(born, n) ==
  IF born = "DRAFT" THEN [NoMemory EXCEPT !.report = n, !.born = born] ELSE NoMemory

\* The LLM has answered, or evaluateSkipReason has made the call needless.  The
\* transaction begins and reads the parent; without one, or if that was
\* superseded before, the report is inserted at once.
BeginInsert(q, born, n) ==
  LET parent == tx[q].report IN
  /\ pc[q] = "llm" /\ Free(n)
  /\ IF parent = 0 \/ (parent \in Reports /\ report[parent].status = "SUPERSEDED")
     THEN /\ report' = [report EXCEPT ![n] = Born(born)]
          /\ Goto(q, IF born = "DRAFT" THEN "judge" ELSE "idle")
          /\ tx' = [tx EXCEPT ![q] = Kept(born, n)]
     ELSE /\ Allowed(report[parent].status, "SUPERSEDED")
          /\ Goto(q, "write")
          /\ tx' = [tx EXCEPT ![q].target = "SUPERSEDED", ![q].born = born,
                              ![q].seen = report[parent].status]
          /\ UNCHANGED report
  /\ UNCHANGED <<pointer, clock, history>>
-----------------------------------------------------------------------------
(* Writing a status *)

\* The row is written by a transaction that has not committed yet.
Locked(r) == \E q \in Requests : pc[q] \in {"derive", "commit"} /\ tx[q].report = r

\* publishReport and, if the parent it read was published, a generation end with
\* recalculateCommunityLastPublished.
Derives(q) ==
  \/ tx[q].target = "PUBLISHED"
  \/ tx[q].target = "SUPERSEDED" /\ tx[q].seen = "PUBLISHED"

\* The rows as transaction q sees them once it has written.
Applied(q) ==
  [report EXCEPT ![tx[q].report].status = tx[q].target,
                 ![tx[q].report].published = IF tx[q].stamp = 0 THEN @ ELSE tx[q].stamp]

\* The new report, if the transaction inserts one.
WithInsert(rows, q, n) ==
  IF tx[q].born = "NONE" THEN rows ELSE [rows EXCEPT ![n] = Born(tx[q].born)]

\* The transaction is over: a generation whose report is a draft goes on.
Committed(q, n) ==
  /\ tx[q].born = "NONE" \/ Free(n)
  /\ Goto(q, IF tx[q].born = "DRAFT" THEN "judge" ELSE "idle")
  /\ tx' = [tx EXCEPT ![q] = Kept(tx[q].born, n)]

\* A status other than the one that was read is overwritten.
Overwrites(q) == report[tx[q].report].status /= tx[q].seen
NoteLost(q) == lost' = IF Overwrites(q) THEN lost \cup {tx[q].report} ELSE lost

\* The other requests whose pointer was derived from rows that now change.
Overtake(q) == overtaken' = {o \in Requests \ {q} : pc[o] = "commit"}

\* updateReportStatus of a transaction that writes nothing else but a new report.
WriteStatus(q, n) ==
  /\ pc[q] = "write" /\ ~Locked(tx[q].report) /\ ~Derives(q)
  /\ report' = WithInsert(Applied(q), q, n)
  /\ Committed(q, n)
  /\ NoteLost(q)
  /\ IF Overwrites(q) THEN drifted' = TRUE /\ Overtake(q) ELSE UNCHANGED <<drifted, overtaken>>
  /\ UNCHANGED <<pointer, clock, doubled>>

\* The same where the pointer follows: the row is held from here.
LockStatus(q) ==
  /\ pc[q] = "write" /\ ~Locked(tx[q].report) /\ Derives(q)
  /\ Goto(q, "derive")
  /\ NoteLost(q)
  /\ UNCHANGED <<report, pointer, clock, tx, overtaken, drifted, doubled>>

\* Faulty: the newest report is looked up as if the own one was not written yet.
DeriveCommitted(q) ==
  /\ pc[q] = "derive"
  /\ tx' = [tx EXCEPT ![q].newest = Newest(report)]
  /\ Goto(q, "commit")
  /\ UNCHANGED <<report, pointer, clock, history>>

\* recalculateCommunityLastPublished begins: its subquery sees the committed rows
\* and the transaction's own.
Derive(q) ==
  /\ pc[q] = "derive"
  /\ tx' = [tx EXCEPT ![q].newest = Newest(Applied(q))]
  /\ Goto(q, "commit")
  /\ UNCHANGED <<report, pointer, clock, history>>

\* The pointer is written, the report inserted if there is one, and committed.
CommitDerived(q, n) ==
  /\ pc[q] = "commit"
  /\ report' = WithInsert(Applied(q), q, n)
  /\ pointer' = tx[q].newest
  /\ Committed(q, n)
  /\ Overtake(q)
  /\ IF q \in overtaken THEN drifted' = TRUE ELSE drifted' = FALSE
  /\ UNCHANGED <<clock, lost, doubled>>

\* An error, a timeout or a crash rolls the transaction back.
Abort(q) ==
  /\ pc[q] \in {"write", "derive", "commit"}
  /\ Finish(q)
  /\ overtaken' = overtaken \ {q}
  /\ UNCHANGED <<report, pointer, clock, lost, drifted, doubled>>

-----------------------------------------------------------------------------
(* Judgement *)

\* Faulty: the score is kept although the report cannot be rejected.
KeepScore(q) ==
  LET r == tx[q].report IN
  /\ pc[q] = "judge" /\ ~Locked(r)
  /\ report' = [report EXCEPT ![r].low = TRUE,
                              ![r].status = IF @ = "APPROVED" THEN @ ELSE "REJECTED"]
  /\ Finish(q)
  /\ UNCHANGED <<pointer, clock, history>>

\* persistJudgeOutcomeWithAutoReject: a low score rejects a draft in the same
\* transaction; if the report is no draft any more, that transaction throws.
JudgeLow(q) ==
  LET r == tx[q].report IN
  /\ pc[q] = "judge" /\ ~Locked(r)
  /\ report' = IF report[r].status /= "DRAFT" THEN report
               ELSE [report EXCEPT ![r].low = TRUE, ![r].status = "REJECTED"]
  /\ Finish(q)
  /\ UNCHANGED <<pointer, clock, history>>

\* The score is high enough, or stays NULL: no template, no answer, or none that
\* can be parsed.  A crash, or a failed transaction, which is only logged, ends
\* the same.
JudgeOtherwise(q) ==
  /\ pc[q] = "judge"
  /\ Finish(q)
  /\ UNCHANGED <<report, pointer, clock, history>>

-----------------------------------------------------------------------------
(* Specification *)

Start(q) ==
  \/ BatchGenerates(q)
  \/ \E parent \in Reports \cup {0} : OwnerGenerates(q, parent)
  \/ \E r \in Reports, target \in {"APPROVED", "PUBLISHED", "REJECTED"} : Decide(q, r, target)

Continue(q) ==
  \/ \E n \in Reports : WriteStatus(q, n)
  \/ LockStatus(q)
  \/ Derive(q)
  \/ \E n \in Reports : CommitDerived(q, n)
  \/ Abort(q)
  \/ JudgeLow(q) \/ JudgeOtherwise(q)

Next == \E q \in Requests :
  \/ Start(q)
  \/ \E born \in {"DRAFT", "SKIPPED"}, n \in Reports : BeginInsert(q, born, n)
  \/ LlmTimesOut(q)
  \/ Continue(q)

Spec == Init /\ [][Next]_vars

\* Fairness: both LLM calls are aborted by a timer, and a transaction commits,
\* fails or is timed out by the client.  That the LLM answers, that anyone
\* generates or decides, is not assumed.
Fairness == \A q \in Requests : WF_vars(LlmTimesOut(q)) /\ WF_vars(Continue(q))

FairSpec == Spec /\ Fairness

-----------------------------------------------------------------------------
(* Properties *)

\* Every variable stays within its type.
TypeOK ==
  /\ report \in [Reports -> Row]
  /\ pointer \subseteq Reports
  /\ clock \in 0..MaxStamps
  /\ pc \in [Requests -> Label]
  /\ tx \in [Requests -> Memory]
  /\ overtaken \subseteq Requests /\ lost \subseteq Reports
  /\ drifted \in BOOLEAN /\ doubled \in BOOLEAN

\* The community's pointer names its newest published report, and NULL if there
\* is none, unless since it was last derived from rows that did not change
\* meanwhile a status was overwritten unseen or two derivations overlapped: one
\* undisturbed publication sets it right again.
PointerIsNewest == drifted \/ pointer = Newest(report)

\* The week has at most one report that is neither rejected nor superseded, unless
\* an owner asked for another one, two generations were under way at the same
\* time, or a decision overwrote a status it had not seen.
OneLiveReport == doubled \/ lost /= {} \/ Cardinality(Live(report)) <= 1

\* A report that was judged below the threshold is never a draft, and it is
\* approved or published only by a decision that had read it before the judgement.
LowScoreIsRejected == \A r \in Reports :
  report[r].low =>
    \/ report[r].status \in {"REJECTED", "SUPERSEDED"}
    \/ r \in lost /\ report[r].status /= "DRAFT"

\* A report leaves the order draft, approved, published only for being rejected
\* or superseded, and comes back from neither, unless two requests read its
\* status before one of them wrote it.
Later(from, to) ==
  \/ from = "NONE" /\ to \in {"DRAFT", "SKIPPED"}
  \/ from = "DRAFT" /\ to = "APPROVED"
  \/ from = "APPROVED" /\ to = "PUBLISHED"
  \/ from \in {"DRAFT", "APPROVED"} /\ to = "REJECTED"
  \/ from \notin {"NONE", "SUPERSEDED"} /\ to = "SUPERSEDED"

StatusMovesOn == [][\A r \in Reports :
  report'[r].status /= report[r].status =>
    (r \in lost') \/ Later(report[r].status, report'[r].status)]_vars

\* Every generation and every decision comes to an end, whatever the LLM does and
\* whoever holds the rows.
RequestsEnd == \A q \in Requests : pc[q] /= "idle" ~> pc[q] = "idle"
=============================================================================
