--------------------------- MODULE ReportVoteProofs ---------------------------
(***************************************************************************)
(* Theorems about the drafting and judging of reports (Report) and about   *)
(* vote topics (Vote), for any number of requests, casts and edits that    *)
(* overlap, and for every bound.                                           *)
(***************************************************************************)
EXTENDS Report, Vote, FiniteSums

-----------------------------------------------------------------------------
(* Reports: the invariant *)

Writing == {"write", "derive", "commit"}
Holding == {"derive", "commit"}
Targets == {"APPROVED", "PUBLISHED", "REJECTED", "SUPERSEDED"}

\* What a request has in hand, by the step it is at.
Local(q) ==
  /\ pc[q] = "idle" => tx[q] = NoMemory
  /\ pc[q] \in {"llm", "judge"} => tx[q].target = "NONE" /\ tx[q].stamp = 0
  /\ pc[q] = "llm" => tx[q].report \in Existing(report) \cup {0}
  /\ pc[q] = "judge" => tx[q].report \in Existing(report)
  /\ pc[q] \in Writing =>
       /\ tx[q].report \in Existing(report) /\ tx[q].target \in Targets
       /\ Allowed(tx[q].seen, tx[q].target)
       /\ tx[q].stamp = 0 <=> tx[q].target /= "PUBLISHED"
       /\ tx[q].born /= "NONE" => tx[q].target = "SUPERSEDED"

\* What it has written over is known from the moment it holds the row.
Noted(q) == pc[q] \in Holding =>
  Derives(q) /\ (report[tx[q].report].status = tx[q].seen \/ tx[q].report \in lost)

\* A row is held by one request at most.
Exclusive == \A q, o \in Requests :
  pc[q] \in Holding /\ pc[o] \in Holding /\ tx[q].report = tx[o].report => q = o

LocalInv == TypeOK /\ (\A q \in Requests : Local(q) /\ Noted(q)) /\ Exclusive

\* Nothing has changed what a pointer about to be written was derived from.
PointerInv ==
  /\ PointerIsNewest
  /\ \A q \in Requests :
       pc[q] = "commit" /\ q \notin overtaken => tx[q].newest = Newest(Applied(q))

\* Where no generation was doubled and no status lost, a generation under way is
\* the only one, and replaces the only live report there can be.
LiveInv ==
  ~doubled /\ lost = {} =>
    /\ \A r, s \in Live(report) : r = s
    /\ \A q \in Requests : Generating(q) => Live(report) \subseteq {tx[q].report}
    /\ \A q, o \in Requests : Generating(q) /\ Generating(o) => q = o

-----------------------------------------------------------------------------
(* Types and rows *)

LEMMA Constants ==
  /\ 0 \notin Reports /\ Reports \subseteq Nat /\ MaxStamps \in Nat
  /\ NoRow \in Row /\ NoMemory \in Memory
  /\ \A born \in Status : Born(born) \in Row /\ Born(born).status = born
                          /\ Born(born).low = FALSE
  /\ \A born \in {"NONE", "DRAFT", "SKIPPED"}, n \in Reports : Kept(born, n) \in Memory
  /\ Targets \subseteq Status /\ "DRAFT" \in Status /\ "SKIPPED" \in Status
<1>1. 0 \notin Reports /\ Reports \subseteq Nat /\ MaxStamps \in Nat
  BY BoundAssumption DEF Reports
<1>2. NoRow \in Row /\ NoMemory \in Memory
  BY <1>1 DEF NoRow, Row, NoMemory, Memory, Status
<1>3. ASSUME NEW born \in Status
      PROVE  Born(born) \in Row /\ Born(born).status = born /\ Born(born).low = FALSE
  <2>1. NoRow.low = FALSE
    BY DEF NoRow
  <2> QED BY <1>2, <2>1 DEF Born, Row
<1>4. ASSUME NEW born \in {"NONE", "DRAFT", "SKIPPED"}, NEW n \in Reports
      PROVE  Kept(born, n) \in Memory
  <2>1. born = "DRAFT" => Kept(born, n) =
          [report |-> n, target |-> "NONE", seen |-> "NONE",
           born |-> "DRAFT", stamp |-> 0, newest |-> {}]
    BY DEF Kept, NoMemory
  <2>2. born = "DRAFT" => Kept(born, n) \in Memory
    BY <1>1, <2>1 DEF Memory
  <2> QED BY <1>2, <2>2 DEF Kept
<1> QED BY <1>1, <1>2, <1>3, <1>4 DEF Targets, Status

\* What the transaction of q makes of the rows.
Effect(q, n, rows) ==
  /\ rows \in [Reports -> Row]
  /\ rows[tx[q].report].status = tx[q].target
  /\ rows[tx[q].report].low = report[tx[q].report].low
  /\ tx[q].stamp = 0 => rows[tx[q].report].published = report[tx[q].report].published
  /\ \A r \in Reports \ {tx[q].report} :
       \/ rows[r] = report[r]
       \/ /\ r = n /\ tx[q].born \in {"DRAFT", "SKIPPED"}
          /\ report[r].status = "NONE" /\ rows[r] = Born(tx[q].born)

LEMMA AppliedEffect ==
  ASSUME TypeOK, NEW q \in Requests, Local(q), pc[q] \in Writing
  PROVE  /\ Applied(q) \in [Reports -> Row]
         /\ Applied(q)[tx[q].report].status = tx[q].target
         /\ Applied(q)[tx[q].report].low = report[tx[q].report].low
         /\ tx[q].stamp = 0 =>
              Applied(q)[tx[q].report].published = report[tx[q].report].published
         /\ \A r \in Reports \ {tx[q].report} : Applied(q)[r] = report[r]
<1> DEFINE p == tx[q].report
<1>1. p \in Reports /\ tx[q].target \in Status /\ tx[q].stamp \in 0..MaxStamps
      /\ report \in [Reports -> Row]
  BY Constants DEF TypeOK, Local, Existing, Memory
<1>2. Applied(q) = [report EXCEPT ![p] =
        [report[p] EXCEPT !.status = tx[q].target,
                          !.published = IF tx[q].stamp = 0 THEN @ ELSE tx[q].stamp]]
  BY <1>1 DEF Applied, Row
<1>3. report[p] \in Row
  BY <1>1
<1>4. [report[p] EXCEPT !.status = tx[q].target,
                        !.published = IF tx[q].stamp = 0 THEN @ ELSE tx[q].stamp] \in Row
  BY <1>1, <1>3 DEF Row
<1> QED BY <1>1, <1>2, <1>3, <1>4 DEF Row

LEMMA WrittenEffect ==
  ASSUME TypeOK, NEW q \in Requests, Local(q), pc[q] \in Writing, NEW n \in Reports,
         tx[q].born = "NONE" \/ Free(n)
  PROVE  Effect(q, n, WithInsert(Applied(q), q, n))
<1>1. tx[q].born \in {"NONE", "DRAFT", "SKIPPED"} /\ tx[q].report \in Existing(report)
  BY DEF TypeOK, Memory, Local
<1>2. CASE tx[q].born = "NONE"
  BY <1>2, AppliedEffect DEF WithInsert, Effect
<1>3. CASE tx[q].born \in {"DRAFT", "SKIPPED"}
  <2>1. n \notin Existing(report)
    BY <1>3, Constants DEF Free
  <2>2. report[n].status = "NONE" /\ n /= tx[q].report
    BY <1>1, <2>1 DEF Existing
  <2>3. WithInsert(Applied(q), q, n) = [Applied(q) EXCEPT ![n] = Born(tx[q].born)]
    BY <1>3 DEF WithInsert
  <2>4. Born(tx[q].born) \in Row
    BY <1>3, Constants
  <2> QED BY <1>1, <1>3, <2>2, <2>3, <2>4, AppliedEffect DEF Effect, Existing
<1> QED BY <1>1, <1>2, <1>3

LEMMA EffectExisting ==
  ASSUME TypeOK, NEW q \in Requests, Local(q), pc[q] \in Writing, NEW n \in Reports,
         NEW rows, Effect(q, n, rows)
  PROVE  Existing(report) \subseteq Existing(rows)
  BY DEF Effect, Existing, Local, Targets

LEMMA InsertEffect ==
  ASSUME TypeOK, NEW born \in {"DRAFT", "SKIPPED"}, NEW n \in Reports, Free(n)
  PROVE  /\ report[n].status = "NONE"
         /\ [report EXCEPT ![n] = Born(born)] \in [Reports -> Row]
         /\ Existing([report EXCEPT ![n] = Born(born)]) = Existing(report) \cup {n}
<1>1. n \notin Existing(report) /\ Born(born) \in Row /\ Born(born).status = born
  BY Constants DEF Free
<1>2. report[n].status = "NONE"
  BY <1>1 DEF Existing
<1> QED BY <1>1, <1>2 DEF TypeOK, Existing

-----------------------------------------------------------------------------
(* What a request has in hand *)

Alone(q) == \A o \in Requests \ {q} : pc'[o] = pc[o] /\ tx'[o] = tx[o]

\* No row disappears, and q leaves the rows that others hold alone.
Gently(q) ==
  /\ Existing(report) \subseteq Existing(report')
  /\ lost \subseteq lost'
  /\ \A o \in Requests \ {q} : pc[o] \in Holding => report'[tx[o].report] = report[tx[o].report]

\* q comes to hold a row only if nobody else does.
Takes(q) == pc'[q] \in Holding =>
  tx'[q].report = tx[q].report /\ (pc[q] \in Holding \/ ~Locked(tx[q].report))

LEMMA OthersKeep ==
  ASSUME LocalInv, NEW q \in Requests, TypeOK', Alone(q), Gently(q), Takes(q),
         Local(q)', Noted(q)'
  PROVE  LocalInv'
<1>1. ASSUME NEW o \in Requests \ {q} PROVE Local(o)' /\ Noted(o)'
  <2>1. pc'[o] = pc[o] /\ tx'[o] = tx[o]
    BY DEF Alone
  <2>2. Local(o) /\ Noted(o)
    BY DEF LocalInv
  <2>3. Local(o)'
    BY <2>1, <2>2 DEF Gently, Local
  <2>4. Noted(o)'
    BY <2>1, <2>2 DEF Gently, Noted, Derives
  <2> QED BY <2>3, <2>4
<1>2. Exclusive'
  <2>1. ASSUME NEW o \in Requests \ {q}, pc'[q] \in Holding, pc'[o] \in Holding,
               tx'[q].report = tx'[o].report
        PROVE  FALSE
    BY <2>1 DEF Alone, Takes, LocalInv, Exclusive, Locked, Holding
  <2> QED BY <2>1 DEF Alone, LocalInv, Exclusive
<1> QED BY <1>1, <1>2 DEF LocalInv

LEMMA StartLocal ==
  ASSUME LocalInv, NEW q \in Requests, NEW parent \in Existing(report) \cup {0}, NEW needed,
         StartGeneration(q, parent, needed), doubled' \in BOOLEAN
  PROVE  LocalInv' /\ Alone(q) /\ Gently(q)
<1>1. parent \in Reports \cup {0}
  BY DEF Existing
<1>2. [NoMemory EXCEPT !.report = parent] \in Memory
  BY <1>1, Constants DEF Memory, NoMemory
<1>3. TypeOK' /\ Alone(q) /\ Gently(q) /\ Takes(q)
  BY <1>2 DEF LocalInv, TypeOK, StartGeneration, Goto, Alone, Gently, Takes, Label, Holding
<1>4. pc'[q] = "llm" /\ tx'[q] = [NoMemory EXCEPT !.report = parent]
  BY DEF LocalInv, TypeOK, StartGeneration, Goto
<1>5. tx'[q].target = "NONE" /\ tx'[q].stamp = 0 /\ tx'[q].report = parent
      /\ UNCHANGED report
  BY <1>4 DEF NoMemory, StartGeneration
<1>6. Local(q)' /\ Noted(q)'
  BY <1>4, <1>5 DEF Local, Noted, Writing, Holding
<1> QED BY <1>3, <1>6, OthersKeep

LEMMA DecideLocal ==
  ASSUME LocalInv, NEW q \in Requests, NEW r \in Reports,
         NEW target \in {"APPROVED", "PUBLISHED", "REJECTED"}, Decide(q, r, target)
  PROVE  LocalInv' /\ Alone(q) /\ Gently(q)
<1> DEFINE m == [NoMemory EXCEPT !.report = r, !.target = target,
                                 !.seen = report[r].status, !.stamp = Stamp(target)]
<1>1. report[r].status \in Status /\ r \in Existing(report)
  BY DEF LocalInv, TypeOK, Decide, Existing, Row
<1>2. clock \in Nat /\ clock =< MaxStamps /\ Stamp(target) \in 0..MaxStamps
      /\ (Stamp(target) = 0 <=> target /= "PUBLISHED") /\ clock' \in 0..MaxStamps
  BY Constants DEF LocalInv, TypeOK, Decide, Stamp
<1>3. m.report = r /\ m.target = target /\ m.seen = report[r].status
      /\ m.stamp = Stamp(target) /\ m.born = "NONE"
  BY DEF NoMemory
<1>4. m \in Memory
  BY <1>1, <1>2 DEF Memory, NoMemory, Status
<1>5. pc'[q] = "write" /\ tx'[q] = m /\ UNCHANGED <<report, lost>>
  BY DEF LocalInv, TypeOK, Decide, Goto, history
<1>6. TypeOK' /\ Alone(q) /\ Gently(q) /\ Takes(q)
  BY <1>2, <1>4 DEF LocalInv, TypeOK, Decide, Goto, Alone, Gently, Takes, Label, Holding, history
<1> HIDE DEF m
<1>7. Local(q)' /\ Noted(q)'
  BY <1>1, <1>2, <1>3, <1>5 DEF Local, Noted, Writing, Holding, Targets, Decide, Existing
<1> QED BY <1>6, <1>7, OthersKeep

LEMMA FinishLocal ==
  ASSUME LocalInv, NEW q \in Requests, Finish(q), Gently(q), report' \in [Reports -> Row],
         UNCHANGED <<pointer, clock, lost, drifted, doubled>>, overtaken' \subseteq overtaken
  PROVE  LocalInv' /\ Alone(q) /\ Gently(q)
<1>1. TypeOK' /\ Alone(q)
  BY Constants DEF LocalInv, TypeOK, Finish, Goto, Alone, Label
<1>2. pc'[q] = "idle" /\ tx'[q] = NoMemory
  BY DEF LocalInv, TypeOK, Finish, Goto
<1>3. Local(q)' /\ Noted(q)' /\ Takes(q)
  BY <1>2 DEF Local, Noted, Takes, Writing, Holding
<1> QED BY <1>1, <1>3, OthersKeep

LEMMA JudgeLowLocal ==
  ASSUME LocalInv, NEW q \in Requests, JudgeLow(q)
  PROVE  LocalInv' /\ Alone(q) /\ Gently(q)
<1> DEFINE r == tx[q].report
<1>1. r \in Reports /\ report[r] \in Row
  BY DEF LocalInv, TypeOK, JudgeLow, Local, Existing
<1>2. CASE report[r].status = "DRAFT"
  <2>1. report' = [report EXCEPT ![r] = [report[r] EXCEPT !.low = TRUE, !.status = "REJECTED"]]
    BY <1>1, <1>2 DEF JudgeLow
  <2>2. [report[r] EXCEPT !.low = TRUE, !.status = "REJECTED"] \in Row
    BY <1>1 DEF Row, Status
  <2>3. report' \in [Reports -> Row] /\ report'[r].status = "REJECTED"
        /\ \A s \in Reports \ {r} : report'[s] = report[s]
    BY <1>1, <2>1, <2>2 DEF LocalInv, TypeOK, Row
  <2>4. Existing(report) \subseteq Existing(report')
    BY <2>3 DEF Existing
  <2>5. Gently(q)
    BY <2>3, <2>4 DEF LocalInv, TypeOK, JudgeLow, Gently, Locked, Holding, history,
                      Local, Writing, Existing
  <2> QED BY <2>3, <2>5, FinishLocal DEF JudgeLow, history
<1>3. CASE report[r].status /= "DRAFT"
  <2>1. report' = report
    BY <1>3 DEF JudgeLow
  <2> QED BY <2>1, FinishLocal DEF LocalInv, TypeOK, JudgeLow, Gently, history
<1> QED BY <1>2, <1>3

\* A transaction that has inserted its report, if any, is over.
LEMMA CommittedLocal ==
  ASSUME LocalInv, NEW q \in Requests, pc[q] \in Writing, NEW n \in Reports,
         Committed(q, n), ~Locked(tx[q].report) \/ pc[q] \in Holding,
         report' = WithInsert(Applied(q), q, n), lost \subseteq lost', TypeOK'
  PROVE  LocalInv' /\ Alone(q) /\ Gently(q)
<1>1. Local(q) /\ TypeOK /\ tx[q].born \in {"NONE", "DRAFT", "SKIPPED"}
  BY DEF LocalInv, TypeOK, Memory
<1>2. Effect(q, n, report')
  BY <1>1, WrittenEffect DEF Committed
<1>3. Existing(report) \subseteq Existing(report')
  BY <1>1, <1>2, EffectExisting
<1>4. Alone(q)
  BY DEF LocalInv, TypeOK, Committed, Goto, Alone
<1>5. pc'[q] = (IF tx[q].born = "DRAFT" THEN "judge" ELSE "idle")
      /\ tx'[q] = Kept(tx[q].born, n)
  BY DEF LocalInv, TypeOK, Committed, Goto
<1>6. Gently(q)
  <2>1. ASSUME NEW o \in Requests \ {q}, pc[o] \in Holding
        PROVE  report'[tx[o].report] = report[tx[o].report]
    <3>1. tx[o].report \in Existing(report)
      BY <2>1 DEF LocalInv, Local, Writing, Holding
    <3>2. tx[o].report /= tx[q].report
      BY <2>1 DEF LocalInv, Exclusive, Locked, Holding
    <3> QED BY <1>2, <3>1, <3>2 DEF Effect, Existing
  <2> QED BY <1>3, <2>1 DEF Gently
<1>7. Takes(q) /\ Noted(q)'
  BY <1>5 DEF Takes, Noted, Holding
<1>8. Local(q)'
  <2>1. CASE tx[q].born = "DRAFT"
    <3>1. report'[n].status = "DRAFT"
      <4>1. Free(n) /\ n \notin Existing(report)
        BY <2>1, Constants DEF Committed, Free
      <4>2. WithInsert(Applied(q), q, n) = [Applied(q) EXCEPT ![n] = Born("DRAFT")]
        BY <2>1 DEF WithInsert
      <4> QED BY <1>1, <4>2, AppliedEffect, Constants
    <3>2. tx'[q].target = "NONE" /\ tx'[q].stamp = 0 /\ tx'[q].report = n /\ pc'[q] = "judge"
      BY <1>5, <2>1 DEF Kept, NoMemory
    <3> QED BY <3>1, <3>2 DEF Local, Existing, Writing
  <2>2. CASE tx[q].born /= "DRAFT"
    BY <1>5, <2>2 DEF Local, Kept, Writing
  <2> QED BY <2>1, <2>2
<1> QED BY <1>4, <1>6, <1>7, <1>8, OthersKeep

LEMMA BeginInsertLocal ==
  ASSUME LocalInv, NEW q \in Requests, NEW born \in {"DRAFT", "SKIPPED"}, NEW n \in Reports,
         BeginInsert(q, born, n)
  PROVE  LocalInv' /\ Alone(q) /\ Gently(q)
<1> DEFINE p == tx[q].report
           Now == p = 0 \/ (p \in Reports /\ report[p].status = "SUPERSEDED")
<1>1. TypeOK /\ Local(q) /\ pc[q] = "llm" /\ Free(n) /\ tx[q] \in Memory
      /\ UNCHANGED <<pointer, clock, overtaken, lost, drifted, doubled>>
  BY DEF LocalInv, TypeOK, BeginInsert, history
<1>2. CASE Now
  <2>1. /\ report' = [report EXCEPT ![n] = Born(born)]
        /\ pc' = [pc EXCEPT ![q] = IF born = "DRAFT" THEN "judge" ELSE "idle"]
        /\ tx' = [tx EXCEPT ![q] = Kept(born, n)]
    BY <1>2 DEF BeginInsert, Goto
  <2>2. report' \in [Reports -> Row] /\ Existing(report') = Existing(report) \cup {n}
        /\ n \notin Existing(report)
    BY <1>1, <2>1, InsertEffect DEF Existing
  <2>3. TypeOK' /\ Alone(q)
    BY <1>1, <2>1, <2>2, Constants DEF TypeOK, Alone, Label
  <2>4. pc'[q] = (IF born = "DRAFT" THEN "judge" ELSE "idle") /\ tx'[q] = Kept(born, n)
    BY <1>1, <2>1 DEF TypeOK
  <2>5. Gently(q)
    <3>1. ASSUME NEW o \in Requests \ {q}, pc[o] \in Holding
          PROVE  report'[tx[o].report] = report[tx[o].report]
      <4>1. tx[o].report \in Existing(report)
        BY <3>1 DEF LocalInv, Local, Writing, Holding
      <4> QED BY <1>1, <2>1, <2>2, <4>1 DEF TypeOK, Existing
    <3> QED BY <1>1, <2>2, <3>1 DEF Gently
  <2>6. Takes(q) /\ Noted(q)'
    BY <2>4 DEF Takes, Noted, Holding
  <2>7. Local(q)'
    <3>1. CASE born = "DRAFT"
      <4>1. tx'[q].target = "NONE" /\ tx'[q].stamp = 0 /\ tx'[q].report = n
        BY <2>4, <3>1 DEF Kept, NoMemory
      <4> QED BY <2>2, <2>4, <3>1, <4>1 DEF Local, Writing
    <3>2. CASE born /= "DRAFT"
      BY <2>4, <3>2 DEF Local, Kept, Writing
    <3> QED BY <3>1, <3>2
  <2> QED BY <2>3, <2>5, <2>6, <2>7, OthersKeep
<1>3. CASE ~Now
  <2> DEFINE m == [tx[q] EXCEPT !.target = "SUPERSEDED", !.born = born,
                                !.seen = report[p].status]
  <2>1. /\ Allowed(report[p].status, "SUPERSEDED") /\ UNCHANGED report
        /\ pc' = [pc EXCEPT ![q] = "write"] /\ tx' = [tx EXCEPT ![q] = m]
    BY <1>1, <1>3 DEF BeginInsert, Goto, TypeOK, Memory
  <2>2. p \in Existing(report) /\ p \in Reports /\ report[p].status \in Status
    BY <1>1, <1>3 DEF Local, TypeOK, Existing, Row
  <2>3. m \in Memory /\ m.report = p /\ m.target = "SUPERSEDED" /\ m.born = born
        /\ m.seen = report[p].status /\ m.stamp = 0
    BY <1>1, <2>2 DEF Memory, Status, Local
  <2> HIDE DEF m
  <2>4. TypeOK' /\ Alone(q) /\ tx'[q] = m /\ pc'[q] = "write"
    BY <1>1, <2>1, <2>3 DEF TypeOK, Alone, Label
  <2>5. Gently(q) /\ Takes(q) /\ Noted(q)'
    BY <1>1, <2>1, <2>4 DEF Gently, Takes, Noted, Holding
  <2>6. Local(q)'
    BY <2>1, <2>2, <2>3, <2>4 DEF Local, Writing, Targets, Existing
  <2> QED BY <2>4, <2>5, <2>6, OthersKeep
<1> QED BY <1>2, <1>3

LEMMA WriteLocal ==
  ASSUME LocalInv, NEW q \in Requests, NEW n \in Reports,
         WriteStatus(q, n) \/ CommitDerived(q, n)
  PROVE  LocalInv' /\ Alone(q) /\ Gently(q)
<1>1. TypeOK /\ Local(q) /\ pc[q] \in Writing /\ Committed(q, n)
      /\ (~Locked(tx[q].report) \/ pc[q] \in Holding) /\ lost \subseteq lost'
      /\ report' = WithInsert(Applied(q), q, n)
  BY DEF LocalInv, WriteStatus, CommitDerived, Writing, Holding, NoteLost
<1>2. report' \in [Reports -> Row] /\ tx[q].born \in {"NONE", "DRAFT", "SKIPPED"}
      /\ tx[q].report \in Reports /\ tx[q].newest \subseteq Reports
  BY <1>1, WrittenEffect DEF Committed, Effect, TypeOK, Memory, Local, Existing
<1>3. pc' \in [Requests -> Label] /\ tx' \in [Requests -> Memory]
  BY <1>1, <1>2, Constants DEF TypeOK, Committed, Goto, Label
<1>4. pointer' \subseteq Reports /\ overtaken' \subseteq Requests /\ lost' \subseteq Reports
      /\ drifted' \in BOOLEAN /\ UNCHANGED <<clock, doubled>>
  <2>1. pointer' \subseteq Reports /\ overtaken' \subseteq Requests /\ lost' \subseteq Reports
        /\ UNCHANGED <<clock, doubled>>
    BY <1>1, <1>2 DEF TypeOK, WriteStatus, CommitDerived, Overtake, NoteLost
  <2>2. CASE CommitDerived(q, n)
    <3>1. q \in overtaken => drifted' = TRUE
      BY <2>2 DEF CommitDerived
    <3>2. q \notin overtaken => drifted' = FALSE
      BY <2>2 DEF CommitDerived
    <3> QED BY <2>1, <3>1, <3>2
  <2>3. CASE WriteStatus(q, n)
    BY <1>1, <2>1, <2>3 DEF TypeOK, WriteStatus
  <2> QED BY <2>2, <2>3
<1>5. TypeOK'
  BY <1>1, <1>2, <1>3, <1>4 DEF TypeOK
<1> QED BY <1>1, <1>5, CommittedLocal

LEMMA HoldLocal ==
  ASSUME LocalInv, NEW q \in Requests, LockStatus(q) \/ Derive(q)
  PROVE  LocalInv' /\ Alone(q) /\ Gently(q)
<1>1. TypeOK /\ Local(q) /\ Noted(q) /\ pc[q] \in Writing /\ tx[q].report \in Reports
      /\ UNCHANGED <<report, pointer, clock, overtaken, drifted, doubled>>
  BY DEF LocalInv, LockStatus, Derive, Writing, Local, Existing, history
<1>2. CASE LockStatus(q)
  <2>1. TypeOK' /\ Alone(q) /\ pc'[q] = "derive" /\ UNCHANGED tx /\ lost \subseteq lost'
    BY <1>1, <1>2 DEF TypeOK, LockStatus, Goto, NoteLost, Alone, Label
  <2>2. Gently(q) /\ Takes(q)
    BY <1>1, <1>2, <2>1 DEF Gently, Takes, LockStatus
  <2>3. Local(q)'
    BY <1>1, <2>1 DEF Local, Writing
  <2>4. Noted(q)'
    BY <1>1, <1>2, <2>1 DEF Noted, LockStatus, NoteLost, Overwrites, Derives
  <2> QED BY <2>1, <2>2, <2>3, <2>4, OthersKeep
<1>3. CASE Derive(q)
  <2>1. UNCHANGED lost /\ pc' = [pc EXCEPT ![q] = "commit"] /\ pc[q] = "derive"
        /\ tx' = [tx EXCEPT ![q] = [tx[q] EXCEPT !.newest = Newest(Applied(q))]]
    BY <1>1, <1>3 DEF TypeOK, Derive, Goto, history
  <2>2. Newest(Applied(q)) \subseteq Reports /\ tx[q] \in Memory
    BY <1>1 DEF Newest, Published, TypeOK
  <2>3. [tx[q] EXCEPT !.newest = Newest(Applied(q))] \in Memory
    BY <2>2 DEF Memory
  <2>4. TypeOK' /\ Alone(q) /\ pc'[q] = "commit"
    BY <1>1, <2>1, <2>3 DEF TypeOK, Alone, Label
  <2>5. /\ tx'[q].report = tx[q].report /\ tx'[q].target = tx[q].target
        /\ tx'[q].seen = tx[q].seen /\ tx'[q].born = tx[q].born /\ tx'[q].stamp = tx[q].stamp
    BY <1>1, <2>1, <2>2 DEF TypeOK, Memory
  <2>6. Gently(q) /\ Takes(q)
    BY <1>1, <2>1, <2>5 DEF Gently, Takes, Holding
  <2>7. Local(q)'
    BY <1>1, <2>4, <2>5 DEF Local, Writing
  <2>8. Noted(q)'
    BY <1>1, <2>1, <2>4, <2>5 DEF Noted, Holding, Derives
  <2> QED BY <2>4, <2>6, <2>7, <2>8, OthersKeep
<1> QED BY <1>2, <1>3

LEMMA LocalStep == LocalInv /\ [Next]_vars => LocalInv'
<1> SUFFICES ASSUME LocalInv, [Next]_vars PROVE LocalInv'
  OBVIOUS
<1>1. CASE UNCHANGED vars
  BY <1>1 DEF LocalInv, TypeOK, Local, Noted, Exclusive, Derives, vars
<1>2. CASE Next
  <2>1. PICK q \in Requests :
          \/ Start(q)
          \/ \E born \in {"DRAFT", "SKIPPED"}, n \in Reports : BeginInsert(q, born, n)
          \/ LlmTimesOut(q)
          \/ Continue(q)
    BY <1>2 DEF Next
  <2>2. CASE Start(q)
    <3>1. CASE BatchGenerates(q)
      <4>1. StartGeneration(q, 0, TRUE) /\ doubled' \in BOOLEAN
        BY <3>1 DEF BatchGenerates, StartGeneration, LocalInv, TypeOK
      <4> QED BY <4>1, StartLocal
    <3>2. ASSUME NEW parent \in Reports \cup {0}, OwnerGenerates(q, parent) PROVE LocalInv'
      <4>1. StartGeneration(q, parent, Live(report) \subseteq {parent}) /\ doubled' \in BOOLEAN
            /\ parent \in Existing(report) \cup {0}
        BY <3>2 DEF OwnerGenerates, StartGeneration, LocalInv, TypeOK
      <4> QED BY <4>1, StartLocal
    <3> QED BY <2>2, <3>1, <3>2, DecideLocal DEF Start
  <2>3. CASE LlmTimesOut(q) \/ Abort(q) \/ JudgeOtherwise(q)
    <3>1. Finish(q) /\ Gently(q) /\ report' \in [Reports -> Row]
          /\ UNCHANGED <<pointer, clock, lost, drifted, doubled>> /\ overtaken' \subseteq overtaken
      BY <2>3 DEF LlmTimesOut, LlmFails, Abort, JudgeOtherwise, LocalInv, TypeOK, Gently, history
    <3> QED BY <3>1, FinishLocal
  <2>4. CASE Continue(q)
    BY <2>3, <2>4, WriteLocal, HoldLocal, JudgeLowLocal DEF Continue
  <2> QED BY <2>1, <2>2, <2>3, <2>4, BeginInsertLocal
<1> QED BY <1>1, <1>2

LEMMA LocalInit == Init => LocalInv
<1> SUFFICES ASSUME Init PROVE LocalInv
  OBVIOUS
<1>1. TypeOK
  <2>1. NoRow \in Row /\ NoMemory \in Memory /\ 0 \in 0..MaxStamps
    BY Constants
  <2> QED BY <2>1 DEF Init, TypeOK, Label
<1>2. ASSUME NEW q \in Requests PROVE Local(q) /\ Noted(q)
  BY DEF Init, Local, Noted, Writing, Holding
<1> QED BY <1>1, <1>2 DEF Init, LocalInv, Exclusive, Holding

LEMMA LocalAlways == Spec => []LocalInv
  BY LocalInit, LocalStep, PTL DEF Spec

\* Every variable stays within its type, however generations and decisions overlap.
THEOREM TypeOKAlways == Spec => []TypeOK
<1>1. LocalInv => TypeOK
  BY DEF LocalInv
<1> QED BY <1>1, LocalAlways, PTL

-----------------------------------------------------------------------------
(* What a step does to a row *)

Change(r) ==
  \/ report'[r] = report[r]
  \/ /\ report[r].status = "NONE"
     /\ report'[r].status \in {"DRAFT", "SKIPPED"} /\ report'[r].low = FALSE
  \/ report[r].status = "DRAFT" /\ report'[r].status = "REJECTED"
  \/ \E seen \in {report[r].status} \cup (IF r \in lost' THEN Status \cup {"NONE"} ELSE {}) :
       /\ Allowed(seen, report'[r].status) /\ report'[r].status \in Targets
       /\ report'[r].low = report[r].low

LEMMA WriteRows ==
  ASSUME LocalInv, NEW q \in Requests, NEW n \in Reports,
         WriteStatus(q, n) \/ CommitDerived(q, n)
  PROVE  /\ Effect(q, n, report') /\ lost \subseteq lost'
         /\ report[tx[q].report].status = tx[q].seen \/ tx[q].report \in lost'
         /\ Local(q) /\ pc[q] \in Writing /\ tx[q].report \in Reports
<1>1. TypeOK /\ Local(q) /\ Noted(q) /\ pc[q] \in Writing
      /\ (tx[q].born = "NONE" \/ Free(n)) /\ report' = WithInsert(Applied(q), q, n)
  BY DEF LocalInv, WriteStatus, CommitDerived, Writing, Committed
<1>2. Effect(q, n, report')
  BY <1>1, WrittenEffect
<1>3. lost \subseteq lost' /\ (report[tx[q].report].status = tx[q].seen \/ tx[q].report \in lost')
  BY <1>1 DEF WriteStatus, CommitDerived, NoteLost, Overwrites, Noted, Holding
<1> QED BY <1>1, <1>2, <1>3 DEF Local, Existing

LEMMA StepRows ==
  ASSUME LocalInv, [Next]_vars
  PROVE  lost \subseteq lost' /\ \A r \in Reports : Change(r)
<1>1. CASE UNCHANGED vars
  BY <1>1 DEF vars, Change
<1>2. CASE Next
  <2>1. PICK q \in Requests :
          \/ Start(q)
          \/ \E born \in {"DRAFT", "SKIPPED"}, n \in Reports : BeginInsert(q, born, n)
          \/ LlmTimesOut(q)
          \/ Continue(q)
    BY <1>2 DEF Next
  <2>2. CASE UNCHANGED report /\ lost \subseteq lost'
    BY <2>2 DEF Change
  <2>3. ASSUME NEW born \in {"DRAFT", "SKIPPED"}, NEW n \in Reports, BeginInsert(q, born, n)
        PROVE  lost \subseteq lost' /\ \A r \in Reports : Change(r)
    <3>1. Free(n) /\ lost' = lost
          /\ (report' = report \/ report' = [report EXCEPT ![n] = Born(born)])
      BY <2>3 DEF BeginInsert, history
    <3>2. report[n].status = "NONE" /\ Born(born).status = born /\ Born(born).low = FALSE
      BY <3>1, InsertEffect, Constants DEF LocalInv
    <3> QED BY <3>1, <3>2 DEF LocalInv, TypeOK, Change
  <2>4. CASE JudgeLow(q)
    <3>1. lost' = lost /\ tx[q].report \in Reports
      BY <2>4 DEF LocalInv, Local, JudgeLow, Existing, history
    <3>2. \A r \in Reports \ {tx[q].report} : report'[r] = report[r]
      BY <2>4 DEF LocalInv, TypeOK, JudgeLow
    <3>3. Change(tx[q].report)
      <4>1. CASE report[tx[q].report].status = "DRAFT"
        <5>1. report' = [report EXCEPT ![tx[q].report] =
                [report[tx[q].report] EXCEPT !.low = TRUE, !.status = "REJECTED"]]
          BY <2>4, <3>1, <4>1 DEF LocalInv, TypeOK, Row, JudgeLow
        <5> QED BY <3>1, <4>1, <5>1 DEF LocalInv, TypeOK, Row, Change
      <4>2. CASE report[tx[q].report].status /= "DRAFT"
        BY <2>4, <4>2 DEF JudgeLow, Change
      <4> QED BY <4>1, <4>2
    <3> QED BY <3>1, <3>2, <3>3 DEF Change
  <2>5. ASSUME NEW n \in Reports, WriteStatus(q, n) \/ CommitDerived(q, n)
        PROVE  lost \subseteq lost' /\ \A r \in Reports : Change(r)
    <3>1. Effect(q, n, report') /\ lost \subseteq lost' /\ Local(q) /\ pc[q] \in Writing
          /\ tx[q].report \in Reports /\ tx[q].seen \in Status \cup {"NONE"}
          /\ (report[tx[q].report].status = tx[q].seen \/ tx[q].report \in lost')
      BY <2>5, WriteRows DEF LocalInv, TypeOK, Memory
    <3>2. Change(tx[q].report)
      BY <3>1 DEF Effect, Local, Change
    <3>3. ASSUME NEW r \in Reports \ {tx[q].report} PROVE Change(r)
      <4>1. tx[q].born \in {"DRAFT", "SKIPPED"} =>
              Born(tx[q].born).status = tx[q].born /\ Born(tx[q].born).low = FALSE
        BY Constants
      <4> QED BY <3>1, <4>1 DEF Effect, Change
    <3> QED BY <3>1, <3>2, <3>3
  <2>6. (UNCHANGED report /\ lost \subseteq lost') \/ Continue(q)
        \/ \E born \in {"DRAFT", "SKIPPED"}, n \in Reports : BeginInsert(q, born, n)
    BY <2>1 DEF Start, BatchGenerates, OwnerGenerates, StartGeneration, Decide, LlmTimesOut,
                LlmFails, history
  <2>7. CASE Continue(q)
    BY <2>2, <2>4, <2>5, <2>7 DEF Continue, LockStatus, Derive, Abort, JudgeOtherwise, NoteLost,
                                  history
  <2> QED BY <2>2, <2>3, <2>6, <2>7
<1> QED BY <1>1, <1>2

\* A report goes on from draft to approved to published, is rejected or superseded,
\* and comes back from neither unless a decision overwrote a status it had not read
\* (assertStatusTransition, updateReportStatus).
THEOREM StatusMovesOnAlways == Spec => StatusMovesOn
<1>1. ASSUME LocalInv, [Next]_vars
      PROVE  \A r \in Reports : report'[r].status /= report[r].status =>
               (r \in lost') \/ Later(report[r].status, report'[r].status)
  BY <1>1, StepRows DEF Change, Allowed, Later, Targets
<1> QED BY <1>1, LocalAlways, PTL DEF Spec, StatusMovesOn

LEMMA LowStep == LocalInv /\ LowScoreIsRejected /\ [Next]_vars => LowScoreIsRejected'
<1> SUFFICES ASSUME LocalInv, LowScoreIsRejected, [Next]_vars, NEW r \in Reports, report'[r].low
             PROVE  \/ report'[r].status \in {"REJECTED", "SUPERSEDED"}
                    \/ r \in lost' /\ report'[r].status /= "DRAFT"
  BY DEF LowScoreIsRejected
<1>1. Change(r) /\ lost \subseteq lost'
  BY StepRows
<1> QED BY <1>1 DEF Change, LowScoreIsRejected, Allowed, Targets

\* A report the judge scored below the threshold is rejected, unless a decision that
\* had read it before overwrote that (persistJudgeOutcomeWithAutoReject).
THEOREM LowScoreIsRejectedAlways == Spec => []LowScoreIsRejected
<1>1. Init => LowScoreIsRejected
  BY DEF Init, LowScoreIsRejected, NoRow
<1> QED BY <1>1, LocalAlways, LowStep, PTL DEF Spec

-----------------------------------------------------------------------------
(* The pointer *)

\* The same reports are published, at the same times.
Steady(rows, new) == \A r \in Reports :
  /\ new[r].status = "PUBLISHED" <=> rows[r].status = "PUBLISHED"
  /\ new[r].status = "PUBLISHED" => new[r].published = rows[r].published

LEMMA SteadyNewest ==
  ASSUME NEW rows, NEW new, Steady(rows, new)
  PROVE  Newest(new) = Newest(rows)
<1>1. Published(new) = Published(rows) /\ \A r \in Published(rows) : new[r].published = rows[r].published
  BY DEF Steady, Published
<1> QED BY <1>1 DEF Newest

\* A transaction that derives no pointer changes no published report, unless it
\* overwrites a status unseen.
LEMMA EffectSteady ==
  ASSUME LocalInv, NEW q \in Requests, NEW n \in Reports, NEW new,
         pc[q] \in Writing, Effect(q, n, new), ~Derives(q), ~Overwrites(q)
  PROVE  Steady(report, new)
<1>1. TypeOK /\ Local(q) /\ tx[q].report \in Reports
  BY DEF LocalInv, Local, Existing
<1>2. \A born \in {"DRAFT", "SKIPPED"} : Born(born).status = born
  BY Constants
<1>3. new[tx[q].report].status /= "PUBLISHED" /\ report[tx[q].report].status /= "PUBLISHED"
  BY <1>1 DEF Derives, Overwrites, Local, Allowed, Targets, Effect
<1>4. ASSUME NEW r \in Reports \ {tx[q].report}
      PROVE  \/ new[r] = report[r]
             \/ new[r].status /= "PUBLISHED" /\ report[r].status /= "PUBLISHED"
  BY <1>2 DEF Effect
<1> QED BY <1>3, <1>4 DEF Steady

\* A report that is inserted is not published.
LEMMA InsertSteady ==
  ASSUME NEW rows \in [Reports -> Row], NEW n \in Reports, rows[n].status = "NONE",
         NEW born \in {"DRAFT", "SKIPPED"}
  PROVE  Steady(rows, [rows EXCEPT ![n] = Born(born)])
<1>1. Born(born).status = born
  BY Constants
<1> QED BY <1>1 DEF Steady

LEMMA CommitSteady ==
  ASSUME LocalInv, NEW q \in Requests, NEW n \in Reports, pc[q] \in Writing,
         tx[q].born = "NONE" \/ Free(n)
  PROVE  Steady(Applied(q), WithInsert(Applied(q), q, n))
<1>1. TypeOK /\ Local(q) /\ tx[q].born \in {"NONE", "DRAFT", "SKIPPED"}
      /\ tx[q].report \in Existing(report)
  BY DEF LocalInv, TypeOK, Memory, Local
<1>2. CASE tx[q].born = "NONE"
  BY <1>2 DEF WithInsert, Steady
<1>3. CASE tx[q].born \in {"DRAFT", "SKIPPED"}
  <2>1. n \notin Existing(report)
    BY <1>3, Constants DEF Free
  <2>2. Applied(q) \in [Reports -> Row] /\ Applied(q)[n] = report[n]
    BY <1>1, <2>1, AppliedEffect
  <2>3. Applied(q)[n].status = "NONE"
    BY <2>1, <2>2 DEF Existing
  <2>4. WithInsert(Applied(q), q, n) = [Applied(q) EXCEPT ![n] = Born(tx[q].born)]
    BY <1>3 DEF WithInsert
  <2> QED BY <1>3, <2>2, <2>3, <2>4, InsertSteady
<1> QED BY <1>1, <1>2, <1>3

\* Requests derive the same pointers from rows of which the same are published.
LEMMA OthersDerive ==
  ASSUME LocalInv, NEW q \in Requests, Alone(q), Gently(q), Steady(report, report'),
         report' \in [Reports -> Row], NEW o \in Requests \ {q}, pc[o] = "commit"
  PROVE  Newest(Applied(o)') = Newest(Applied(o))
<1> DEFINE p == tx[o].report
<1>1. TypeOK /\ Local(o) /\ pc[o] \in Writing /\ p \in Reports /\ tx'[o] = tx[o]
  BY DEF LocalInv, Local, Existing, Alone, Writing
<1>2. report'[p] = report[p]
  BY DEF Gently, Holding
<1>3. Applied(o) = [report EXCEPT ![p] =
        [report[p] EXCEPT !.status = tx[o].target,
                          !.published = IF tx[o].stamp = 0 THEN @ ELSE tx[o].stamp]]
  BY <1>1 DEF Applied, TypeOK, Row
<1>4. Applied(o)' = [report' EXCEPT ![p] =
        [report[p] EXCEPT !.status = tx[o].target,
                          !.published = IF tx[o].stamp = 0 THEN @ ELSE tx[o].stamp]]
  BY <1>1, <1>2 DEF Applied, TypeOK, Row
<1>5. Steady(Applied(o), Applied(o)')
  BY <1>1, <1>3, <1>4 DEF Steady, TypeOK
<1> QED BY <1>5, SteadyNewest

LEMMA PointerKeeps ==
  ASSUME LocalInv, PointerInv, NEW q \in Requests, Alone(q), Gently(q),
         report' \in [Reports -> Row], Steady(report, report'),
         UNCHANGED <<pointer, drifted>>, overtaken \ {q} \subseteq overtaken',
         pc'[q] = "commit" /\ q \notin overtaken' => tx'[q].newest = Newest(Applied(q)')
  PROVE  PointerInv'
<1>1. PointerIsNewest'
  BY SteadyNewest DEF PointerInv, PointerIsNewest
<1>2. ASSUME NEW o \in Requests \ {q}, pc'[o] = "commit", o \notin overtaken'
      PROVE  tx'[o].newest = Newest(Applied(o)')
  <2>1. pc[o] = "commit" /\ tx'[o] = tx[o] /\ o \notin overtaken
    BY <1>2 DEF Alone
  <2>2. Newest(Applied(o)') = Newest(Applied(o))
    BY <2>1, OthersDerive
  <2> QED BY <2>1, <2>2 DEF PointerInv
<1> QED BY <1>1, <1>2 DEF PointerInv

LEMMA PointerStep == LocalInv /\ PointerInv /\ [Next]_vars => PointerInv'
<1> SUFFICES ASSUME LocalInv, PointerInv, [Next]_vars PROVE PointerInv'
  OBVIOUS
<1> USE DEF history
<1>1. CASE UNCHANGED vars
  BY <1>1 DEF PointerInv, PointerIsNewest, Applied, vars
<1>2. CASE Next
  <2>1. PICK q \in Requests :
          \/ Start(q)
          \/ \E born \in {"DRAFT", "SKIPPED"}, n \in Reports : BeginInsert(q, born, n)
          \/ LlmTimesOut(q)
          \/ Continue(q)
    BY <1>2 DEF Next
  <2>2. Steady(report, report) /\ report \in [Reports -> Row]
    BY DEF Steady, LocalInv, TypeOK
  <2>3. CASE Start(q)
    <3>1. PICK label \in {"llm", "write"} : pc' = [pc EXCEPT ![q] = label]
      BY <2>3 DEF Start, BatchGenerates, OwnerGenerates, StartGeneration, Decide, Goto
    <3>2. Alone(q) /\ Gently(q) /\ pc'[q] /= "commit"
          /\ UNCHANGED <<report, pointer, drifted, overtaken>>
      BY <2>3, <3>1 DEF Start, BatchGenerates, OwnerGenerates, StartGeneration, Decide,
                        LocalInv, TypeOK, Alone, Gently
    <3> QED BY <2>2, <3>2, PointerKeeps
  <2>4. CASE LlmTimesOut(q) \/ Abort(q) \/ JudgeOtherwise(q)
    <3>1. Finish(q) /\ Gently(q) /\ UNCHANGED <<report, pointer, clock, lost, drifted, doubled>>
          /\ overtaken' \subseteq overtaken /\ overtaken \ {q} \subseteq overtaken'
      BY <2>4 DEF LlmTimesOut, LlmFails, Abort, JudgeOtherwise, Gently
    <3>2. Alone(q) /\ pc'[q] /= "commit"
      BY <3>1 DEF LocalInv, TypeOK, Finish, Goto, Alone
    <3> QED BY <2>2, <3>1, <3>2, PointerKeeps
  <2>5. ASSUME NEW born \in {"DRAFT", "SKIPPED"}, NEW n \in Reports, BeginInsert(q, born, n)
        PROVE  PointerInv'
    <3>1. Alone(q) /\ Gently(q) /\ report' \in [Reports -> Row]
      BY <2>5, BeginInsertLocal DEF LocalInv, TypeOK
    <3>2. report' = report \/ report' = [report EXCEPT ![n] = Born(born)]
      BY <2>5 DEF BeginInsert
    <3>3. report[n].status = "NONE"
      BY <2>5, InsertEffect DEF BeginInsert, LocalInv
    <3>4. Steady(report, report')
      BY <2>2, <3>2, <3>3, InsertSteady
    <3>5. pc'[q] /= "commit" /\ UNCHANGED <<pointer, drifted, overtaken>>
      BY <2>5 DEF BeginInsert, Goto, LocalInv, TypeOK
    <3> QED BY <3>1, <3>4, <3>5, PointerKeeps
  <2>6. CASE JudgeLow(q)
    <3>1. Alone(q) /\ Gently(q) /\ report' \in [Reports -> Row] /\ tx[q].report \in Reports
      BY <2>6, JudgeLowLocal DEF LocalInv, TypeOK, Local, JudgeLow, Existing
    <3>2. pc'[q] /= "commit" /\ UNCHANGED <<pointer, drifted, overtaken>>
      BY <2>6 DEF JudgeLow, Finish, Goto, LocalInv, TypeOK
    <3>3. CASE report[tx[q].report].status = "DRAFT"
      <4>1. report' = [report EXCEPT ![tx[q].report] =
              [report[tx[q].report] EXCEPT !.low = TRUE, !.status = "REJECTED"]]
        BY <2>6, <3>1, <3>3 DEF LocalInv, TypeOK, Row, JudgeLow
      <4>2. Steady(report, report')
        BY <3>1, <3>3, <4>1 DEF LocalInv, TypeOK, Row, Steady
      <4> QED BY <3>1, <3>2, <4>2, PointerKeeps
    <3>4. CASE report[tx[q].report].status /= "DRAFT"
      BY <2>2, <2>6, <3>1, <3>2, <3>4, PointerKeeps DEF JudgeLow
    <3> QED BY <3>3, <3>4
  <2>7. CASE LockStatus(q)
    <3>1. Alone(q) /\ Gently(q)
      BY <2>7, HoldLocal
    <3>2. pc'[q] /= "commit" /\ UNCHANGED <<report, pointer, drifted, overtaken>>
      BY <2>7 DEF LockStatus, Goto, LocalInv, TypeOK
    <3> QED BY <2>2, <3>1, <3>2, PointerKeeps
  <2>8. CASE Derive(q)
    <3>1. Alone(q) /\ Gently(q)
      BY <2>8, HoldLocal
    <3>2. UNCHANGED <<report, pointer, drifted, overtaken>>
          /\ tx'[q] = [tx[q] EXCEPT !.newest = Newest(Applied(q))] /\ tx[q] \in Memory
      BY <2>8 DEF Derive, LocalInv, TypeOK
    <3>3. /\ tx'[q].report = tx[q].report /\ tx'[q].target = tx[q].target
          /\ tx'[q].stamp = tx[q].stamp /\ tx'[q].newest = Newest(Applied(q))
      BY <3>2 DEF Memory
    <3>4. Applied(q)' = Applied(q)
      BY <3>2, <3>3 DEF Applied
    <3> QED BY <2>2, <3>1, <3>2, <3>3, <3>4, PointerKeeps
  <2>9. ASSUME NEW n \in Reports, WriteStatus(q, n) PROVE PointerInv'
    <3>1. Alone(q) /\ Gently(q) /\ report' \in [Reports -> Row]
      BY <2>9, WriteLocal DEF LocalInv, TypeOK
    <3>2. pc'[q] /= "commit" /\ UNCHANGED pointer
      BY <2>9 DEF WriteStatus, Committed, Goto, LocalInv, TypeOK
    <3>3. CASE Overwrites(q)
      <4>1. drifted' = TRUE /\ \A o \in Requests \ {q} : pc[o] = "commit" => o \in overtaken'
        BY <2>9, <3>3 DEF WriteStatus, Overtake
      <4> QED BY <3>1, <3>2, <4>1 DEF PointerInv, PointerIsNewest, Alone
    <3>4. CASE ~Overwrites(q)
      <4>1. Steady(report, report')
        BY <2>9, <3>4, WriteRows, EffectSteady DEF WriteStatus
      <4>2. UNCHANGED <<drifted, overtaken>>
        BY <2>9, <3>4 DEF WriteStatus
      <4> QED BY <3>1, <3>2, <4>1, <4>2, PointerKeeps
    <3> QED BY <3>3, <3>4
  <2>10. ASSUME NEW n \in Reports, CommitDerived(q, n) PROVE PointerInv'
    <3>1. Alone(q)
      BY <2>10, WriteLocal
    <3>2. pc'[q] /= "commit" /\ \A o \in Requests \ {q} : pc[o] = "commit" => o \in overtaken'
      BY <2>10 DEF CommitDerived, Committed, Goto, Overtake, LocalInv, TypeOK
    <3>3. q \notin overtaken => pointer' = Newest(report')
      <4>1. pointer' = tx[q].newest /\ report' = WithInsert(Applied(q), q, n) /\ pc[q] = "commit"
            /\ (tx[q].born = "NONE" \/ Free(n))
        BY <2>10 DEF CommitDerived, Committed
      <4>2. Newest(report') = Newest(Applied(q))
        BY <4>1, CommitSteady, SteadyNewest DEF Writing
      <4> QED BY <4>1, <4>2 DEF PointerInv
    <3>4. q \in overtaken => drifted'
      BY <2>10 DEF CommitDerived
    <3> QED BY <3>1, <3>2, <3>3, <3>4 DEF PointerInv, PointerIsNewest, Alone
  <2> QED BY <2>1, <2>3, <2>4, <2>5, <2>6, <2>7, <2>8, <2>9, <2>10 DEF Continue
<1> QED BY <1>1, <1>2

\* The community's pointer names the newest published report, unless a status was
\* overwritten or two derivations overlapped since it was last derived in peace
\* (recalculateCommunityLastPublished).
THEOREM PointerIsNewestAlways == Spec => []PointerIsNewest
<1>1. Init => PointerInv
  BY DEF Init, PointerInv, PointerIsNewest, Newest, Published, NoRow
<1>2. PointerInv => PointerIsNewest
  BY DEF PointerInv
<1> QED BY <1>1, <1>2, LocalAlways, PointerStep, PTL DEF Spec

-----------------------------------------------------------------------------
(* Live reports *)

\* As long as no status is lost, only an insertion makes a report live.
LEMMA LiveShrinks ==
  ASSUME \A r \in Reports : Change(r), lost' = {},
         \A r \in Reports : report[r].status = "NONE" => report'[r].status = "NONE"
  PROVE  Live(report') \subseteq Live(report)
  BY DEF Live, Existing, Change, Allowed, Targets

LEMMA LiveKeeps ==
  ASSUME LiveInv, NEW q \in Requests, Alone(q), lost \subseteq lost', doubled' = doubled,
         lost' = {} => Live(report') \subseteq Live(report),
         Generating(q)' => Generating(q) /\ tx'[q].report = tx[q].report
  PROVE  LiveInv'
<1> SUFFICES ASSUME ~doubled, lost' = {}
             PROVE  /\ \A r, s \in Live(report') : r = s
                    /\ \A o \in Requests : Generating(o)' => Live(report') \subseteq {tx'[o].report}
                    /\ \A o, u \in Requests : Generating(o)' /\ Generating(u)' => o = u
  BY DEF LiveInv
<1>1. \A o \in Requests : Generating(o)' => Generating(o) /\ tx'[o].report = tx[o].report
  BY DEF Alone, Generating
<1> QED BY <1>1 DEF LiveInv

\* A generation ends with the report it inserts in the place of the one it replaces.
LEMMA LiveReplaced ==
  ASSUME LiveInv, NEW q \in Requests, NEW n \in Reports, Alone(q), lost \subseteq lost',
         doubled' = doubled, Generating(q), ~Generating(q)',
         lost' = {} => Live(report') \subseteq {n}
  PROVE  LiveInv'
<1> SUFFICES ASSUME ~doubled, lost' = {}
             PROVE  /\ \A r, s \in Live(report') : r = s
                    /\ \A o \in Requests : Generating(o)' => Live(report') \subseteq {tx'[o].report}
                    /\ \A o, u \in Requests : Generating(o)' /\ Generating(u)' => o = u
  BY DEF LiveInv
<1>1. \A o \in Requests \ {q} : ~Generating(o)
  BY DEF LiveInv
<1>2. \A o \in Requests : ~Generating(o)'
  BY <1>1 DEF Alone, Generating
<1> QED BY <1>2

\* A generation that begins is the only one, and needed, or it is noted.
LEMMA LiveStart ==
  ASSUME LocalInv, LiveInv, NEW q \in Requests, NEW parent \in Reports \cup {0}, NEW needed,
         StartGeneration(q, parent, needed), needed => Live(report) \subseteq {parent}
  PROVE  LiveInv'
<1>1. pc'[q] = "llm" /\ tx'[q].report = parent /\ UNCHANGED <<report, lost>>
      /\ doubled' = (doubled \/ ~needed \/ \E o \in Requests : Generating(o))
  BY DEF StartGeneration, Goto, NoMemory, LocalInv, TypeOK
<1>2. Alone(q)
  BY DEF StartGeneration, Goto, LocalInv, TypeOK, Alone
<1> SUFFICES ASSUME ~doubled', lost' = {}
             PROVE  /\ \A r, s \in Live(report') : r = s
                    /\ \A o \in Requests : Generating(o)' => Live(report') \subseteq {tx'[o].report}
                    /\ \A o, u \in Requests : Generating(o)' /\ Generating(u)' => o = u
  BY DEF LiveInv
<1>3. ~doubled /\ needed /\ \A o \in Requests : ~Generating(o)
  BY <1>1
<1>4. \A o \in Requests : Generating(o)' => o = q
  BY <1>2, <1>3 DEF Alone, Generating
<1> QED BY <1>1, <1>3, <1>4 DEF LiveInv

LEMMA LiveStep == LocalInv /\ LiveInv /\ [Next]_vars => LiveInv'
<1> SUFFICES ASSUME LocalInv, LiveInv, [Next]_vars PROVE LiveInv'
  OBVIOUS
<1> USE DEF history
<1>0. lost \subseteq lost' /\ \A r \in Reports : Change(r)
  BY StepRows
<1>1. CASE UNCHANGED vars
  BY <1>1 DEF LiveInv, Generating, vars
<1>2. CASE Next
  <2>1. PICK q \in Requests :
          \/ Start(q)
          \/ \E born \in {"DRAFT", "SKIPPED"}, n \in Reports : BeginInsert(q, born, n)
          \/ LlmTimesOut(q)
          \/ Continue(q)
    BY <1>2 DEF Next
  <2>2. Local(q) /\ TypeOK
    BY DEF LocalInv
  <2>3. CASE Start(q)
    <3>1. CASE BatchGenerates(q)
      BY <3>1, LiveStart DEF BatchGenerates
    <3>2. ASSUME NEW parent \in Reports \cup {0}, OwnerGenerates(q, parent) PROVE LiveInv'
      BY <3>2, LiveStart DEF OwnerGenerates
    <3>3. ASSUME NEW r \in Reports, NEW target \in {"APPROVED", "PUBLISHED", "REJECTED"},
                 Decide(q, r, target)
          PROVE  LiveInv'
      <4>1. Alone(q) /\ UNCHANGED <<report, doubled>> /\ pc'[q] = "write"
            /\ tx'[q].target = target
        BY <2>2, <3>3 DEF Decide, Goto, TypeOK, Alone, NoMemory
      <4> QED BY <1>0, <4>1, LiveKeeps DEF Generating
    <3> QED BY <2>3, <3>1, <3>2, <3>3 DEF Start
  <2>4. CASE LlmTimesOut(q) \/ Abort(q) \/ JudgeOtherwise(q)
    <3>1. Finish(q) /\ UNCHANGED <<report, doubled>>
      BY <2>4 DEF LlmTimesOut, LlmFails, Abort, JudgeOtherwise
    <3>2. Alone(q) /\ pc'[q] = "idle" /\ tx'[q].target = "NONE"
      BY <2>2, <3>1 DEF TypeOK, Finish, Goto, Alone, NoMemory
    <3> QED BY <1>0, <3>1, <3>2, LiveKeeps DEF Generating
  <2>5. CASE JudgeLow(q)
    <3>1. Alone(q) /\ tx[q].report \in Existing(report) /\ Gently(q)
      BY <2>2, <2>5, JudgeLowLocal DEF Local, JudgeLow
    <3>2. pc'[q] = "idle" /\ tx'[q].target = "NONE" /\ UNCHANGED doubled
      BY <2>2, <2>5 DEF TypeOK, JudgeLow, Finish, Goto, NoMemory
    <3>3. \A r \in Reports : report[r].status = "NONE" => report'[r].status = "NONE"
      BY <2>2, <2>5, <3>1 DEF TypeOK, JudgeLow, Existing
    <3> QED BY <1>0, <3>1, <3>2, <3>3, LiveShrinks, LiveKeeps DEF Generating
  <2>6. CASE LockStatus(q) \/ Derive(q)
    <3>1. Alone(q) /\ UNCHANGED <<report, doubled>>
      BY <2>6, HoldLocal DEF LockStatus, Derive
    <3>2. pc'[q] \in Holding /\ tx'[q].report = tx[q].report /\ tx'[q].target = tx[q].target
      BY <2>2, <2>6 DEF LockStatus, Derive, Goto, TypeOK, Memory, Holding
    <3> QED BY <1>0, <3>1, <3>2, LiveKeeps DEF Generating, Holding
  <2>7. ASSUME NEW born \in {"DRAFT", "SKIPPED"}, NEW n \in Reports, BeginInsert(q, born, n)
        PROVE  LiveInv'
    <3> DEFINE p == tx[q].report
               Now == p = 0 \/ (p \in Reports /\ report[p].status = "SUPERSEDED")
    <3>1. Alone(q) /\ UNCHANGED <<lost, doubled>> /\ pc[q] = "llm" /\ Generating(q)
      BY <2>7, BeginInsertLocal DEF BeginInsert, Generating
    <3>2. CASE Now
      <4>1. report' = [report EXCEPT ![n] = Born(born)] /\ tx'[q] = Kept(born, n)
            /\ pc'[q] \in {"judge", "idle"}
        BY <2>2, <2>7, <3>2 DEF BeginInsert, Goto, TypeOK
      <4>2. ~Generating(q)'
        BY <4>1 DEF Generating, Kept, NoMemory
      <4>3. ~doubled /\ lost = {} => Live(report) = {}
        <5>1. ~doubled /\ lost = {} => Live(report) \subseteq {p}
          BY <3>1 DEF LiveInv
        <5>2. p \notin Live(report)
          BY <3>2, Constants DEF Live, Existing
        <5> QED BY <5>1, <5>2
      <4>4. \A r \in Reports \ {n} : report'[r] = report[r]
        BY <2>2, <4>1 DEF TypeOK
      <4>5. ~doubled /\ lost = {} => Live(report') \subseteq {n}
        BY <4>3, <4>4 DEF Live, Existing
      <4>6. CASE ~doubled
        BY <3>1, <4>2, <4>5, <4>6, LiveReplaced
      <4>7. CASE doubled
        BY <3>1, <4>7 DEF LiveInv
      <4> QED BY <4>6, <4>7
    <3>3. CASE ~Now
      <4>1. UNCHANGED report /\ tx'[q] = [tx[q] EXCEPT !.target = "SUPERSEDED", !.born = born,
                                                     !.seen = report[p].status]
        BY <2>2, <2>7, <3>3 DEF BeginInsert, TypeOK, Memory
      <4>2. tx'[q].report = p
        BY <2>2, <4>1 DEF TypeOK, Memory
      <4> QED BY <1>0, <3>1, <4>1, <4>2, LiveKeeps
    <3> QED BY <3>2, <3>3
  <2>8. ASSUME NEW n \in Reports, WriteStatus(q, n) \/ CommitDerived(q, n) PROVE LiveInv'
    <3>1. Alone(q) /\ UNCHANGED doubled /\ Effect(q, n, report') /\ pc[q] \in Writing
          /\ tx[q].report \in Reports
      BY <2>8, WriteLocal, WriteRows DEF WriteStatus, CommitDerived
    <3>2. pc'[q] \in {"judge", "idle"} /\ tx'[q] = Kept(tx[q].born, n)
      BY <2>2, <2>8 DEF WriteStatus, CommitDerived, Committed, Goto, TypeOK
    <3>3. ~Generating(q)'
      BY <3>2 DEF Generating, Kept, NoMemory
    <3>4. CASE tx[q].born = "NONE"
      <4>1. \A r \in Reports : report[r].status = "NONE" => report'[r].status = "NONE"
        BY <2>2, <3>1, <3>4 DEF Effect, Local, Existing
      <4> QED BY <1>0, <3>1, <3>3, <4>1, LiveShrinks, LiveKeeps
    <3>5. CASE tx[q].born /= "NONE"
      <4>1. Generating(q) /\ report'[tx[q].report].status = "SUPERSEDED"
        BY <2>2, <3>1, <3>5 DEF Local, Generating, Effect
      <4>2. \A r \in Reports \ {tx[q].report, n} : report'[r] = report[r]
        BY <3>1 DEF Effect
      <4>3. ~doubled /\ lost' = {} => Live(report') \subseteq {n}
        <5>1. ~doubled /\ lost' = {} => Live(report) \subseteq {tx[q].report}
          BY <1>0, <4>1 DEF LiveInv
        <5> QED BY <4>1, <4>2, <5>1 DEF Live, Existing
      <4>4. CASE ~doubled
        BY <1>0, <3>1, <3>3, <4>1, <4>3, <4>4, LiveReplaced
      <4>5. CASE doubled
        BY <3>1, <4>5 DEF LiveInv
      <4> QED BY <4>4, <4>5
    <3> QED BY <3>4, <3>5
  <2> QED BY <2>1, <2>3, <2>4, <2>5, <2>6, <2>7, <2>8 DEF Continue
<1> QED BY <1>1, <1>2

\* The week has one report at most that is neither rejected nor superseded, unless a
\* second generation was asked for or a decision overwrote a status
\* (generateWeeklyReports, supersedeParentIfRegenerating).
THEOREM OneLiveReportAlways == Spec => []OneLiveReport
<1>1. Init => LiveInv
  BY DEF Init, LiveInv, Live, Existing, NoRow, Generating, NoMemory
<1>2. ASSUME LiveInv PROVE OneLiveReport
  <2> SUFFICES ASSUME \A r, s \in Live(report) : r = s PROVE Cardinality(Live(report)) <= 1
    BY <1>2 DEF LiveInv, OneLiveReport
  <2>1. CASE Live(report) = {}
    BY <2>1, FS_EmptySet
  <2>2. CASE \E r \in Live(report) : TRUE
    <3>1. PICK r : Live(report) = {r}
      BY <2>2
    <3>2. Cardinality(Live(report)) = 1
      BY <3>1, FS_Singleton
    <3> QED BY <3>2
  <2> QED BY <2>1, <2>2
<1> QED BY <1>1, <1>2, LocalAlways, LiveStep, PTL DEF Spec

-----------------------------------------------------------------------------
(* Votes: the invariant *)

\* Ballots of b that name option o, and the sum of their powers.
Of(b, o) == {u \in Users : b[u].option = o}
CastWriting == {"first", "second"}

\* What a cast has in hand.  What it read of its ballot is right unless the row of
\* the user or of the option has gone, which the upsert will find.
CastLocal(c) ==
  /\ votePc[c] \in {"idle", "find", "upsert"} \cup CastWriting
  /\ votePc[c] /= "idle" => cast[c].user \in Users /\ cast[c].option \in Ids
  /\ votePc[c] \in {"upsert"} \cup CastWriting => cast[c].power \in 1..MaxWeight
  /\ votePc[c] = "upsert" =>
       \/ cast[c].old = ballot[cast[c].user]
       \/ cast[c].user \in gone
       \/ cast[c].option \notin options
  /\ votePc[c] \in CastWriting =>
       /\ cast[c].old = ballot[cast[c].user] /\ Rows(c) /= <<>>
       /\ cast[c].user \notin gone /\ cast[c].option \in options
       /\ cast[c].old.option /= cast[c].option => Delete(cast[c].option) = {}
  /\ votePc[c] = "second" => Moves(c)

\* The lock of a user and topic keeps two casts of a user apart.
VotersApart == \A c, d \in Casts :
  votePc[c] /= "idle" /\ votePc[d] /= "idle" /\ cast[c].user = cast[d].user => c = d

\* What an edit or deletion has in hand.
EditLocal(m) ==
  /\ votePc[m] \in {"idle", "topic", "options", "ballots"}
  /\ votePc[m] = "idle" => edit[m] = NoPlan
  /\ votePc[m] /= "idle" => edit[m].kind \in {"edit", "delete"}
  /\ votePc[m] \in {"idle", "topic"} => edit[m].held = {}
  /\ votePc[m] = "options" => edit[m].held \subseteq options /\ edit[m].held /= options
  /\ votePc[m] = "ballots" => edit[m].held = options /\ options /= {}
  /\ votePc[m] /= "idle" /\ ~edit[m].late => phase = "upcoming"

OneHolder == \A m, n \in HoldTopic : m = n

\* The options come from one edit, and there is room for the edits under way.
Editing == {m \in Managers : edit[m].kind = "edit"}
EditsFit ==
  /\ options = {} \/ \E n \in 0..MaxEdits : options = Batch(n)
  /\ IsFiniteSet(Editing)
  /\ options /= {} => Edits + Cardinality(Editing) =< MaxEdits

\* Options that are referred to are not younger than the latest.
Past(o) == options = {} \/ \E p \in options : o =< p
PastOptions ==
  /\ \A c \in Casts : votePc[c] /= "idle" => Past(cast[c].option)
  /\ \A u \in Users : Past(ghost[u].option)

BallotRows == \A u \in Users :
  /\ ballot[u].option \in options \cup {0}
  /\ u \in gone => ballot[u] = NoBallot
  /\ u \notin gone => ghost[u] = NoBallot

\* Before the topic opens there are no ballots, and no cast has a ballot to write.
BeforeOpening == phase = "upcoming" =>
  \A c \in Casts : votePc[c] /= "idle" => votePc[c] \notin CastWriting /\ cast[c].option \notin options

\* The counts and the powers, as sums over the ballots.
Count(b, o) == Cardinality(Of(b, o))
Power(b, o) == Total([u \in Users |-> b[u].power], Of(b, o))
Tallied ==
  /\ \A o \in Ids : IsFiniteSet(Of(ballot, o)) /\ IsFiniteSet(Of(ghost, o))
  /\ \A o \in options : /\ tally[o].count = Count(ballot, o) + Count(ghost, o)
                        /\ tally[o].power = Power(ballot, o) + Power(ghost, o)

VoteInv ==
  /\ VoteTypeOK
  /\ \A c \in Casts : CastLocal(c)
  /\ \A m \in Managers : EditLocal(m)
  /\ VotersApart /\ OneHolder /\ EditsFit /\ PastOptions /\ BallotRows /\ BeforeOpening
  /\ OpensEmpty /\ Tallied

-----------------------------------------------------------------------------
(* Options, ballots and their sums *)

LEMMA BatchFacts ==
  ASSUME NEW n \in Nat
  PROVE  /\ Batch(n) \subseteq Nat \ {0} /\ Batch(n) /= {}
         /\ \A p \in Batch(n), q \in Batch(n + 1) : p < q
         /\ n =< MaxEdits => Batch(n) \subseteq Ids
<1> DEFINE k == OptionsPerTopic
           a == k * n
           z == k * (MaxEdits + 1)
<1>1. k \in Nat /\ k > 0 /\ MaxEdits \in Nat
  BY OptionAssumption, LimitAssumption
<1>2. a \in Nat /\ k * (n + 1) = a + k /\ k * (n + 1 + 1) = a + k + k
  BY <1>1
<1>3. z \in Int /\ (n =< MaxEdits => a + k =< z)
  BY <1>1
<1>4. Batch(n) = (a + 1)..(a + k) /\ Batch(n + 1) = (a + k + 1)..(a + k + k) /\ Ids = 1..z
  BY <1>2 DEF Batch, Ids
<1> HIDE DEF k, a, z
<1>5. a + 1 \in Batch(n)
  BY <1>1, <1>2, <1>4
<1>6. Batch(n) \subseteq Nat \ {0}
  BY <1>1, <1>2, <1>4
<1>7. \A p \in Batch(n), q \in Batch(n + 1) : p < q
  BY <1>1, <1>2, <1>4
<1>8. n =< MaxEdits => Batch(n) \subseteq Ids
  <2> SUFFICES ASSUME n =< MaxEdits, NEW p \in Batch(n) PROVE p \in Ids
    OBVIOUS
  <2>1. a + k =< z
    BY <1>3
  <2> QED BY <1>1, <1>2, <1>3, <1>4, <2>1
<1> QED BY <1>5, <1>6, <1>7, <1>8

LEMMA MaxOfBatch ==
  ASSUME NEW n \in Nat
  PROVE  (Max(Batch(n)) \div OptionsPerTopic) - 1 = n
<1> DEFINE k == OptionsPerTopic
           a == k * (n + 1)
           M(x) == x \in Batch(n) /\ \A y \in Batch(n) : x >= y
<1>1. k \in Nat /\ k > 0
  BY OptionAssumption
<1>2. a \in Nat /\ k * n \in Nat /\ a = k * n + k
  BY <1>1
<1>3. Batch(n) = (k * n + 1)..a
  BY DEF Batch
<1>4. Max(Batch(n)) = CHOOSE x : M(x)
  BY DEF Max
<1>5. M(a)
  <2> HIDE DEF a, k
  <2> QED BY <1>1, <1>2, <1>3
<1>6. \A x : M(x) => x = a
  <2> HIDE DEF a, k
  <2> QED BY <1>2, <1>3, <1>5
<1>7. Max(Batch(n)) = a
  BY <1>4, <1>5, <1>6
<1>8. a \div k = n + 1
  BY <1>1, <1>2
<1> QED BY <1>7, <1>8

LEMMA EditsOfBatch ==
  ASSUME NEW n \in Nat, options = Batch(n)
  PROVE  Edits = n
BY MaxOfBatch DEF Edits

\* What a ballot adds to an option
One(r, o) == IF r.option = o THEN 1 ELSE 0
Weight(r, o) == IF r.option = o THEN r.power ELSE 0

\* Changing one ballot of b takes its old value from one option and adds the new
\* one to another.
LEMMA Recast ==
  ASSUME NEW b \in [Users -> Ballot], NEW u \in Users, NEW n \in Ballot, NEW o \in Ids,
         IsFiniteSet(Of(b, o)), NEW c, c = [b EXCEPT ![u] = n]
  PROVE  /\ IsFiniteSet(Of(c, o))
         /\ Count(b, o) \in Nat /\ Power(b, o) \in Int
         /\ b[u].option = o => Count(b, o) > 0
         /\ Count(c, o) = Count(b, o) - One(b[u], o) + One(n, o)
         /\ Power(c, o) = Power(b, o) - Weight(b[u], o) + Weight(n, o)
<1> DEFINE R == Of(b, o) \ {u}
           f == [v \in Users |-> b[v].power]
           g == [v \in Users |-> c[v].power]
<1>1. /\ IsFiniteSet(R) /\ IsFiniteSet(R \cup {u})
      /\ Cardinality(R) \in Nat /\ Cardinality(R \cup {u}) = Cardinality(R) + 1
  BY FS_RemoveElement, FS_AddElement, FS_CardinalityType
<1>2. /\ Of(b, o) = IF b[u].option = o THEN R \cup {u} ELSE R
      /\ Of(c, o) = IF n.option = o THEN R \cup {u} ELSE R
  BY DEF Of
<1>3. /\ \A v \in Users : f[v] \in Int /\ g[v] \in Int
      /\ \A v \in R : f[v] = g[v] /\ v \in Users
      /\ f[u] = b[u].power /\ g[u] = n.power /\ u \notin R
  <2>1. MaxWeight \in Nat
    BY LimitAssumption
  <2>2. \A r \in Ballot : r.power \in Int
    BY <2>1 DEF Ballot
  <2> QED BY <2>2 DEF Of
<1>4. Power(b, o) = Total(f, Of(b, o)) /\ Power(c, o) = Total(g, Of(c, o))
  BY DEF Power
<1> HIDE DEF R, f, g
<1>5. Total(f, R) \in Int /\ Total(f, R) = Total(g, R)
  BY <1>1, <1>3, TotalInt, TotalAgree
<1>6. Total(f, R \cup {u}) = f[u] + Total(f, R) /\ Total(g, R \cup {u}) = g[u] + Total(g, R)
  BY <1>1, <1>3, TotalAdd
<1>7. f[u] \in Int /\ g[u] \in Int
  BY <1>3
<1> QED BY <1>1, <1>2, <1>3, <1>4, <1>5, <1>6, <1>7 DEF Count, One, Weight

LEMMA BallotFacts ==
  /\ Ids \subseteq Nat \ {0} /\ MaxWeight \in Nat /\ NoBallot \in Ballot
  /\ \A r \in Ballot : /\ r.option \in Ids \cup {0} /\ r.power \in 0..MaxWeight
                       /\ r.option = 0 <=> r = NoBallot
  /\ \A o \in Ids, w \in 1..MaxWeight : [option |-> o, power |-> w] \in Ballot
  /\ NoCast \in CastMemory /\ NoPlan \in Plan
<1>1. Ids \subseteq Nat \ {0} /\ MaxWeight \in Nat /\ MaxWeight > 0
  <2>1. OptionsPerTopic * (MaxEdits + 1) \in Int
    BY OptionAssumption, LimitAssumption
  <2> QED BY <2>1, LimitAssumption DEF Ids
<1>2. NoBallot \in Ballot
  BY DEF NoBallot, Ballot
<1>3. ASSUME NEW r \in Ballot
      PROVE  /\ r.option \in Ids \cup {0} /\ r.power \in 0..MaxWeight
             /\ r.option = 0 <=> r = NoBallot
  BY <1>1 DEF Ballot, NoBallot
<1>4. \A o \in Ids, w \in 1..MaxWeight : [option |-> o, power |-> w] \in Ballot
  BY DEF Ballot
<1>5. NoCast \in CastMemory /\ NoPlan \in Plan
  BY <1>1, <1>2 DEF NoCast, CastMemory, NoPlan, Plan
<1> QED BY <1>1, <1>2, <1>3, <1>4, <1>5

LEMMA OptionNat == \A r \in Ballot : r.option \in Nat
<1> SUFFICES ASSUME NEW r \in Ballot PROVE r.option \in Nat
  OBVIOUS
<1>1. Ids \subseteq Nat
  BY BallotFacts
<1>2. r.option \in Ids \cup {0}
  BY BallotFacts
<1>3. CASE r.option = 0
  BY <1>3
<1>4. CASE r.option \in Ids
  BY <1>1, <1>4
<1> QED BY <1>2, <1>3, <1>4

LEMMA SumsAreNat ==
  ASSUME NEW b \in [Users -> Ballot], NEW o \in Ids, IsFiniteSet(Of(b, o))
  PROVE  Count(b, o) \in Nat /\ Power(b, o) \in Nat
<1> DEFINE f == [v \in Users |-> b[v].power]
<1>1. \A v \in Of(b, o) : f[v] \in Nat
  BY BallotFacts DEF Of
<1>2. Power(b, o) = Total(f, Of(b, o))
  BY DEF Power
<1> HIDE DEF f
<1>3. Total(f, {}) =< Total(f, Of(b, o)) /\ Total(f, Of(b, o)) \in Int
  BY <1>1, TotalMonotone, TotalInt
<1> QED BY <1>2, <1>3, TotalOfNone, FS_CardinalityType DEF Count

\* The rows a cast writes, in the order of their ids.
LEMMA RowsFacts ==
  ASSUME VoteTypeOK, NEW c \in Casts
  PROVE  /\ Rows(c) = <<>> => /\ cast[c].old.option = cast[c].option
                              /\ cast[c].old.power = cast[c].power
         /\ ~Moves(c) /\ Rows(c) /= <<>> => Len(Rows(c)) = 1
         /\ Moves(c) /\ cast[c].option \in Ids =>
              /\ Rows(c)[1] \in Ids /\ Rows(c)[2] \in Ids /\ Rows(c)[1] < Rows(c)[2]
<1>1. cast[c] \in CastMemory
  BY DEF VoteTypeOK
<1>2. /\ cast[c].old \in Ballot /\ cast[c].old.option \in Ids \cup {0}
      /\ Ids \subseteq Nat \ {0}
  BY <1>1, BallotFacts DEF CastMemory
<1>3. CASE Moves(c)
  <2> DEFINE a == cast[c].old.option
             b == cast[c].option
  <2>1. Rows(c) = IF a < b THEN <<a, b>> ELSE <<b, a>>
    BY <1>3 DEF Rows
  <2>2. a \in Ids /\ a /= b
    BY <1>2, <1>3 DEF Moves
  <2> HIDE DEF a, b
  <2>3. Rows(c) /= <<>>
    BY <2>1
  <2>4. b \in Ids => Rows(c)[1] \in Ids /\ Rows(c)[2] \in Ids /\ Rows(c)[1] < Rows(c)[2]
    <3>1. CASE a < b
      BY <2>1, <2>2, <3>1
    <3>2. CASE ~(a < b)
      BY <1>2, <2>1, <2>2, <3>2
    <3> QED BY <3>1, <3>2
  <2> QED BY <1>3, <2>3, <2>4 DEF b
<1>4. CASE ~Moves(c)
  BY <1>2, <1>4 DEF Rows
<1> QED BY <1>3, <1>4

\* A step of a cast that writes no row keeps the invariant if what it has in hand
\* then is right.
LEMMA CastMoves ==
  ASSUME VoteInv, NEW c \in Casts,
         UNCHANGED <<topic, ballot, gone, edit, ghost>>,
         NEW label \in {"idle", "find", "upsert", "first", "second"}, VoteGoto(c, label),
         NEW r \in CastMemory, cast' = [cast EXCEPT ![c] = r],
         CastLocal(c)',
         label /= "idle" =>
           /\ Past(r.option)
           /\ \A d \in Casts \ {c} : votePc[d] /= "idle" => cast[d].user /= r.user
           /\ phase = "upcoming" => label \notin CastWriting /\ r.option \notin options
  PROVE  VoteInv'
<1>1. /\ votePc'[c] = label /\ cast'[c] = r
      /\ \A d \in Casts \ {c} : votePc'[d] = votePc[d] /\ cast'[d] = cast[d]
      /\ \A m \in Managers : votePc'[m] = votePc[m] /\ edit'[m] = edit[m]
      /\ phase' = phase /\ options' = options /\ tally' = tally /\ edit' = edit
      /\ ballot' = ballot /\ gone' = gone /\ ghost' = ghost
  BY ActorAssumption DEF VoteInv, VoteTypeOK, VoteGoto, topic
<1>2. VoteTypeOK'
  BY <1>1 DEF VoteInv, VoteTypeOK, VoteGoto
<1>3. ASSUME NEW d \in Casts PROVE CastLocal(d)'
  <2>1. CASE d /= c
    <3>1. CastLocal(d)
      BY DEF VoteInv
    <3> QED BY <1>1, <2>1, <3>1 DEF CastLocal, Rows, Moves, Delete
  <2> QED BY <2>1
<1>4. ASSUME NEW m \in Managers PROVE EditLocal(m)'
  BY <1>1 DEF VoteInv, EditLocal
<1>5. VotersApart'
  BY <1>1 DEF VoteInv, VotersApart
<1>6. OneHolder'
  BY <1>1 DEF VoteInv, OneHolder, HoldTopic
<1>7. EditsFit'
  BY <1>1 DEF VoteInv, EditsFit, Edits, Editing
<1>8. PastOptions'
  BY <1>1 DEF VoteInv, PastOptions, Past
<1>9. BallotRows' /\ OpensEmpty'
  BY <1>1 DEF VoteInv, BallotRows, OpensEmpty
<1>10. BeforeOpening'
  BY <1>1 DEF VoteInv, BeforeOpening
<1>11. Tallied'
  BY <1>1 DEF VoteInv, Tallied
<1> QED BY <1>2, <1>3, <1>4, <1>5, <1>6, <1>7, <1>8, <1>9, <1>10, <1>11 DEF VoteInv

LEMMA PastOfOptions == VoteTypeOK => \A o \in options \cup {0} : Past(o)
<1> SUFFICES ASSUME VoteTypeOK, NEW o \in options \cup {0} PROVE Past(o)
  OBVIOUS
<1>1. options \subseteq Nat \ {0}
  BY BallotFacts DEF VoteTypeOK
<1> QED BY <1>1 DEF Past

LEMMA BeginKeeps ==
  ASSUME VoteInv, NEW c \in Casts, NEW u \in Users, NEW o \in Ids, BeginCast(c, u, o)
  PROVE  VoteInv'
<1> DEFINE r == [NoCast EXCEPT !.user = u, !.option = o]
<1>1. /\ cast' = [cast EXCEPT ![c] = r] /\ VoteGoto(c, "find")
      /\ UNCHANGED <<topic, ballot, gone, edit, ghost>>
      /\ VoteLock(u) /\ Open /\ o \in options
  BY DEF BeginCast
<1>2. r \in CastMemory /\ r.user = u /\ r.option = o
  BY BallotFacts DEF NoCast, CastMemory
<1>3. cast'[c] = r /\ votePc'[c] = "find"
  BY <1>1, ActorAssumption DEF VoteInv, VoteTypeOK, VoteGoto
<1>4. CastLocal(c)'
  BY <1>2, <1>3 DEF CastLocal, CastWriting
<1>5. Past(o)
  BY <1>1, PastOfOptions DEF VoteInv
<1>6. phase /= "upcoming"
  BY <1>1 DEF Open
<1> HIDE DEF r
<1> QED BY <1>1, <1>2, <1>4, <1>5, <1>6, CastMoves DEF VoteLock

LEMMA FindKeeps ==
  ASSUME VoteInv, NEW c \in Casts, NEW w \in 0..MaxWeight, FindBallot(c, w)
  PROVE  VoteInv'
<1> DEFINE r == [cast[c] EXCEPT !.power = w, !.old = ballot[cast[c].user]]
<1>1. cast[c] \in CastMemory /\ votePc[c] = "find" /\ CastLocal(c) /\ w > 0
  BY DEF VoteInv, VoteTypeOK, FindBallot, Eligible
<1>2. cast' = [cast EXCEPT ![c] = r] /\ VoteGoto(c, "upsert")
  BY <1>1 DEF FindBallot, VoteInv, VoteTypeOK
<1>3. UNCHANGED <<topic, ballot, gone, edit, ghost>>
  BY DEF FindBallot
<1>4. cast[c].user \in Users /\ cast[c].option \in Ids /\ ballot[cast[c].user] \in Ballot
  BY <1>1 DEF CastLocal, VoteInv, VoteTypeOK
<1>5. /\ r \in CastMemory /\ r.user = cast[c].user /\ r.option = cast[c].option
      /\ r.power = w /\ r.old = ballot[cast[c].user]
  BY <1>1, <1>4 DEF CastMemory
<1>6. cast'[c] = r /\ votePc'[c] = "upsert" /\ ballot' = ballot
  BY <1>2, <1>3, ActorAssumption DEF VoteInv, VoteTypeOK, VoteGoto
<1> HIDE DEF r
<1>7. CastLocal(c)'
  <2>1. w \in 1..MaxWeight
    BY <1>1, BallotFacts
  <2> QED BY <1>4, <1>5, <1>6, <2>1 DEF CastLocal, CastWriting
<1>8. Past(r.option)
  BY <1>1, <1>5 DEF VoteInv, PastOptions
<1>9. \A d \in Casts \ {c} : votePc[d] /= "idle" => cast[d].user /= r.user
  BY <1>1, <1>5 DEF VoteInv, VotersApart
<1>10. phase = "upcoming" => r.option \notin options
  BY <1>1, <1>5 DEF VoteInv, BeforeOpening
<1>11. "upsert" \notin CastWriting
  BY DEF CastWriting
<1> QED BY <1>2, <1>3, <1>5, <1>7, <1>8, <1>9, <1>10, <1>11, CastMoves

LEMMA DropCastKeeps ==
  ASSUME VoteInv, NEW c \in Casts, DropCast(c)
  PROVE  VoteInv'
<1>1. /\ VoteGoto(c, "idle") /\ cast' = [cast EXCEPT ![c] = NoCast] /\ NoCast \in CastMemory
      /\ UNCHANGED <<topic, ballot, gone, edit, ghost>>
  BY BallotFacts DEF DropCast
<1>2. cast'[c] = NoCast /\ votePc'[c] = "idle"
  BY <1>1, ActorAssumption DEF VoteInv, VoteTypeOK, VoteGoto
<1>3. CastLocal(c)'
  BY <1>2 DEF CastLocal, CastWriting
<1> QED BY <1>1, <1>3, CastMoves

\* What a cast that is about to write a row knows
Ready(c) ==
  /\ cast[c].user \in Users /\ cast[c].option \in Ids /\ cast[c].power \in 1..MaxWeight
  /\ cast[c].old = ballot[cast[c].user]
  /\ cast[c].user \notin gone /\ cast[c].option \in options
  /\ phase /= "upcoming"

LEMMA ReadyFacts ==
  ASSUME VoteInv, NEW c \in Casts,
         \/ votePc[c] \in CastWriting
         \/ votePc[c] = "upsert" /\ cast[c].option \in options /\ cast[c].user \notin gone
  PROVE  Ready(c)
<1>1. CastLocal(c) /\ votePc[c] /= "idle"
  BY DEF VoteInv, CastWriting
<1>2. phase /= "upcoming"
  BY <1>1 DEF VoteInv, BeforeOpening
<1> QED BY <1>1, <1>2 DEF CastLocal, Ready, CastWriting

\* Taking the first or the second row
LEMMA WriteKeeps ==
  ASSUME VoteInv, NEW c \in Casts, Ready(c), votePc[c] \in {"upsert", "first"},
         NEW label \in CastWriting, VoteGoto(c, label),
         UNCHANGED <<topic, ballot, gone, cast, edit, ghost>>,
         Rows(c) /= <<>>, label = "second" => Moves(c),
         cast[c].old.option /= cast[c].option => Delete(cast[c].option) = {}
  PROVE  VoteInv'
<1> DEFINE r == cast[c]
<1>1. r \in CastMemory /\ cast' = [cast EXCEPT ![c] = r] /\ cast' = cast
  BY DEF VoteInv, VoteTypeOK
<1>2. votePc'[c] = label
  BY ActorAssumption DEF VoteInv, VoteTypeOK, VoteGoto
<1>3. /\ ballot' = ballot /\ gone' = gone /\ options' = options
      /\ Rows(c)' = Rows(c) /\ Moves(c)' = Moves(c) /\ Delete(r.option)' = Delete(r.option)
  BY DEF topic, Rows, Moves, Delete
<1>4. CastLocal(c)'
  BY <1>1, <1>2, <1>3 DEF CastLocal, CastWriting, Ready
<1>5. /\ label \in {"idle", "find", "upsert", "first", "second"}
      /\ UNCHANGED <<topic, ballot, gone, edit, ghost>> /\ phase /= "upcoming"
  BY DEF CastWriting, Ready
<1>6. Past(r.option)
  BY PastOfOptions DEF VoteInv, Ready
<1>7. \A d \in Casts \ {c} : votePc[d] /= "idle" => cast[d].user /= r.user
  BY DEF VoteInv, VotersApart
<1> HIDE DEF r
<1> QED BY <1>1, <1>4, <1>5, <1>6, <1>7, CastMoves

\* The counts of a commit: the old ballot is taken from one option and the new one
\* added to another.
LEMMA CountedFacts ==
  ASSUME VoteTypeOK, NEW c \in Casts, NEW n \in Ballot, NEW old \in Ballot, NEW T, n.option \in Ids,
         cast[c].option = n.option, cast[c].power = n.power, cast[c].old = old, T = Counted(c)
  PROVE  /\ T \in [Ids -> [count: Int, power: Int]]
         /\ \A o \in Ids :
              /\ T[o].count = tally[o].count - One(old, o) + One(n, o)
              /\ T[o].power = tally[o].power - Weight(old, o) + Weight(n, o)
<1>1. /\ tally \in [Ids -> [count: Nat, power: Nat]] /\ n.power \in Int /\ old.power \in Int
      /\ 0 \notin Ids /\ old.option \in Ids \cup {0}
  BY BallotFacts DEF VoteTypeOK
<1>2. old = NoBallot <=> old.option = 0
  BY BallotFacts
<1>3. CASE old.option = 0
  <2>1. T = [tally EXCEPT ![n.option].count = @ + 1, ![n.option].power = @ + n.power]
    BY <1>1, <1>2, <1>3 DEF Counted
  <2> QED BY <1>1, <1>3, <2>1 DEF One, Weight
<1>4. CASE old.option /= 0
  <2> DEFINE taken == [tally EXCEPT ![old.option].count = @ - 1, ![old.option].power = @ - old.power]
  <2>1. T = [taken EXCEPT ![n.option].count = @ + 1, ![n.option].power = @ + n.power]
    BY <1>1, <1>2, <1>4 DEF Counted
  <2>2. taken \in [Ids -> [count: Int, power: Int]] /\ old.option \in Ids
    BY <1>1, <1>4
  <2>3. \A o \in Ids :
          /\ taken[o].count = tally[o].count - One(old, o)
          /\ taken[o].power = tally[o].power - Weight(old, o)
    BY <1>1, <2>2 DEF One, Weight
  <2> HIDE DEF taken
  <2>4. T \in [Ids -> [count: Int, power: Int]]
    BY <1>1, <2>1, <2>2
  <2> QED BY <1>1, <2>1, <2>2, <2>3, <2>4 DEF One, Weight
<1> QED BY <1>3, <1>4

\* The commit: the counts move with the ballot.
LEMMA CommitTallies ==
  ASSUME VoteInv, NEW c \in Casts, Ready(c), CommitCast(c)
  PROVE  Tallied' /\ tally' \in [Ids -> [count: Nat, power: Nat]]
<1> DEFINE u == cast[c].user
           n == [option |-> cast[c].option, power |-> cast[c].power]
           old == ballot[u]
<1>1. /\ ballot \in [Users -> Ballot] /\ u \in Users /\ n \in Ballot /\ old \in Ballot
      /\ n.option = cast[c].option /\ n.power = cast[c].power
      /\ options \subseteq Ids /\ n.option \in options /\ old.option \in options \cup {0}
      /\ tally \in [Ids -> [count: Nat, power: Nat]]
  BY BallotFacts DEF VoteInv, VoteTypeOK, Ready, BallotRows
<1>2. /\ ballot' = [ballot EXCEPT ![u] = n] /\ ghost' = ghost /\ options' = options
      /\ cast[c].old = old /\ tally' = Counted(c)
  BY DEF CommitCast, Ready
<1>3. n.power \in Int /\ old.power \in Int /\ 0 \notin Ids
      /\ (old = NoBallot <=> old.option = 0)
  BY <1>1, BallotFacts
<1>4. /\ \A o \in Ids :
           /\ tally'[o].count = tally[o].count - One(old, o) + One(n, o)
           /\ tally'[o].power = tally[o].power - Weight(old, o) + Weight(n, o)
      /\ tally' \in [Ids -> [count: Int, power: Int]]
  BY <1>1, <1>2, CountedFacts DEF VoteInv
<1>5. ASSUME NEW o \in Ids
      PROVE  /\ IsFiniteSet(Of(ballot', o)) /\ IsFiniteSet(Of(ghost', o))
             /\ Count(ghost, o) \in Nat /\ Power(ghost, o) \in Int
             /\ Count(ballot, o) \in Nat /\ Power(ballot, o) \in Int
             /\ old.option = o => Count(ballot, o) > 0
             /\ Count(ballot', o) = Count(ballot, o) - One(old, o) + One(n, o)
             /\ Power(ballot', o) = Power(ballot, o) - Weight(old, o) + Weight(n, o)
  <2>1. IsFiniteSet(Of(ballot, o)) /\ IsFiniteSet(Of(ghost, o))
    BY DEF VoteInv, Tallied
  <2>2. ghost \in [Users -> Ballot] /\ ghost = [ghost EXCEPT ![u] = ghost[u]] /\ ghost[u] \in Ballot
    BY <1>1 DEF VoteInv, VoteTypeOK
  <2>3. Count(ghost, o) \in Nat /\ Power(ghost, o) \in Int
    BY <1>1, <2>1, <2>2, Recast
  <2>4. old = ballot[u]
    OBVIOUS
  <2> HIDE DEF u, n, old
  <2>5. /\ IsFiniteSet(Of(ballot', o))
        /\ Count(ballot, o) \in Nat /\ Power(ballot, o) \in Int
        /\ ballot[u].option = o => Count(ballot, o) > 0
        /\ Count(ballot', o) = Count(ballot, o) - One(ballot[u], o) + One(n, o)
        /\ Power(ballot', o) = Power(ballot, o) - Weight(ballot[u], o) + Weight(n, o)
    <3>1. /\ ballot \in [Users -> Ballot] /\ u \in Users /\ n \in Ballot
          /\ ballot' = [ballot EXCEPT ![u] = n]
      BY <1>1, <1>2
    <3>2. IsFiniteSet(Of(ballot, o)) /\ o \in Ids
      BY <2>1
    <3> QED BY <3>1, <3>2, Recast
  <2>6. IsFiniteSet(Of(ghost', o))
    BY <1>2, <2>1
  <2> QED BY <2>3, <2>4, <2>5, <2>6
<1>6. \A o \in options : /\ tally[o].count = Count(ballot, o) + Count(ghost, o)
                         /\ tally[o].power = Power(ballot, o) + Power(ghost, o)
  BY DEF VoteInv, Tallied
<1> HIDE DEF u, n, old
<1>7. ASSUME NEW o \in options
      PROVE  /\ tally'[o].count = Count(ballot', o) + Count(ghost', o)
             /\ tally'[o].power = Power(ballot', o) + Power(ghost', o)
  <2>1. o \in Ids /\ tally[o].count \in Nat /\ tally[o].power \in Nat /\ ghost' = ghost
    BY <1>1, <1>2
  <2>2. /\ tally'[o].count = tally[o].count - One(old, o) + One(n, o)
        /\ tally'[o].power = tally[o].power - Weight(old, o) + Weight(n, o)
    BY <1>4, <2>1
  <2>3. /\ Count(ghost, o) \in Nat /\ Power(ghost, o) \in Int
        /\ Count(ballot, o) \in Nat /\ Power(ballot, o) \in Int
        /\ Count(ballot', o) = Count(ballot, o) - One(old, o) + One(n, o)
        /\ Power(ballot', o) = Power(ballot, o) - Weight(old, o) + Weight(n, o)
    BY <1>5, <2>1
  <2>4. /\ tally[o].count = Count(ballot, o) + Count(ghost, o)
        /\ tally[o].power = Power(ballot, o) + Power(ghost, o)
    BY <1>6
  <2>5. One(old, o) \in Int /\ One(n, o) \in Int /\ Weight(old, o) \in Int /\ Weight(n, o) \in Int
    BY <1>3 DEF One, Weight
  <2> QED BY <2>1, <2>2, <2>3, <2>4, <2>5
<1>8. Tallied'
  BY <1>2, <1>5, <1>7 DEF Tallied
<1>9. ASSUME NEW o \in Ids PROVE tally'[o].count \in Nat /\ tally'[o].power \in Nat
  <2>1. CASE o \in options
    <3>1. ghost' \in [Users -> Ballot] /\ ballot' \in [Users -> Ballot]
      BY <1>1, <1>2 DEF VoteInv, VoteTypeOK
    <3>2. /\ Count(ballot', o) \in Nat /\ Count(ghost', o) \in Nat
          /\ Power(ballot', o) \in Nat /\ Power(ghost', o) \in Nat
      BY <1>5, <3>1, SumsAreNat
    <3> QED BY <1>7, <2>1, <3>2
  <2>2. CASE o \notin options
    <3>1. old.option /= o /\ n.option /= o /\ tally[o].count \in Nat /\ tally[o].power \in Nat
      BY <1>1, <1>3, <2>2
    <3>2. tally'[o].count = tally[o].count - 0 + 0 /\ tally'[o].power = tally[o].power - 0 + 0
      BY <1>4, <3>1 DEF One, Weight
    <3> QED BY <3>1, <3>2
  <2> QED BY <2>1, <2>2
<1>10. tally' \in [Ids -> [count: Nat, power: Nat]]
  BY <1>4, <1>9
<1> QED BY <1>8, <1>10

LEMMA CommitKeeps ==
  ASSUME VoteInv, NEW c \in Casts, Ready(c), votePc[c] /= "idle", CommitCast(c)
  PROVE  VoteInv'
<1> DEFINE u == cast[c].user
           n == [option |-> cast[c].option, power |-> cast[c].power]
<1>1. /\ u \in Users /\ n \in Ballot /\ n.option \in options /\ u \notin gone
      /\ phase /= "upcoming"
  BY BallotFacts DEF Ready
<1>2. /\ ballot' = [ballot EXCEPT ![u] = n]
      /\ phase' = phase /\ options' = options /\ gone' = gone /\ edit' = edit /\ ghost' = ghost
      /\ votePc'[c] = "idle" /\ cast'[c] = NoCast
      /\ \A d \in Casts \ {c} : votePc'[d] = votePc[d] /\ cast'[d] = cast[d]
      /\ \A m \in Managers : votePc'[m] = votePc[m]
  BY ActorAssumption DEF CommitCast, VoteGoto, VoteInv, VoteTypeOK
<1>3. Tallied' /\ tally' \in [Ids -> [count: Nat, power: Nat]]
  BY CommitTallies
<1>4. VoteTypeOK'
  BY <1>1, <1>2, <1>3, BallotFacts DEF VoteInv, VoteTypeOK, CommitCast, VoteGoto
<1> HIDE DEF n
<1>5. /\ ballot'[u] = n /\ \A v \in Users \ {u} : ballot'[v] = ballot[v]
  BY <1>1, <1>2 DEF VoteInv, VoteTypeOK
<1>6. ASSUME NEW d \in Casts PROVE CastLocal(d)'
  <2>1. CASE d = c
    BY <1>2, <2>1 DEF CastLocal, CastWriting
  <2>2. CASE d /= c
    <3>1. CastLocal(d) /\ votePc[d] \in {"idle", "find", "upsert"} \cup CastWriting
      BY DEF VoteInv, CastLocal
    <3>2. votePc[d] /= "idle" => cast[d].user \in Users \ {u}
      BY <2>2, <3>1 DEF VoteInv, VotersApart, CastLocal
    <3>3. votePc[d] /= "idle" => ballot'[cast[d].user] = ballot[cast[d].user]
      BY <1>5, <3>2
    <3>4. Rows(d)' = Rows(d) /\ Moves(d)' = Moves(d) /\ Delete(cast[d].option)' = Delete(cast[d].option)
      BY <1>2, <2>2 DEF Rows, Moves, Delete
    <3>5. votePc'[d] = votePc[d] /\ cast'[d] = cast[d] /\ gone' = gone /\ options' = options
      BY <1>2, <2>2
    <3> HIDE DEF u
    <3> QED BY <3>1, <3>3, <3>4, <3>5 DEF CastLocal, CastWriting
  <2> QED BY <2>1, <2>2
<1>7. ASSUME NEW m \in Managers PROVE EditLocal(m)'
  BY <1>2 DEF VoteInv, EditLocal
<1>8. VotersApart' /\ OneHolder'
  BY <1>2 DEF VoteInv, VotersApart, OneHolder, HoldTopic
<1>9. EditsFit'
  BY <1>2 DEF VoteInv, EditsFit, Edits, Editing
<1>10. PastOptions'
  BY <1>2 DEF VoteInv, PastOptions, Past
<1>11. BallotRows'
  BY <1>1, <1>2, <1>5 DEF VoteInv, BallotRows
<1>12. BeforeOpening' /\ OpensEmpty'
  BY <1>1, <1>2 DEF BeforeOpening, OpensEmpty
<1> QED BY <1>3, <1>4, <1>6, <1>7, <1>8, <1>9, <1>10, <1>11, <1>12 DEF VoteInv

LEMMA CastKeeps ==
  ASSUME VoteInv, NEW c \in Casts, CastStep(c)
  PROVE  VoteInv'
<1>1. CASE \E w \in 0..MaxWeight : FindBallot(c, w)
  BY <1>1, FindKeeps
<1>2. CASE \E w \in 0..MaxWeight : RefuseVoter(c, w)
  BY <1>2, DropCastKeeps DEF RefuseVoter
<1>3. CASE RefuseBallot(c)
  BY <1>3, DropCastKeeps DEF RefuseBallot
<1>4. CASE Upsert(c)
  <2>1. Ready(c) /\ votePc[c] = "upsert" /\ Granted(c)
    BY <1>4, ReadyFacts DEF Upsert
  <2>2. CASE Rows(c) = <<>>
    BY <1>4, <2>1, <2>2, CommitKeeps DEF Upsert
  <2>3. CASE Rows(c) /= <<>>
    <3>1. cast[c].old.option /= cast[c].option => Delete(cast[c].option) = {}
      BY <2>1 DEF Granted, Blockers
    <3> QED BY <1>4, <2>1, <2>3, <3>1, WriteKeeps DEF Upsert, CastWriting
  <2> QED BY <2>2, <2>3
<1>5. CASE WriteFirst(c)
  <2>1. Ready(c) /\ votePc[c] = "first" /\ CastLocal(c)
    BY <1>5, ReadyFacts DEF WriteFirst, CastWriting, VoteInv
  <2>2. CASE Len(Rows(c)) = 1
    BY <1>5, <2>1, <2>2, CommitKeeps DEF WriteFirst
  <2>3. CASE Len(Rows(c)) /= 1
    <3>1. Rows(c) /= <<>> /\ (cast[c].old.option /= cast[c].option => Delete(cast[c].option) = {})
      BY <2>1 DEF CastLocal, CastWriting
    <3>2. Moves(c)
      BY <2>3, <3>1, RowsFacts DEF VoteInv
    <3> QED BY <1>5, <2>1, <2>3, <3>1, <3>2, WriteKeeps DEF WriteFirst, CastWriting
  <2> QED BY <2>2, <2>3
<1>6. CASE WriteSecond(c)
  BY <1>6, ReadyFacts, CommitKeeps DEF WriteSecond, CastWriting
<1> QED BY <1>1, <1>2, <1>3, <1>4, <1>5, <1>6 DEF CastStep

-----------------------------------------------------------------------------
(* Edits and deletions *)

LEMMA EditsNat == ASSUME VoteInv, options /= {} PROVE Edits \in 0..MaxEdits /\ options = Batch(Edits)
<1>1. PICK n \in 0..MaxEdits : options = Batch(n)
  BY DEF VoteInv, EditsFit
<1>2. n \in Nat /\ MaxEdits \in Nat
  BY LimitAssumption
<1> QED BY <1>1, <1>2, EditsOfBatch

\* A step of an edit or deletion that leaves the rows as they are keeps the
\* invariant if what it has in hand then is right, nobody else has the topic, no
\* cast refers to an option that it locks, and a new edit has room.
LEMMA EditMoves ==
  ASSUME VoteInv, NEW m \in Managers,
         UNCHANGED <<topic, ballot, gone, cast, ghost>>,
         NEW label \in {"idle", "topic", "options", "ballots"}, VoteGoto(m, label),
         NEW p \in Plan, edit' = [edit EXCEPT ![m] = p],
         EditLocal(m)',
         label \in {"options", "ballots"} => HoldTopic \ {m} = {},
         p.kind = "edit" => \/ edit[m].kind = "edit"
                            \/ Edits + Cardinality(Editing) < MaxEdits,
         \A c \in Casts : votePc[c] \in CastWriting /\ cast[c].old.option /= cast[c].option
                          /\ cast[c].option \in p.held => cast[c].option \in edit[m].held
  PROVE  VoteInv'
<1>1. /\ votePc'[m] = label /\ edit'[m] = p
      /\ \A n \in Managers \ {m} : votePc'[n] = votePc[n] /\ edit'[n] = edit[n]
      /\ \A c \in Casts : votePc'[c] = votePc[c]
      /\ phase' = phase /\ options' = options /\ tally' = tally /\ cast' = cast
      /\ ballot' = ballot /\ gone' = gone /\ ghost' = ghost
  BY ActorAssumption DEF VoteInv, VoteTypeOK, VoteGoto, topic
<1>2. VoteTypeOK'
  BY <1>1 DEF VoteInv, VoteTypeOK, VoteGoto
<1>3. ASSUME NEW c \in Casts PROVE CastLocal(c)'
  <2>1. CastLocal(c)
    BY DEF VoteInv
  <2>2. Rows(c)' = Rows(c) /\ Moves(c)' = Moves(c)
    BY <1>1 DEF Rows, Moves
  <2>3. ASSUME votePc[c] \in CastWriting, cast[c].old.option /= cast[c].option,
               Delete(cast[c].option) = {}
        PROVE  Delete(cast[c].option)' = {}
    BY <1>1, <2>3 DEF Delete
  <2> QED BY <1>1, <2>1, <2>2, <2>3 DEF CastLocal
<1>4. ASSUME NEW n \in Managers PROVE EditLocal(n)'
  BY <1>1 DEF VoteInv, EditLocal
<1>5. VotersApart'
  BY <1>1 DEF VoteInv, VotersApart
<1>6. OneHolder'
  BY <1>1 DEF VoteInv, OneHolder, HoldTopic
<1>7. EditsFit'
  <2>1. Edits' = Edits /\ (options /= {} => Edits \in Nat) /\ MaxEdits \in Nat
    BY <1>1, EditsNat, LimitAssumption DEF Edits
  <2>2. IsFiniteSet(Editing) /\ Cardinality(Editing) \in Nat
    BY FS_CardinalityType DEF VoteInv, EditsFit
  <2>3. CASE p.kind = "edit"
    <3>1. Editing' = Editing \cup {m} /\ (m \in Editing <=> edit[m].kind = "edit")
      BY <1>1, <2>3 DEF Editing
    <3>2. /\ IsFiniteSet(Editing')
          /\ Cardinality(Editing') = IF m \in Editing THEN Cardinality(Editing) ELSE Cardinality(Editing) + 1
      BY <2>2, <3>1, FS_AddElement
    <3> QED BY <1>1, <2>1, <2>2, <2>3, <3>1, <3>2 DEF VoteInv, EditsFit
  <2>4. CASE p.kind /= "edit"
    <3>1. Editing' = Editing \ {m}
      BY <1>1, <2>4 DEF Editing
    <3>2. IsFiniteSet(Editing') /\ Cardinality(Editing') =< Cardinality(Editing)
      BY <2>2, <3>1, FS_Subset
    <3>3. Cardinality(Editing') \in Nat
      BY <3>2, FS_CardinalityType
    <3> QED BY <1>1, <2>1, <2>2, <3>2, <3>3 DEF VoteInv, EditsFit
  <2> QED BY <2>3, <2>4
<1>8. PastOptions'
  BY <1>1 DEF VoteInv, PastOptions, Past
<1>9. BallotRows' /\ OpensEmpty'
  BY <1>1 DEF VoteInv, BallotRows, OpensEmpty
<1>10. BeforeOpening'
  BY <1>1 DEF VoteInv, BeforeOpening
<1>11. Tallied'
  BY <1>1 DEF VoteInv, Tallied
<1> QED BY <1>2, <1>3, <1>4, <1>5, <1>6, <1>7, <1>8, <1>9, <1>10, <1>11 DEF VoteInv

\* There is a next option to lock.
LEMMA NextOptionIn ==
  ASSUME VoteInv, NEW m \in Managers, votePc[m] = "options"
  PROVE  NextOption(m) \in options \ edit[m].held
<1> DEFINE T == options \ edit[m].held
           R == OpToRel(<, Nat)
<1>1. T \subseteq Nat /\ T /= {}
  BY BallotFacts DEF VoteInv, VoteTypeOK, EditLocal
<1>2. \A i, j \in Nat : i < j => <<i, j>> \in R
  BY DEF OpToRel
<1>3. IsWellFoundedOn(R, Nat)
  BY NatLessThanWellFounded
<1>4. NextOption(m) = CHOOSE x \in T : \A y \in T : x =< y
  BY DEF NextOption, Min
<1> HIDE DEF R, T
<1>5. PICK t \in T : \A y \in T : ~(<<y, t>> \in R)
  BY <1>1, <1>3, WFMin
<1>6. ASSUME NEW y \in T PROVE t =< y
  <2>1. t \in Nat /\ y \in Nat
    BY <1>1
  <2>2. ~(y < t)
    BY <1>2, <1>5, <2>1
  <2> QED BY <2>1, <2>2
<1>7. NextOption(m) \in T
  BY <1>4, <1>6
<1> QED BY <1>7 DEF T

LEMMA DropEditKeeps ==
  ASSUME VoteInv, NEW m \in Managers, DropEdit(m)
  PROVE  VoteInv'
<1>1. /\ VoteGoto(m, "idle") /\ edit' = [edit EXCEPT ![m] = NoPlan] /\ NoPlan \in Plan
      /\ UNCHANGED <<topic, ballot, gone, cast, ghost>>
      /\ NoPlan.held = {} /\ NoPlan.kind = "none"
  BY BallotFacts DEF DropEdit, NoPlan
<1>2. edit'[m] = NoPlan /\ votePc'[m] = "idle"
  BY <1>1, ActorAssumption DEF VoteInv, VoteTypeOK, VoteGoto
<1>3. EditLocal(m)'
  BY <1>1, <1>2 DEF EditLocal
<1> QED BY <1>1, <1>3, EditMoves

LEMMA ReadKeeps ==
  ASSUME VoteInv, NEW m \in Managers, NEW kind \in {"edit", "delete"}, ReadTopic(m, kind)
  PROVE  VoteInv'
<1> DEFINE p == [NoPlan EXCEPT !.kind = kind]
<1>1. p \in Plan /\ p.kind = kind /\ p.held = {} /\ p.late = FALSE
  BY DEF NoPlan, Plan
<1>2. /\ VoteGoto(m, "topic") /\ edit' = [edit EXCEPT ![m] = p]
      /\ UNCHANGED <<topic, ballot, gone, cast, ghost>>
      /\ phase = "upcoming" /\ (kind = "edit" => Edits + Cardinality(Editing) < MaxEdits)
  BY DEF ReadTopic, Upcoming, Editing
<1>3. edit'[m] = p /\ votePc'[m] = "topic" /\ phase' = phase
  BY <1>2, ActorAssumption DEF VoteInv, VoteTypeOK, VoteGoto, topic
<1> HIDE DEF p
<1>4. EditLocal(m)'
  BY <1>1, <1>2, <1>3 DEF EditLocal
<1> QED BY <1>1, <1>2, <1>4, EditMoves

LEMMA LockTopicKeeps ==
  ASSUME VoteInv, NEW m \in Managers, LockTopic(m)
  PROVE  VoteInv'
<1> DEFINE p == edit[m]
<1>1. p \in Plan /\ EditLocal(m) /\ votePc[m] = "topic"
  BY DEF VoteInv, VoteTypeOK, LockTopic
<1>2. /\ VoteGoto(m, "options") /\ edit' = [edit EXCEPT ![m] = p] /\ options /= {}
      /\ UNCHANGED <<topic, ballot, gone, cast, ghost>>
  BY DEF LockTopic, VoteInv, VoteTypeOK
<1>3. HoldTopic \ {m} = {}
  BY <1>1 DEF LockTopic, Granted, Blockers
<1>4. edit'[m] = p /\ votePc'[m] = "options" /\ phase' = phase /\ options' = options
  BY <1>2, ActorAssumption DEF VoteInv, VoteTypeOK, VoteGoto, topic
<1>5. EditLocal(m)'
  BY <1>1, <1>2, <1>4 DEF EditLocal
<1> QED BY <1>1, <1>2, <1>3, <1>5, EditMoves

LEMMA LockOptionKeeps ==
  ASSUME VoteInv, NEW m \in Managers, LockOption(m)
  PROVE  VoteInv'
<1> DEFINE o == NextOption(m)
           p == [edit[m] EXCEPT !.held = @ \cup {o}]
           label == IF p.held = options THEN "ballots" ELSE "options"
<1>1. /\ edit[m] \in Plan /\ EditLocal(m) /\ votePc[m] = "options"
      /\ o \in options /\ options \subseteq Ids
  BY NextOptionIn DEF VoteInv, VoteTypeOK, LockOption
<1>2. /\ p \in Plan /\ p.kind = edit[m].kind /\ p.late = edit[m].late
      /\ p.held = edit[m].held \cup {o}
  BY <1>1 DEF Plan
<1>3. /\ edit' = [edit EXCEPT ![m] = p] /\ UNCHANGED <<topic, ballot, gone, cast, ghost>>
      /\ Granted(m)
  BY DEF LockOption, VoteInv, VoteTypeOK
<1>4. VoteGoto(m, label)
  BY <1>1, <1>2 DEF LockOption, VoteGoto, VoteInv, VoteTypeOK
<1>5. Share(o) = {}
  BY <1>1, <1>3 DEF Granted, Blockers
<1>6. edit'[m] = p /\ votePc'[m] = label /\ phase' = phase /\ options' = options
  BY <1>3, <1>4, ActorAssumption DEF VoteInv, VoteTypeOK, VoteGoto, topic
<1>7. HoldTopic \ {m} = {}
  BY <1>1 DEF VoteInv, OneHolder, HoldTopic
<1>8. \A c \in Casts : votePc[c] \in CastWriting /\ cast[c].old.option /= cast[c].option
                       /\ cast[c].option \in p.held => cast[c].option \in edit[m].held
  BY <1>2, <1>5 DEF Share, CastWriting
<1> HIDE DEF o, p
<1>9. EditLocal(m)'
  BY <1>1, <1>2, <1>6 DEF EditLocal
<1>10. label \in {"idle", "topic", "options", "ballots"}
  OBVIOUS
<1> HIDE DEF label
<1> QED BY <1>2, <1>3, <1>4, <1>7, <1>8, <1>9, <1>10, EditMoves

\* No cast has written a ballot when the options go: it would hold a ballot that
\* is deleted, or share an option that is locked.
LEMMA NoWriter ==
  ASSUME VoteInv, NEW m \in Managers, votePc[m] = "ballots", Granted(m)
  PROVE  \A c \in Casts : votePc[c] \notin CastWriting
<1> SUFFICES ASSUME NEW c \in Casts, votePc[c] \in CastWriting PROVE FALSE
  OBVIOUS
<1>1. CastLocal(c) /\ edit[m].held = options /\ votePc[c] /= "idle"
  BY DEF VoteInv, EditLocal, CastWriting
<1>2. /\ cast[c].user \in Users /\ cast[c].option \in options /\ cast[c].option \in Ids
      /\ cast[c].old = ballot[cast[c].user]
  BY <1>1 DEF CastLocal
<1>3. CASE cast[c].old.option = cast[c].option
  <2>1. c \in HoldBallot(cast[c].user)
    BY DEF HoldBallot, CastWriting
  <2>2. ballot[cast[c].user].option /= 0
    BY <1>2, <1>3, BallotFacts
  <2>3. Blockers(m) = UNION {HoldBallot(u) : u \in {v \in Users : ballot[v].option /= 0}}
    BY DEF Blockers
  <2> QED BY <1>2, <2>1, <2>2, <2>3 DEF Granted
<1>4. CASE cast[c].old.option /= cast[c].option
  <2>1. Delete(cast[c].option) = {}
    BY <1>1, <1>4 DEF CastLocal
  <2> QED BY <1>1, <1>2, <2>1 DEF Delete
<1> QED BY <1>3, <1>4

\* The options of an edit are younger than all before, and there is room for them.
LEMMA FreshOptions ==
  ASSUME VoteInv, NEW m \in Managers, NEW after \in {"upcoming", "open", "closed"}, CommitEdit(m, after)
  PROVE  /\ options /= {} /\ options' = Batch(Edits + 1) /\ options' /= {} /\ options' \subseteq Ids
         /\ Edits + 1 \in Nat /\ Edits + 1 + Cardinality(Editing \ {m}) =< MaxEdits /\ Edits + 1 =< MaxEdits
         /\ \A p \in options, o \in options' : p < o
<1>1. /\ m \in Editing /\ options' = Batch(Edits + 1)
      /\ edit[m].held = options /\ options /= {} /\ votePc[m] = "ballots"
  BY DEF CommitEdit, RemoveOptions, Editing, VoteInv, EditLocal
<1>2. Edits \in Nat /\ Edits =< MaxEdits /\ options = Batch(Edits) /\ MaxEdits \in Nat
  BY <1>1, EditsNat, LimitAssumption
<1>3. IsFiniteSet(Editing) /\ Edits + Cardinality(Editing) =< MaxEdits
  BY <1>1 DEF VoteInv, EditsFit
<1>4. /\ IsFiniteSet(Editing \ {m}) /\ Cardinality(Editing \ {m}) \in Nat
      /\ Cardinality(Editing \ {m}) = Cardinality(Editing) - 1
  <2>1. IsFiniteSet(Editing \ {m}) /\ Cardinality(Editing \ {m}) = Cardinality(Editing) - 1
    BY <1>1, <1>3, FS_RemoveElement
  <2> QED BY <2>1, FS_CardinalityType
<1>5. Cardinality(Editing) \in Nat
  BY <1>3, FS_CardinalityType
<1>6. /\ Edits + 1 \in Nat /\ Edits + 1 + Cardinality(Editing \ {m}) =< MaxEdits
      /\ Edits + 1 =< MaxEdits
  BY <1>2, <1>3, <1>4, <1>5
<1>7. Batch(Edits + 1) \subseteq Ids /\ Batch(Edits + 1) /= {}
  BY <1>6, BatchFacts
<1>8. \A p \in options, o \in Batch(Edits + 1) : p < o
  BY <1>2, BatchFacts
<1> QED BY <1>1, <1>6, <1>7, <1>8

\* The options go, with all ballots: the new ones, if there are any, are younger.
LEMMA RemoveKeeps ==
  ASSUME VoteInv, NEW m \in Managers, CommitDelete(m) \/ \E after \in {"upcoming", "open", "closed"} : CommitEdit(m, after)
  PROVE  VoteInv'
<1>1. /\ RemoveOptions(m) /\ votePc[m] = "ballots" /\ Granted(m)
      /\ edit[m].held = options /\ options /= {}
  BY DEF CommitDelete, CommitEdit, RemoveOptions, VoteInv, EditLocal
<1>2. /\ votePc'[m] = "idle" /\ ballot' = [u \in Users |-> NoBallot]
      /\ \A n \in Managers \ {m} : votePc'[n] = votePc[n]
      /\ \A c \in Casts : votePc'[c] = votePc[c]
      /\ tally' = [o \in Ids |-> [count |-> 0, power |-> 0]]
      /\ cast' = cast /\ gone' = gone /\ ghost' = ghost
      /\ votePc' = [votePc EXCEPT ![m] = "idle"]
  BY <1>1, ActorAssumption DEF RemoveOptions, VoteGoto, VoteInv, VoteTypeOK
<1>3. /\ phase' \in {"upcoming", "open", "closed"}
      /\ edit'[m] = NoPlan /\ edit' \in [Managers -> Plan]
      /\ \A n \in Managers \ {m} :
           /\ edit'[n].kind = edit[n].kind /\ edit'[n].held = edit[n].held
           /\ votePc[n] = "idle" => edit'[n] = edit[n]
           /\ votePc[n] /= "idle" /\ ~edit'[n].late => phase' = "upcoming"
  <2>1. edit \in [Managers -> Plan] /\ NoPlan \in Plan /\ phase \in {"upcoming", "open", "closed"}
        /\ \A n \in Managers : EditLocal(n)
    BY BallotFacts DEF VoteInv, VoteTypeOK
  <2>2. CASE CommitDelete(m)
    BY <2>1, <2>2 DEF CommitDelete, EditLocal
  <2>3. CASE \E after \in {"upcoming", "open", "closed"} : CommitEdit(m, after)
    <3> PICK after \in {"upcoming", "open", "closed"} : CommitEdit(m, after)
      BY <2>3
    <3>1. phase' = after /\ edit' = [IF after = "upcoming" THEN edit ELSE Overrun EXCEPT ![m] = NoPlan]
      BY DEF CommitEdit
    <3>2. Overrun \in [Managers -> Plan]
      BY <2>1 DEF Overrun, Plan
    <3>3. ASSUME NEW n \in Managers
          PROVE  /\ Overrun[n].kind = edit[n].kind /\ Overrun[n].held = edit[n].held
                 /\ votePc[n] = "idle" => Overrun[n] = edit[n]
                 /\ votePc[n] /= "idle" => Overrun[n].late
      BY <2>1 DEF Overrun, Plan
    <3>4. CASE after = "upcoming"
      BY <2>1, <3>1, <3>4
    <3>5. CASE after /= "upcoming"
      BY <2>1, <3>1, <3>2, <3>3, <3>5
    <3> QED BY <3>4, <3>5
  <2> QED BY <2>2, <2>3
<1>4. /\ options' = {} \/ (Edits + 1 \in 0..MaxEdits /\ options' = Batch(Edits + 1))
      /\ \A o, p : o \in options' /\ p \in options => p < o
      /\ options' \subseteq Ids
      /\ options' /= {} => Edits' + Cardinality(Editing') =< MaxEdits
      /\ IsFiniteSet(Editing')
  <2>1. Edits \in Nat /\ Edits =< MaxEdits /\ options = Batch(Edits) /\ MaxEdits \in Nat
    BY <1>1, EditsNat, LimitAssumption
  <2>2. Editing' = Editing \ {m}
    BY <1>3 DEF Editing, NoPlan
  <2>3. /\ IsFiniteSet(Editing) /\ IsFiniteSet(Editing')
        /\ Cardinality(Editing) \in Nat /\ Cardinality(Editing') \in Nat
        /\ Edits + Cardinality(Editing) =< MaxEdits
        /\ m \in Editing => Cardinality(Editing') = Cardinality(Editing) - 1
    <3>1. IsFiniteSet(Editing) /\ Edits + Cardinality(Editing) =< MaxEdits
      BY <1>1 DEF VoteInv, EditsFit
    <3>2. IsFiniteSet(Editing \ {m}) /\ (m \in Editing => Cardinality(Editing \ {m}) = Cardinality(Editing) - 1)
      BY <3>1, FS_RemoveElement
    <3>3. Cardinality(Editing) \in Nat /\ Cardinality(Editing \ {m}) \in Nat
      BY <3>1, <3>2, FS_CardinalityType
    <3> QED BY <2>2, <3>1, <3>2, <3>3
  <2>4. CASE CommitDelete(m)
    BY <2>3, <2>4 DEF CommitDelete
  <2>5. CASE \E after \in {"upcoming", "open", "closed"} : CommitEdit(m, after)
    <3>1. /\ options' = Batch(Edits + 1) /\ options' \subseteq Ids
          /\ Edits + 1 \in Nat /\ Edits + 1 + Cardinality(Editing \ {m}) =< MaxEdits
          /\ Edits + 1 =< MaxEdits /\ \A p \in options, o \in options' : p < o
      BY <2>5, FreshOptions
    <3>2. Edits' = Edits + 1
      <4>1. ASSUME NEW k \in Nat, NEW T, T = Batch(k)
            PROVE  (Max(T) \div OptionsPerTopic) - 1 = k
        BY <4>1, MaxOfBatch
      <4> HIDE DEF Edits
      <4>2. Edits' = (Max(options') \div OptionsPerTopic) - 1
        BY DEF Edits
      <4> QED BY <3>1, <4>1, <4>2
    <3> QED BY <2>2, <2>3, <3>1, <3>2
  <2> QED BY <2>4, <2>5
<1>5. \A c \in Casts : votePc[c] \notin CastWriting
  BY <1>1, NoWriter
<1>6. \A o : Past(o) => (o \in Nat => o \notin options' /\ Past(o)')
  <2>1. \A p \in options : p \in Nat
    BY BallotFacts DEF VoteInv, VoteTypeOK
  <2>2. \A p \in options' : p \in Nat
    BY <1>4, BallotFacts
  <2> QED BY <1>1, <1>4, <2>1, <2>2 DEF Past
<1>7. \A c \in Casts : votePc[c] /= "idle" => cast[c].option \notin options' /\ Past(cast[c].option)'
  <2> SUFFICES ASSUME NEW c \in Casts, votePc[c] /= "idle"
               PROVE  cast[c].option \notin options' /\ Past(cast[c].option)'
    OBVIOUS
  <2>1. Past(cast[c].option) /\ cast[c].option \in Nat
    BY BallotFacts DEF VoteInv, PastOptions, CastLocal
  <2> QED BY <1>2, <1>6, <2>1
<1>8. \A u \in Users : ghost[u].option \notin options' /\ Past(ghost[u].option)'
  <2> SUFFICES ASSUME NEW u \in Users
               PROVE  ghost[u].option \notin options' /\ Past(ghost[u].option)'
    OBVIOUS
  <2>1. ghost[u] \in Ballot /\ PastOptions
    BY DEF VoteInv, VoteTypeOK
  <2>2. ghost[u].option \in Nat
    BY <2>1, OptionNat
  <2>3. Past(ghost[u].option)
    BY <2>1 DEF PastOptions
  <2> QED BY <1>2, <1>6, <2>1, <2>2, <2>3
<1>9. VoteTypeOK'
  BY <1>2, <1>3, <1>4, BallotFacts DEF VoteInv, VoteTypeOK
<1>10. ASSUME NEW c \in Casts PROVE CastLocal(c)'
  BY <1>2, <1>5, <1>7 DEF VoteInv, CastLocal, CastWriting
<1>11. ASSUME NEW n \in Managers PROVE EditLocal(n)'
  <2>1. CASE n = m
    BY <1>2, <1>3, <2>1 DEF EditLocal, NoPlan
  <2>2. CASE n /= m
    <3>1. EditLocal(n) /\ votePc[n] \in {"idle", "topic"}
      BY <1>1, <2>2 DEF VoteInv, OneHolder, HoldTopic, EditLocal
    <3> QED BY <1>2, <1>3, <2>2, <3>1 DEF EditLocal
  <2> QED BY <2>1, <2>2
<1>12. VotersApart' /\ OneHolder'
  BY <1>2 DEF VoteInv, VotersApart, OneHolder, HoldTopic
<1>13. EditsFit'
  BY <1>4 DEF EditsFit
<1>14. PastOptions'
  BY <1>2, <1>7, <1>8 DEF PastOptions
<1>15. BallotRows'
  BY <1>2 DEF VoteInv, BallotRows, NoBallot
<1>16. BeforeOpening'
  BY <1>2, <1>5, <1>7 DEF BeforeOpening
<1>17. OpensEmpty'
  BY <1>2, <1>4 DEF OpensEmpty
<1>18. Tallied'
  <2>1. \A o \in Ids : Of(ballot', o) = {} /\ IsFiniteSet(Of(ghost', o))
    BY <1>2, BallotFacts DEF Of, NoBallot, VoteInv, Tallied
  <2>2. \A o \in options' : Of(ghost', o) = {}
    BY <1>2, <1>8 DEF Of
  <2>3. \A o \in options' : /\ Count(ballot', o) = 0 /\ Count(ghost', o) = 0
                            /\ Power(ballot', o) = 0 /\ Power(ghost', o) = 0
    BY <1>4, <2>1, <2>2, TotalOfNone, FS_EmptySet DEF Count, Power
  <2>4. \A o \in options' : /\ tally'[o].count = Count(ballot', o) + Count(ghost', o)
                            /\ tally'[o].power = Power(ballot', o) + Power(ghost', o)
    BY <1>2, <1>4, <2>3
  <2>5. \A o \in Ids : IsFiniteSet(Of(ballot', o)) /\ IsFiniteSet(Of(ghost', o))
    BY <2>1, FS_EmptySet
  <2> QED BY <2>4, <2>5 DEF Tallied
<1> QED BY <1>9, <1>10, <1>11, <1>12, <1>13, <1>14, <1>15, <1>16, <1>17, <1>18 DEF VoteInv

-----------------------------------------------------------------------------
(* Time, deletion of users *)

LEMMA PhaseKeeps ==
  ASSUME VoteInv, Opens \/ Closes
  PROVE  VoteInv'
<1>1. /\ phase' \in {"open", "closed"}
      /\ UNCHANGED <<options, tally, ballot, gone, votePc, cast, ghost>>
  BY DEF Opens, Closes
<1>2. /\ edit' \in [Managers -> Plan]
      /\ \A m \in Managers : /\ edit'[m].kind = edit[m].kind /\ edit'[m].held = edit[m].held
                             /\ votePc[m] = "idle" => edit'[m] = edit[m]
                             /\ votePc[m] /= "idle" => edit'[m].late
  <2>1. edit \in [Managers -> Plan] /\ \A m \in Managers : EditLocal(m)
    BY DEF VoteInv, VoteTypeOK
  <2>2. CASE Opens
    BY <2>1, <2>2 DEF Opens, Overrun, Plan
  <2>3. CASE Closes
    BY <2>1, <2>3 DEF Closes, EditLocal
  <2> QED BY <2>2, <2>3
<1>3. VoteTypeOK'
  BY <1>1, <1>2 DEF VoteInv, VoteTypeOK
<1>4. ASSUME NEW c \in Casts PROVE CastLocal(c)'
  <2>1. Rows(c)' = Rows(c) /\ Moves(c)' = Moves(c)
    BY <1>1 DEF Rows, Moves
  <2>2. Delete(cast[c].option)' = Delete(cast[c].option)
    BY <1>1, <1>2 DEF Delete
  <2> QED BY <1>1, <2>1, <2>2 DEF VoteInv, CastLocal
<1>5. ASSUME NEW m \in Managers PROVE EditLocal(m)'
  BY <1>1, <1>2 DEF VoteInv, EditLocal
<1>6. VotersApart' /\ OneHolder'
  BY <1>1 DEF VoteInv, VotersApart, OneHolder, HoldTopic
<1>7. EditsFit'
  <2>1. Editing' = Editing /\ Edits' = Edits
    BY <1>1, <1>2 DEF Editing, Edits
  <2> QED BY <1>1, <2>1 DEF VoteInv, EditsFit
<1>8. PastOptions'
  BY <1>1 DEF VoteInv, PastOptions, Past
<1>9. BallotRows' /\ OpensEmpty' /\ BeforeOpening'
  BY <1>1 DEF VoteInv, BallotRows, OpensEmpty, BeforeOpening
<1>10. Tallied'
  BY <1>1 DEF VoteInv, Tallied
<1> QED BY <1>3, <1>4, <1>5, <1>6, <1>7, <1>8, <1>9, <1>10 DEF VoteInv

\* The ballot of a user who goes is counted among the ghosts from then on.
LEMMA DeleteUserTallies ==
  ASSUME VoteInv, NEW u \in Users, DeleteUser(u)
  PROVE  Tallied'
<1> DEFINE n == ballot[u]
<1>1. /\ ballot \in [Users -> Ballot] /\ ghost \in [Users -> Ballot] /\ n \in Ballot
      /\ NoBallot \in Ballot /\ ghost[u] = NoBallot /\ options \subseteq Ids /\ 0 \notin Ids
  BY BallotFacts DEF VoteInv, VoteTypeOK, BallotRows, DeleteUser
<1>2. /\ ballot' = [ballot EXCEPT ![u] = NoBallot] /\ ghost' = [ghost EXCEPT ![u] = n]
      /\ tally' = tally /\ options' = options
  BY DEF DeleteUser, topic
<1>3. n = ballot[u]
  OBVIOUS
<1> HIDE DEF n
<1>4. ASSUME NEW o \in Ids
      PROVE  /\ IsFiniteSet(Of(ballot', o)) /\ IsFiniteSet(Of(ghost', o))
             /\ Count(ballot', o) + Count(ghost', o) = Count(ballot, o) + Count(ghost, o)
             /\ Power(ballot', o) + Power(ghost', o) = Power(ballot, o) + Power(ghost, o)
  <2>1. IsFiniteSet(Of(ballot, o)) /\ IsFiniteSet(Of(ghost, o))
    BY DEF VoteInv, Tallied
  <2>2. /\ IsFiniteSet(Of(ballot', o)) /\ Count(ballot, o) \in Nat /\ Power(ballot, o) \in Int
        /\ Count(ballot', o) = Count(ballot, o) - One(n, o) + One(NoBallot, o)
        /\ Power(ballot', o) = Power(ballot, o) - Weight(n, o) + Weight(NoBallot, o)
    <3>1. /\ ballot \in [Users -> Ballot] /\ u \in Users /\ NoBallot \in Ballot
          /\ ballot' = [ballot EXCEPT ![u] = NoBallot]
      BY <1>1, <1>2
    <3>2. IsFiniteSet(Of(ballot, o)) /\ o \in Ids
      BY <2>1
    <3>3. /\ IsFiniteSet(Of(ballot', o)) /\ Count(ballot, o) \in Nat /\ Power(ballot, o) \in Int
          /\ Count(ballot', o) = Count(ballot, o) - One(ballot[u], o) + One(NoBallot, o)
          /\ Power(ballot', o) = Power(ballot, o) - Weight(ballot[u], o) + Weight(NoBallot, o)
      BY <3>1, <3>2, Recast
    <3> QED BY <3>3, <1>3
  <2>3. /\ IsFiniteSet(Of(ghost', o)) /\ Count(ghost, o) \in Nat /\ Power(ghost, o) \in Int
        /\ Count(ghost', o) = Count(ghost, o) - One(NoBallot, o) + One(n, o)
        /\ Power(ghost', o) = Power(ghost, o) - Weight(NoBallot, o) + Weight(n, o)
    <3>1. ghost \in [Users -> Ballot] /\ u \in Users /\ n \in Ballot /\ ghost' = [ghost EXCEPT ![u] = n]
      BY <1>1, <1>2
    <3>2. IsFiniteSet(Of(ghost, o)) /\ o \in Ids
      BY <2>1
    <3>3. /\ IsFiniteSet(Of(ghost', o)) /\ Count(ghost, o) \in Nat /\ Power(ghost, o) \in Int
          /\ Count(ghost', o) = Count(ghost, o) - One(ghost[u], o) + One(n, o)
          /\ Power(ghost', o) = Power(ghost, o) - Weight(ghost[u], o) + Weight(n, o)
      BY <3>1, <3>2, Recast
    <3> QED BY <3>3, <1>1
  <2>4. One(n, o) \in Int /\ One(NoBallot, o) = 0 /\ Weight(n, o) \in Int /\ Weight(NoBallot, o) = 0
    BY <1>1, BallotFacts DEF One, Weight, NoBallot
  <2> QED BY <2>2, <2>3, <2>4
<1>5. \A o \in options : /\ tally[o].count = Count(ballot, o) + Count(ghost, o)
                         /\ tally[o].power = Power(ballot, o) + Power(ghost, o)
  BY DEF VoteInv, Tallied
<1>6. \A o \in options' : /\ tally'[o].count = Count(ballot', o) + Count(ghost', o)
                          /\ tally'[o].power = Power(ballot', o) + Power(ghost', o)
  BY <1>1, <1>2, <1>4, <1>5
<1> QED BY <1>4, <1>6 DEF Tallied

LEMMA DeleteUserKeeps ==
  ASSUME VoteInv, NEW u \in Users, DeleteUser(u)
  PROVE  VoteInv'
<1>1. /\ gone' = gone \cup {u} /\ HoldBallot(u) = {}
      /\ ballot' = [ballot EXCEPT ![u] = NoBallot] /\ ghost' = [ghost EXCEPT ![u] = ballot[u]]
      /\ phase' = phase /\ options' = options /\ tally' = tally
      /\ votePc' = votePc /\ cast' = cast /\ edit' = edit
  BY DEF DeleteUser, topic
<1>2. /\ ballot'[u] = NoBallot /\ ghost'[u] = ballot[u]
      /\ \A v \in Users \ {u} : ballot'[v] = ballot[v] /\ ghost'[v] = ghost[v]
  BY <1>1 DEF VoteInv, VoteTypeOK
<1>3. VoteTypeOK'
  BY <1>1, BallotFacts DEF VoteInv, VoteTypeOK
<1>4. ASSUME NEW c \in Casts PROVE CastLocal(c)'
  <2>1. CastLocal(c)
    BY DEF VoteInv
  <2>2. Rows(c)' = Rows(c) /\ Moves(c)' = Moves(c) /\ Delete(cast[c].option)' = Delete(cast[c].option)
    BY <1>1 DEF Rows, Moves, Delete
  <2>3. votePc[c] \in CastWriting => cast[c].user /= u
    BY <1>1 DEF HoldBallot, CastWriting
  <2>4. cast[c].user \in Users /\ cast[c].user /= u => ballot'[cast[c].user] = ballot[cast[c].user]
    BY <1>2
  <2> QED BY <1>1, <2>1, <2>2, <2>3, <2>4 DEF CastLocal, CastWriting
<1>5. ASSUME NEW m \in Managers PROVE EditLocal(m)'
  BY <1>1 DEF VoteInv, EditLocal
<1>6. VotersApart' /\ OneHolder' /\ EditsFit'
  BY <1>1 DEF VoteInv, VotersApart, OneHolder, HoldTopic, EditsFit, Edits, Editing
<1>7. PastOptions'
  <2>1. \A o : Past(o)' <=> Past(o)
    BY <1>1 DEF Past
  <2>2. Past(ballot[u].option)
    BY PastOfOptions DEF VoteInv, BallotRows
  <2>3. \A c \in Casts : votePc[c] /= "idle" => Past(cast[c].option)'
    BY <1>1, <2>1 DEF VoteInv, PastOptions
  <2>4. ASSUME NEW v \in Users PROVE Past(ghost[v].option)'
    BY <1>2, <2>1, <2>2 DEF VoteInv, PastOptions
  <2> QED BY <1>1, <2>3, <2>4 DEF PastOptions
<1>8. BallotRows'
  BY <1>1, <1>2 DEF VoteInv, BallotRows, NoBallot
<1>9. OpensEmpty' /\ BeforeOpening'
  BY <1>1, <1>2 DEF VoteInv, OpensEmpty, BeforeOpening
<1>10. Tallied'
  BY DeleteUserTallies
<1> QED BY <1>3, <1>4, <1>5, <1>6, <1>7, <1>8, <1>9, <1>10 DEF VoteInv

-----------------------------------------------------------------------------
(* The invariant *)

LEMMA EditKeeps ==
  ASSUME VoteInv, NEW m \in Managers, EditStep(m)
  PROVE  VoteInv'
BY LockTopicKeeps, LockOptionKeeps, RemoveKeeps, DropEditKeeps DEF EditStep, RefuseEdit

LEMMA VoteStep == VoteInv /\ [VoteNext]_voteVars => VoteInv'
<1> SUFFICES ASSUME VoteInv, [VoteNext]_voteVars PROVE VoteInv'
  OBVIOUS
<1>1. CASE \E c \in Casts, u \in Users, o \in Ids : BeginCast(c, u, o)
  BY <1>1, BeginKeeps
<1>2. CASE \E c \in Casts : CastStep(c)
  BY <1>2, CastKeeps
<1>3. CASE \E m \in Managers, kind \in {"edit", "delete"} : ReadTopic(m, kind)
  BY <1>3, ReadKeeps
<1>4. CASE \E m \in Managers : EditStep(m)
  BY <1>4, EditKeeps
<1>5. CASE \E x \in Casts \cup Managers : Drop(x)
  BY <1>5, DropCastKeeps, DropEditKeeps DEF Drop
<1>6. CASE Opens \/ Closes
  BY <1>6, PhaseKeeps
<1>7. CASE \E u \in Users : DeleteUser(u)
  BY <1>7, DeleteUserKeeps
<1>8. CASE UNCHANGED voteVars
  <2>1. UNCHANGED <<topic, ballot, gone, votePc, cast, edit, ghost>>
    BY <1>8 DEF voteVars, topic
  <2> QED BY <1>8, <2>1 DEF voteVars, VoteInv, VoteTypeOK, CastLocal, Rows, Moves, Delete,
      EditLocal, VotersApart, OneHolder, HoldTopic, EditsFit, Editing, Edits, PastOptions,
      Past, BallotRows, BeforeOpening, OpensEmpty, Tallied
<1> QED BY <1>1, <1>2, <1>3, <1>4, <1>5, <1>6, <1>7, <1>8 DEF VoteNext

LEMMA VoteBase == VoteInit => VoteInv
<1> SUFFICES ASSUME VoteInit PROVE VoteInv
  OBVIOUS
<1>1. 0 \in Nat /\ MaxEdits \in Nat /\ options = Batch(0) /\ options \subseteq Ids
  BY BatchFacts, LimitAssumption DEF VoteInit
<1>2. VoteTypeOK
  BY <1>1, BallotFacts DEF VoteInit, VoteTypeOK
<1>3. \A c \in Casts : CastLocal(c) /\ votePc[c] = "idle"
  BY DEF VoteInit, CastLocal, CastWriting
<1>4. \A m \in Managers : EditLocal(m) /\ votePc[m] = "idle"
  BY DEF VoteInit, EditLocal, NoPlan
<1>5. VotersApart /\ OneHolder /\ BeforeOpening
  BY <1>3, <1>4 DEF VotersApart, OneHolder, HoldTopic, BeforeOpening
<1>6. EditsFit
  <2>1. Editing = {}
    BY DEF VoteInit, Editing, NoPlan
  <2>2. Edits = 0
    BY <1>1, EditsOfBatch
  <2> QED BY <1>1, <2>1, <2>2, FS_EmptySet DEF EditsFit
<1>7. PastOptions /\ BallotRows
  <2>1. \A u \in Users : ghost[u] = NoBallot /\ ballot[u] = NoBallot /\ NoBallot.option = 0
    BY DEF VoteInit, NoBallot
  <2> QED BY <1>2, <1>3, <2>1, PastOfOptions DEF PastOptions, BallotRows, VoteInit
<1>8. OpensEmpty
  BY <1>1 DEF VoteInit, OpensEmpty
<1>9. Tallied
  <2>1. \A o \in Ids : Of(ballot, o) = {} /\ Of(ghost, o) = {}
    BY BallotFacts DEF VoteInit, Of, NoBallot
  <2>2. \A o \in Ids : /\ IsFiniteSet(Of(ballot, o)) /\ IsFiniteSet(Of(ghost, o))
                       /\ Count(ballot, o) = 0 /\ Count(ghost, o) = 0
                       /\ Power(ballot, o) = 0 /\ Power(ghost, o) = 0
    BY <2>1, TotalOfNone, FS_EmptySet DEF Count, Power
  <2>3. \A o \in options : tally[o].count = 0 /\ tally[o].power = 0
    BY <1>1 DEF VoteInit
  <2> QED BY <1>1, <2>2, <2>3 DEF Tallied
<1> QED BY <1>2, <1>3, <1>4, <1>5, <1>6, <1>7, <1>8, <1>9 DEF VoteInv

LEMMA VoteAlways == VoteSpec => []VoteInv
  BY VoteBase, VoteStep, PTL DEF VoteSpec

-----------------------------------------------------------------------------
(* What the runs check *)

\* The sum that the property is stated with, over the ballots of a finite set of
\* users.
LEMMA PowersTotal ==
  ASSUME NEW b \in [Users -> Ballot], NEW S \in SUBSET Users, IsFiniteSet(S)
  PROVE  MapThenSumSet(LAMBDA u : b[u].power, S) = Total([u \in Users |-> b[u].power], S)
<1> DEFINE f == [u \in Users |-> b[u].power]
           Q(g) == g = [s \in SUBSET S |->
                          IF s = {} THEN 0
                          ELSE b[CHOOSE x \in s : TRUE].power + g[s \ {CHOOSE x \in s : TRUE}]]
           h == CHOOSE g : Q(g)
<1>1. \A s \in SUBSET S : s /= {} => First(s) \in Users /\ f[First(s)] = b[First(s)].power
  BY FirstIn
<1>2. \A g : Q(g) <=> PartialSums(g, f, S)
  BY ZenonT(30), <1>1 DEF PartialSums, First
<1>3. MapThenSumSet(LAMBDA u : b[u].power, S) = h[S]
  BY DEF MapThenSumSet, MapThenFoldSet
<1> HIDE DEF f, Q
<1>4. Q(h)
  BY <1>2, PartialSumsExist
<1> HIDE DEF h
<1>5. h[S] = Total(f, S)
  BY <1>2, <1>4, PartialSumsGiveTotal
<1> QED BY <1>3, <1>5, Zenon DEF f

LEMMA TalliesMatch == VoteInv => TalliesMatchBallots
<1> SUFFICES ASSUME VoteInv, NEW o \in options
    PROVE  /\ tally[o].count = Cardinality(VotersOf(o)) + Cardinality(GhostsOf(o))
           /\ tally[o].power = MapThenSumSet(LAMBDA u : ballot[u].power, VotersOf(o))
                               + MapThenSumSet(LAMBDA u : ghost[u].power, GhostsOf(o))
  BY DEF TalliesMatchBallots, CountsMatchBallots, PowersMatchBallots
<1>1. /\ o \in Ids /\ ballot \in [Users -> Ballot] /\ ghost \in [Users -> Ballot]
  BY DEF VoteInv, VoteTypeOK
<1>2. VotersOf(o) = Of(ballot, o) /\ GhostsOf(o) = Of(ghost, o)
  BY DEF VotersOf, GhostsOf, Of
<1>3. /\ IsFiniteSet(VotersOf(o)) /\ VotersOf(o) \in SUBSET Users
      /\ IsFiniteSet(GhostsOf(o)) /\ GhostsOf(o) \in SUBSET Users
  BY <1>1, <1>2 DEF VoteInv, Tallied, VotersOf, GhostsOf
<1>4. MapThenSumSet(LAMBDA u : ballot[u].power, VotersOf(o)) = Total([u \in Users |-> ballot[u].power], VotersOf(o))
  BY <1>1, <1>3, PowersTotal
<1>5. MapThenSumSet(LAMBDA u : ghost[u].power, GhostsOf(o)) = Total([u \in Users |-> ghost[u].power], GhostsOf(o))
  BY <1>1, <1>3, PowersTotal
<1>6. /\ tally[o].count = Count(ballot, o) + Count(ghost, o)
      /\ tally[o].power = Power(ballot, o) + Power(ghost, o)
  BY DEF VoteInv, Tallied
<1>7. tally[o].count = Cardinality(VotersOf(o)) + Cardinality(GhostsOf(o))
  BY <1>2, <1>6 DEF Count
<1>8. tally[o].power = Total([u \in Users |-> ballot[u].power], VotersOf(o))
                       + Total([u \in Users |-> ghost[u].power], GhostsOf(o))
  BY <1>2, <1>6 DEF Power
<1> HIDE DEF VoteInv
<1> QED BY <1>4, <1>5, <1>7, <1>8, Zenon

\* The variables have their types.
THEOREM VoteTypeOKAlways == VoteSpec => []VoteTypeOK
<1>1. VoteInv => VoteTypeOK
  BY DEF VoteInv
<1> QED BY <1>1, VoteAlways, PTL

\* What an option shows, its count and its power, is what the ballots that name it
\* add up to, however casts, edits, deletions and failures overlap: only the
\* ballots of users who have deleted their account stay in it.
THEOREM TalliesMatchBallotsAlways == VoteSpec => []TalliesMatchBallots
BY TalliesMatch, VoteAlways, PTL

\* A topic that has not opened has no ballots and no counts.
THEOREM OpensEmptyAlways == VoteSpec => []OpensEmpty
<1>1. VoteInv => OpensEmpty
  BY DEF VoteInv
<1> QED BY <1>1, VoteAlways, PTL

\* A manager who waits in a circle of such, none of them late: the topic has not
\* opened, so no cast holds anything, and a manager waits for none who waits.
LEMMA NoManagerStuck ==
  ASSUME VoteInv, NEW S \in SUBSET (Casts \cup Managers), Stuck(S),
         \A n \in S \cap Managers : ~edit[n].late
  PROVE  S \cap Managers = {}
<1> SUFFICES ASSUME NEW m \in S \cap Managers PROVE FALSE
  OBVIOUS
<1>1. ASSUME NEW n \in S \cap Managers PROVE votePc[n] \in {"topic", "options", "ballots"}
  <2>1. Blockers(n) /= {} /\ EditLocal(n)
    BY DEF Stuck, VoteInv
  <2>2. votePc[n] /= "idle"
    BY <2>1 DEF Blockers
  <2> QED BY <2>1, <2>2 DEF EditLocal
<1>2. phase = "upcoming"
  <2>1. EditLocal(m) /\ ~edit[m].late
    BY DEF VoteInv
  <2> QED BY <1>1, <2>1 DEF EditLocal
<1>3. \A c \in Casts : votePc[c] \notin CastWriting
  <2>1. "idle" \notin CastWriting
    BY DEF CastWriting
  <2> QED BY <1>2, <2>1 DEF VoteInv, BeforeOpening
<1>4. ASSUME NEW n \in S \cap Managers PROVE votePc[n] = "topic"
  <2>1. Blockers(n) /= {}
    BY DEF Stuck
  <2>2. votePc[n] /= "options"
    <3>1. \A o : Share(o) = {} /\ Write(o) = {}
      BY <1>3 DEF Share, Write, CastWriting
    <3>2. votePc[n] = "options" => Blockers(n) = Share(NextOption(n)) \cup Write(NextOption(n))
      BY DEF Blockers
    <3> QED BY <2>1, <3>1, <3>2
  <2>3. votePc[n] /= "ballots"
    <3>1. \A u : HoldBallot(u) = {}
      BY <1>3 DEF HoldBallot, CastWriting
    <3>2. votePc[n] = "ballots" =>
            Blockers(n) = UNION {HoldBallot(u) : u \in {v \in Users : ballot[v].option /= 0}}
      BY DEF Blockers
    <3> QED BY <2>1, <3>1, <3>2
  <2> QED BY <1>1, <2>2, <2>3
<1>5. Blockers(m) \cap S /= {}
  BY DEF Stuck
<1>6. ShareTopic = {}
  BY <1>3 DEF ShareTopic, CastWriting
<1>7. Blockers(m) \subseteq HoldTopic
  BY <1>4, <1>6 DEF Blockers
<1>8. PICK n \in S : n \in HoldTopic
  BY <1>5, <1>7
<1>9. n \in S \cap Managers /\ votePc[n] /= "topic"
  BY <1>8 DEF HoldTopic
<1> QED BY <1>4, <1>9

\* What a cast waits for, if not for a manager: the row of an option that another
\* cast has written before its second.
LEMMA CastWaits ==
  ASSUME VoteInv, NEW c \in Casts, NEW b \in Blockers(c), b \notin Managers
  PROVE  /\ votePc[c] \in CastWriting /\ Rows(c) /= <<>>
         /\ b \in Casts /\ votePc[b] = "second" /\ Rows(b)[1] = NextRow(c)
<1>1. CastLocal(c)
  BY DEF VoteInv
<1>2. votePc[c] \in {"upsert"} \cup CastWriting
  <2>1. votePc[c] \notin {"idle", "find"}
    BY DEF Blockers
  <2> QED BY <1>1, <2>1 DEF CastLocal
<1>3. \A o : Delete(o) \subseteq Managers
  BY DEF Delete
<1>4. votePc[c] /= "upsert"
  <2> SUFFICES ASSUME votePc[c] = "upsert" PROVE FALSE
    OBVIOUS
  <2>1. b \in HoldBallot(cast[c].user) \ {c}
    <3>1. Blockers(c) = (HoldBallot(cast[c].user) \ {c})
            \cup (IF cast[c].old.option = cast[c].option THEN {} ELSE Delete(cast[c].option))
            \cup (IF cast[c].old = NoBallot THEN DeleteTopic ELSE {})
      BY DEF Blockers
    <3>2. DeleteTopic \subseteq Managers
      BY DEF DeleteTopic, HoldTopic
    <3> QED BY <1>3, <3>1, <3>2
  <2>2. b \in Casts /\ votePc[b] /= "idle" /\ cast[b].user = cast[c].user /\ b /= c
    BY <2>1 DEF HoldBallot
  <2> QED BY <2>2 DEF VoteInv, VotersApart
<1>5. votePc[c] \in {"first", "second"}
  BY <1>2, <1>4 DEF CastWriting
<1>6. Blockers(c) = (Write(NextRow(c)) \ {c}) \cup Delete(NextRow(c))
  BY <1>5 DEF Blockers
<1>7. b \in Write(NextRow(c))
  BY <1>3, <1>6
<1> QED BY <1>1, <1>5, <1>7 DEF Write, CastLocal, CastWriting

\* Casts write the rows of two options in the order of their ids: the one with the
\* greatest first row waits for none of the others.
LEMMA NoCastsStuck ==
  ASSUME VoteInv, NEW S \in SUBSET Casts PROVE ~Stuck(S)
<1> SUFFICES ASSUME Stuck(S) PROVE FALSE
  OBVIOUS
<1> DEFINE T == {c \in S : votePc[c] = "second"}
           R == {Rows(c)[1] : c \in T}
<1>1. \A c \in S : \E b \in S : b \in Blockers(c) /\ b \in Casts /\ b \notin Managers
  BY ActorAssumption DEF Stuck
<1>2. \A c \in S : \E b \in T : Rows(b)[1] = NextRow(c)
  <2> SUFFICES ASSUME NEW c \in S PROVE \E b \in T : Rows(b)[1] = NextRow(c)
    OBVIOUS
  <2>1. PICK b \in S : b \in Blockers(c) /\ b \in Casts /\ b \notin Managers
    BY <1>1
  <2>2. votePc[b] = "second" /\ Rows(b)[1] = NextRow(c)
    BY <2>1, CastWaits
  <2> QED BY <2>2
<1>3. ASSUME NEW c \in T
      PROVE  /\ NextRow(c) = Rows(c)[2]
             /\ Rows(c)[1] \in Ids /\ Rows(c)[2] \in Ids /\ Rows(c)[1] < Rows(c)[2]
  <2>1. votePc[c] = "second" /\ CastLocal(c) /\ VoteTypeOK /\ c \in Casts
    BY DEF VoteInv
  <2>2. Moves(c) /\ cast[c].option \in Ids
    BY <2>1 DEF CastLocal
  <2> QED BY <2>1, <2>2, RowsFacts DEF NextRow
<1>4. R /= {}
  <2>1. PICK c \in S : TRUE
    BY DEF Stuck
  <2> QED BY <1>2, <2>1
<1>5. PICK n \in Nat : Ids = 1..n
  BY OptionAssumption, LimitAssumption DEF Ids
<1>6. R \subseteq 1..n
  BY <1>3, <1>5
<1>7. PICK x \in R : \A y \in R : y <= x
  <2> HIDE DEF R
  <2> QED BY <1>4, <1>6, Greatest
<1>8. PICK c \in T : x = Rows(c)[1]
  BY <1>7
<1>9. PICK b \in T : Rows(b)[1] = Rows(c)[2]
  BY <1>2, <1>3, <1>8
<1>10. Rows(b)[1] \in R /\ Rows(b)[1] \in Int /\ Rows(c)[1] \in Int
  BY <1>3, <1>5, <1>8, <1>9
<1>11. Rows(b)[1] <= Rows(c)[1] /\ Rows(c)[1] < Rows(b)[1]
  BY <1>3, <1>7, <1>8, <1>9, <1>10
<1> QED BY <1>10, <1>11

\* Casts never wait for each other in a circle, and neither do edits and deletions
\* that read the topic in time: a deadlock has a late one in it.
THEOREM DeadlockNeedsLateEditAlways == VoteSpec => []DeadlockNeedsLateEdit
<1>1. VoteInv => DeadlockNeedsLateEdit
  <2> SUFFICES ASSUME VoteInv, NEW S \in SUBSET (Casts \cup Managers), Stuck(S),
                      \A n \in S \cap Managers : ~edit[n].late
               PROVE  FALSE
    BY DEF DeadlockNeedsLateEdit
  <2>1. S \cap Managers = {}
    BY NoManagerStuck
  <2>2. S \in SUBSET Casts
    BY <2>1
  <2> QED BY <2>2, NoCastsStuck
<1> QED BY <1>1, VoteAlways, PTL

\* A ballot that was cast disappears only with its user, or through an edit or a
\* deletion that had read the topic before it opened.
THEOREM BallotsSurviveAlways == VoteSpec => BallotsSurvive
<1> DEFINE Cleared(u) == ballot[u] /= NoBallot /\ ballot'[u] = NoBallot
           Explained(u) == (u \in gone') \/ \E m \in Managers : edit[m].late /\ votePc'[m] = "idle"
<1>1. ASSUME VoteInv, [VoteNext]_voteVars, NEW u \in Users, Cleared(u) PROVE Explained(u)
  <2>1. ballot' /= ballot
    BY <1>1
  <2>2. CASE \E c \in Casts : CastStep(c)
    <3>1. PICK c \in Casts : CastStep(c)
      BY <2>2
    <3>2. CommitCast(c) /\ votePc[c] \in {"upsert", "first", "second"}
      BY <2>1, <3>1 DEF CastStep, FindBallot, RefuseVoter, Upsert, WriteFirst, WriteSecond,
         RefuseBallot, DropCast
    <3>3. cast[c].option \in Ids
      BY <1>1, <3>2 DEF VoteInv, CastLocal
    <3>4. ballot'[u] = ballot[u] \/ ballot'[u].option = cast[c].option
      BY <1>1, <3>2 DEF CommitCast, VoteInv, VoteTypeOK
    <3>5. NoBallot.option = 0 /\ 0 \notin Ids
      BY BallotFacts DEF NoBallot
    <3> QED BY <1>1, <3>3, <3>4, <3>5
  <2>3. CASE \E m \in Managers : EditStep(m)
    <3>1. PICK m \in Managers : EditStep(m)
      BY <2>3
    <3>2. RemoveOptions(m)
      BY <2>1, <3>1 DEF EditStep, LockTopic, LockOption, RefuseEdit, DropEdit, CommitEdit, CommitDelete
    <3>3. votePc[m] = "ballots" /\ votePc'[m] = "idle"
      BY <1>1, <3>2 DEF RemoveOptions, VoteGoto, VoteInv, VoteTypeOK
    <3>4. phase /= "upcoming"
      BY <1>1 DEF VoteInv, OpensEmpty
    <3>5. edit[m].late
      BY <1>1, <3>3, <3>4 DEF VoteInv, EditLocal
    <3> QED BY <3>3, <3>5
  <2>4. CASE \E v \in Users : DeleteUser(v)
    BY <1>1, <2>4 DEF DeleteUser, VoteInv, VoteTypeOK
  <2>5. CASE \/ \E c \in Casts, v \in Users, o \in Ids : BeginCast(c, v, o)
             \/ \E m \in Managers, kind \in {"edit", "delete"} : ReadTopic(m, kind)
             \/ \E x \in Casts \cup Managers : Drop(x)
             \/ Opens \/ Closes
             \/ UNCHANGED voteVars
    BY <2>1, <2>5 DEF BeginCast, ReadTopic, Drop, DropCast, DropEdit, Opens, Closes, voteVars
  <2> QED BY <1>1, <2>2, <2>3, <2>4, <2>5 DEF VoteNext
<1>2. VoteInv /\ [VoteNext]_voteVars => [\A u \in Users : Cleared(u) => Explained(u)]_voteVars
  BY <1>1
<1> QED BY <1>2, VoteAlways, PTL DEF VoteSpec, BallotsSurvive

-----------------------------------------------------------------------------
(* A topic is a poll *)

\* A commit is a cast of the poll: what it takes away is what it read, which is the
\* ballot there is.
LEMMA CommitIsCast ==
  ASSUME VoteInv, NEW c \in Casts, Ready(c), CommitCast(c)
  PROVE  \E u \in Users, b \in [option: Ids, power: 1..MaxWeight] : Poll!Cast(u, b)
<1> PICK u \in Users, n \in [option: Ids, power: 1..MaxWeight] :
      u = cast[c].user /\ n = [option |-> cast[c].option, power |-> cast[c].power]
  BY DEF Ready
<1> DEFINE old == ballot[u]
<1>1. /\ n \in Ballot /\ old \in Ballot
      /\ n.option = cast[c].option /\ n.power = cast[c].power
      /\ phase /= "upcoming" /\ u \notin gone /\ n.option \in options /\ options \subseteq Ids
  BY BallotFacts DEF VoteInv, VoteTypeOK, Ready
<1>2. /\ ballot' = [ballot EXCEPT ![u] = n] /\ cast[c].old = old /\ tally' = Counted(c)
      /\ options' = options /\ phase' = phase /\ gone' = gone
  BY DEF CommitCast, Ready
<1> HIDE DEF old
<1>3. /\ tally' \in [Ids -> [count: Int, power: Int]]
      /\ \A o \in Ids :
           /\ tally'[o].count = tally[o].count - One(old, o) + One(n, o)
           /\ tally'[o].power = tally[o].power - Weight(old, o) + Weight(n, o)
  BY <1>1, <1>2, CountedFacts DEF VoteInv
<1>4. ASSUME NEW o \in options
      PROVE  tally'[o] = [count |-> tally[o].count - One(old, o) + One(n, o),
                          power |-> tally[o].power - Weight(old, o) + Weight(n, o)]
  BY <1>1, <1>3
<1>5. [o \in options' |-> tally'[o]] =
        [o \in options |-> [count |-> tally[o].count - One(old, o) + One(n, o),
                            power |-> tally[o].power - Weight(old, o) + Weight(n, o)]]
  BY <1>2, <1>4
<1> DEFINE shown == [o \in options |-> tally[o]]
<1>6. DOMAIN shown = options /\ \A o \in options : shown[o] = tally[o]
  OBVIOUS
<1>7. Poll!Moved(old, n) =
        [o \in options |-> [count |-> tally[o].count - One(old, o) + One(n, o),
                            power |-> tally[o].power - Weight(old, o) + Weight(n, o)]]
  BY <1>6 DEF Poll!Moved, Poll!Options, Poll!CountOf, Poll!PowerOf, One, Weight
<1>8. Poll!Cast(u, n)
  BY <1>1, <1>2, <1>5, <1>6, <1>7 DEF Poll!Cast, Poll!Options, old
<1> QED BY <1>8

LEMMA EditIsFreshStart ==
  ASSUME VoteInv, NEW m \in Managers,
         CommitDelete(m) \/ \E after \in {"upcoming", "open", "closed"} : CommitEdit(m, after)
  PROVE  \E fresh \in SUBSET Ids, after \in {"upcoming", "open", "closed"} : Poll!StartOver(fresh, after)
<1> DEFINE zero == [count |-> 0, power |-> 0]
<1>1. /\ options /= {} /\ options \subseteq Ids /\ gone' = gone
      /\ ballot' = [u \in Users |-> NoBallot] /\ tally' = [o \in Ids |-> zero]
      /\ phase \in {"upcoming", "open", "closed"}
  BY DEF CommitDelete, CommitEdit, RemoveOptions, VoteInv, VoteTypeOK, EditLocal
<1>2. /\ options' \subseteq Ids /\ options' \cap options = {}
      /\ phase' \in {"upcoming", "open", "closed"} /\ (options' = {} => phase' = phase)
  <2>1. CASE CommitDelete(m)
    BY <1>1, <2>1 DEF CommitDelete
  <2>2. CASE \E after \in {"upcoming", "open", "closed"} : CommitEdit(m, after)
    <3>1. PICK after \in {"upcoming", "open", "closed"} : CommitEdit(m, after)
      BY <2>2
    <3>2. /\ options' \subseteq Ids /\ options' /= {} /\ \A p \in options, o \in options' : p < o
      BY <3>1, FreshOptions
    <3>3. \A o \in options' : o \notin options
      <4>1. \A o \in Ids : o \in Int /\ ~(o < o)
        BY BallotFacts
      <4> QED BY <3>2, <4>1
    <3> QED BY <3>1, <3>2, <3>3 DEF CommitEdit
  <2> QED BY <2>1, <2>2
<1> PICK fresh \in SUBSET Ids, after \in {"upcoming", "open", "closed"} : fresh = options' /\ after = phase'
  BY <1>2
<1> HIDE DEF zero
<1>3. [o \in options' |-> tally'[o]] = [o \in fresh |-> zero]
  BY <1>1
<1>4. DOMAIN [o \in options |-> tally[o]] = options
  OBVIOUS
<1>5. Poll!StartOver(fresh, after)
  BY <1>1, <1>2, <1>3, <1>4 DEF Poll!StartOver, Poll!Options, Poll!Nothing, zero
<1> QED BY <1>5

\* Every step is one of the poll, or nothing that shows.
LEMMA VoteIsPoll ==
  ASSUME VoteInv, [VoteNext]_voteVars
  PROVE  [Poll!PollNext]_<<phase, [o \in options |-> tally[o]], ballot, gone>>
<1> DEFINE shown == [o \in options |-> tally[o]]
           Seen == <<phase, shown, ballot, gone>>
<1> SUFFICES ASSUME Seen' /= Seen PROVE Poll!PollNext
  OBVIOUS
<1>1. \/ ~UNCHANGED phase \/ ~UNCHANGED options \/ ~UNCHANGED tally
      \/ ~UNCHANGED ballot \/ ~UNCHANGED gone
  OBVIOUS
<1>2. \/ \E u \in Users, b \in [option: Ids, power: 1..MaxWeight] : Poll!Cast(u, b)
      \/ \E fresh \in SUBSET Ids, after \in {"upcoming", "open", "closed"} : Poll!StartOver(fresh, after)
      \/ Poll!TimePasses
      \/ \E u \in Users : Poll!Depart(u)
  <2>1. ASSUME NEW c \in Casts, CastStep(c)
        PROVE  \E u \in Users, b \in [option: Ids, power: 1..MaxWeight] : Poll!Cast(u, b)
    <3>1. CommitCast(c) /\ Ready(c)
      <4>1. CommitCast(c) /\ (Upsert(c) \/ WriteFirst(c) \/ WriteSecond(c))
        BY <1>1, <2>1 DEF CastStep, FindBallot, RefuseVoter, Upsert, WriteFirst, WriteSecond,
           RefuseBallot, DropCast, topic
      <4> QED BY <4>1, ReadyFacts DEF Upsert, WriteFirst, WriteSecond, CastWriting
    <3> QED BY <3>1, CommitIsCast
  <2>2. ASSUME NEW m \in Managers, EditStep(m)
        PROVE  \E fresh \in SUBSET Ids, after \in {"upcoming", "open", "closed"} : Poll!StartOver(fresh, after)
    <3>1. CommitDelete(m) \/ \E after \in {"upcoming", "open", "closed"} : CommitEdit(m, after)
      BY <1>1, <2>2 DEF EditStep, LockTopic, LockOption, RefuseEdit, DropEdit, topic
    <3> QED BY <3>1, EditIsFreshStart
  <2>3. CASE Opens \/ Closes
    BY <2>3 DEF Opens, Closes, Poll!TimePasses
  <2>4. ASSUME NEW u \in Users, DeleteUser(u) PROVE Poll!Depart(u)
    BY <2>4 DEF DeleteUser, topic, Poll!Depart
  <2>5. ~ \/ \E c \in Casts, v \in Users, o \in Ids : BeginCast(c, v, o)
          \/ \E m \in Managers, kind \in {"edit", "delete"} : ReadTopic(m, kind)
          \/ \E x \in Casts \cup Managers : Drop(x)
          \/ UNCHANGED voteVars
    BY <1>1 DEF BeginCast, ReadTopic, Drop, DropCast, DropEdit, topic, voteVars
  <2> QED BY <2>1, <2>2, <2>3, <2>4, <2>5 DEF VoteNext
<1> HIDE DEF shown
<1>3. Poll!pollVars' /= Poll!pollVars
  BY DEF Poll!pollVars, shown
<1> QED BY <1>2, <1>3 DEF Poll!PollNext

\* A vote topic implements a poll: a cast takes effect in one step, and what the
\* options show changes with the ballot there is then, however long ago the cast has
\* read it; nothing is cast before the topic opens, by a user who has left, or for an
\* option of an earlier edit.
THEOREM VoteImplementsPoll == VoteSpec => ImplementsPoll
<1>1. VoteInit => Poll!PollInit
  <2> SUFFICES ASSUME VoteInit PROVE Poll!PollInit
    OBVIOUS
  <2>1. Batch(0) \subseteq Ids
    BY BatchFacts, LimitAssumption
  <2>2. [o \in options |-> tally[o]] = [o \in Batch(0) |-> [count |-> 0, power |-> 0]]
    BY <2>1 DEF VoteInit
  <2> QED BY <2>2 DEF VoteInit, Poll!PollInit, Poll!Nothing
<1>2. VoteInv /\ [VoteNext]_voteVars => [Poll!PollNext]_(Poll!pollVars)
  BY VoteIsPoll DEF Poll!pollVars
<1> QED BY <1>1, <1>2, VoteAlways, PTL DEF VoteSpec, ImplementsPoll, Poll!PollSpec
=============================================================================
