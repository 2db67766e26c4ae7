----------------------------- MODULE BatchProofs ------------------------------
(***************************************************************************)
(* Theorems about the two batches that write to a ledger outside: the      *)
(* weekly anchor batch (AnchorBatch) and the minting of NFTs (NftMinting), *)
(* for all sets of users, requests, runs, weeks and mints and for every    *)
(* bound.                                                                  *)
(***************************************************************************)
EXTENDS AnchorBatch, NftMinting, FiniteSums

-----------------------------------------------------------------------------
(* The anchor batch: the invariants                                        *)

\* The steps after the claim, and those of them before the transaction exists.
Claiming == {"build", "utxos", "submit", "mark", "await", "failed"}
Preparing == {"build", "utxos", "submit"}

\* Everything refers to rows that have been inserted.
RowsKnown ==
  /\ \A a \in Written : anchors[a].prev \in Written \cup {0}
  /\ \A r \in Requests : call[r].prev \in Written \cup {0}
  /\ \A b \in Runs : run[b].ids \subseteq Written
  /\ \A t \in Txs : Carried(t) \subseteq Written

\* The claim is exclusive: a row that has not strayed is held by one run at most, and
\* carries the batch it was claimed for.
Holds(b, a) == pc[b] \in Claiming /\ a \in run[b].ids /\ a \notin strayed

ClaimInv ==
  /\ \A b \in Runs : pc[b] /= "idle" => run[b].week \in Weeks
  /\ \A b \in Runs, a \in Anchors : Holds(b, a) => anchors[a].batch /= NoWeek
  /\ \A b1, b2 \in Runs, a \in Anchors : Holds(b1, a) /\ Holds(b2, a) => b1 = b2

\* No transaction carries a row that waits, or one that a run has yet to submit.
CarriedInv ==
  /\ \A t \in Txs : \A a \in Carried(t) : a \in strayed \/ anchors[a].batch /= NoWeek
  /\ \A t \in Txs, b \in Runs : \A a \in Carried(t) : ~(Holds(b, a) /\ pc[b] \in Preparing)
  /\ \A t \in Txs : chain[t].state = "none" => chain[t].ops = {}

\* Where a row or a run names a transaction, that one carries the row, or all the
\* rows of the run.
TxInv ==
  /\ \A a \in Anchors : anchors[a].tx /= 0 => a \in Carried(anchors[a].tx)
  /\ \A b \in Runs :
       /\ pc[b] = "submit" \/ pc[b] = "utxos" => {o.anchor : o \in run[b].ops} = run[b].ids
       /\ pc[b] \in {"mark", "await"} =>
            run[b].tx \in Accepted /\ Carried(run[b].tx) = run[b].ids
       /\ \A a \in Anchors : Holds(b, a) /\ pc[b] = "await" => anchors[a].tx = run[b].tx

\* An operation names a transaction that carries the operation before it.
Follows(o) == o.prev /= 0 => anchors[o.anchor].prev /= 0 /\ anchors[o.anchor].prev \in Carried(o.prev)

PrevInv ==
  /\ \A t \in Txs : \A o \in chain[t].ops : Follows(o)
  /\ \A b \in Runs : \A o \in run[b].ops : Follows(o) /\ o.anchor \in Written

Inv == TypeOK /\ RowsKnown /\ ClaimInv /\ CarriedInv /\ TxInv /\ PrevInv

-----------------------------------------------------------------------------
(* Type correctness *)

\* What a run has in memory, and where it is
RunTypes == pc \in [Runs -> Label] /\ run \in [Runs -> Memory]

LEMMA NothingTypes ==
  /\ NoMemory \in Memory /\ NoMemory.ids = {} /\ NoMemory.ops = {}
  /\ NoTx \in Tx /\ NoTx.ops = {} /\ NoTx.state = "none"
  BY DEF NoMemory, Memory, NoTx, Tx

LEMMA NoRowType == ASSUME NEW u \in Users PROVE NoRow(u) \in Row
  BY DEF NoRow, Row, Operation, Status

LEMMA LatestType ==
  ASSUME NEW u \in Users, RowsOf(u) /= {} PROVE Latest(u) \in Written
<1>1. RowsOf(u) \in SUBSET (1..MaxAnchors) /\ MaxAnchors \in Nat
  BY BoundAssumption DEF RowsOf, Written, Anchors
<1>2. \E x \in RowsOf(u) : \A y \in RowsOf(u) : y <= x
  BY <1>1, Greatest
<1> QED BY <1>2 DEF Latest, RowsOf

LEMMA MarkTypes ==
  ASSUME TypeOK, NEW b \in Runs, NEW s \in Status, NEW t \in Txs \cup {0}, Mark(b, s, t)
  PROVE  anchors' \in [Anchors -> Row]
<1>1. ASSUME NEW a \in Anchors
      PROVE  [anchors[a] EXCEPT !.status = s, !.tx = IF t = 0 THEN @ ELSE t] \in Row
  BY ZenonT(30) DEF TypeOK, Row
<1> QED BY <1>1 DEF Mark, TypeOK

LEMMA FinishTypes ==
  ASSUME TypeOK, NEW b \in Runs, Finish(b)
  PROVE  /\ RunTypes' /\ pc'[b] = "idle" /\ run'[b] = NoMemory
         /\ \A c \in Runs \ {b} : pc'[c] = pc[c] /\ run'[c] = run[c]
  BY NothingTypes DEF TypeOK, Finish, Goto, RunTypes, Label

\* A run moves on with the memory m.
LEMMA StepTypes ==
  ASSUME TypeOK, NEW b \in Runs, NEW label \in Label, NEW m \in Memory, Goto(b, label),
         run' = [run EXCEPT ![b] = m]
  PROVE  /\ RunTypes' /\ pc'[b] = label /\ run'[b] = m
         /\ \A c \in Runs \ {b} : pc'[c] = pc[c] /\ run'[c] = run[c]
  BY DEF TypeOK, Goto, RunTypes

\* What a step does to the run b: it is at label then, and remembers m.
Moves(b, label, m) ==
  /\ pc'[b] = label /\ run'[b] = m
  /\ \A c \in Runs \ {b} : pc'[c] = pc[c] /\ run'[c] = run[c]

\* A run takes a step that touches no row and no transaction.
Looks(b) ==
  /\ UNCHANGED <<anchors, chain, unspent, call>>
  /\ \/ pc[b] = "idle" /\ \E w \in Weeks : Moves(b, "find", [run[b] EXCEPT !.week = w])
     \/ pc[b] = "find" /\ Moves(b, "claim", [run[b] EXCEPT !.ids = Waiting])
     \/ Moves(b, "idle", NoMemory)
     \/ /\ pc[b] = "build"
        /\ Moves(b, "utxos",
                 [run[b] EXCEPT !.ops = {[anchor |-> a, prev |-> PrevHash(a)] : a \in run[b].ids}])
     \/ pc[b] = "utxos" /\ Moves(b, "submit", [run[b] EXCEPT !.input = unspent])
     \/ pc[b] \in Claiming /\ Moves(b, "failed", run[b])
  /\ UNCHANGED strayed

LEMMA LooksFacts ==
  ASSUME TypeOK, NEW b \in Runs,
         \/ \E w \in Weeks : StartRun(b, w)
         \/ FindPending(b) \/ BuildOps(b) \/ GetUtxos(b)
         \/ Throw(b) \/ Crash(b) \/ (Claim(b) /\ Claimable(b) = {})
  PROVE  Looks(b) /\ TypeOK'
<1>0. run[b] \in Memory /\ pc[b] \in Label
  BY DEF TypeOK
<1>1. ASSUME NEW w \in Weeks, StartRun(b, w) PROVE Looks(b) /\ TypeOK'
  <2> DEFINE m == [run[b] EXCEPT !.week = w]
  <2>1. m \in Memory
    BY <1>0 DEF Memory
  <2>2. run' = [run EXCEPT ![b] = m] /\ "find" \in Label
    BY <1>1 DEF StartRun, Label
  <2> HIDE DEF m
  <2>3. RunTypes' /\ Moves(b, "find", m)
    BY ZenonT(30), <1>1, <2>1, <2>2, StepTypes DEF StartRun, Moves
  <2>4. UNCHANGED <<anchors, chain, unspent, call, strayed, orphaned>> /\ pc[b] = "idle"
    BY <1>1 DEF StartRun, ledger
  <2> QED BY <2>3, <2>4 DEF Looks, TypeOK, RunTypes, m
<1>2. CASE FindPending(b) /\ Waiting /= {}
  <2> DEFINE m == [run[b] EXCEPT !.ids = Waiting]
  <2>1. m \in Memory
    BY <1>0 DEF Memory, Waiting, Written
  <2>2. run' = [run EXCEPT ![b] = m] /\ "claim" \in Label
    BY <1>2 DEF FindPending, Label
  <2> HIDE DEF m
  <2>3. RunTypes' /\ Moves(b, "claim", m)
    BY <1>2, <2>1, <2>2, StepTypes DEF FindPending, Moves
  <2>4. UNCHANGED <<anchors, chain, unspent, call, strayed, orphaned>> /\ pc[b] = "find"
    BY <1>2 DEF FindPending, ledger
  <2> QED BY <2>3, <2>4 DEF Looks, TypeOK, RunTypes, m
<1>3. CASE BuildOps(b)
  <2> DEFINE ops == {[anchor |-> a, prev |-> PrevHash(a)] : a \in run[b].ids}
             m == [run[b] EXCEPT !.ops = ops]
  <2>1. run[b].ids \subseteq Anchors
    BY <1>0 DEF Memory
  <2>2. ASSUME NEW a \in Anchors PROVE PrevHash(a) \in Txs \cup {0}
    BY DEF TypeOK, Row, PrevHash
  <2>3. ops \subseteq DidOp
    BY <2>1, <2>2 DEF DidOp
  <2>4. m \in Memory
    BY <1>0, <2>3 DEF Memory
  <2>5. run' = [run EXCEPT ![b] = m] /\ "utxos" \in Label
    BY <1>3 DEF BuildOps, Label
  <2> HIDE DEF m
  <2>6. RunTypes' /\ Moves(b, "utxos", m)
    BY <1>3, <2>4, <2>5, StepTypes DEF BuildOps, Moves
  <2>7. UNCHANGED <<anchors, chain, unspent, call, strayed, orphaned>> /\ pc[b] = "build"
    BY <1>3 DEF BuildOps, ledger
  <2> QED BY <2>6, <2>7 DEF Looks, TypeOK, RunTypes, m
<1>4. CASE GetUtxos(b)
  <2> DEFINE m == [run[b] EXCEPT !.input = unspent]
  <2>1. m \in Memory
    BY <1>0 DEF Memory, TypeOK
  <2>2. run' = [run EXCEPT ![b] = m] /\ "submit" \in Label
    BY <1>4 DEF GetUtxos, Label
  <2> HIDE DEF m
  <2>3. RunTypes' /\ Moves(b, "submit", m)
    BY <1>4, <2>1, <2>2, StepTypes DEF GetUtxos, Moves
  <2>4. UNCHANGED <<anchors, chain, unspent, call, strayed, orphaned>> /\ pc[b] = "utxos"
    BY <1>4 DEF GetUtxos, ledger
  <2> QED BY <2>3, <2>4 DEF Looks, TypeOK, RunTypes, m
<1>5. CASE Throw(b)
  <2>1. RunTypes' /\ Moves(b, "failed", run[b])
    BY <1>5 DEF Throw, Goto, Moves, RunTypes, TypeOK, Label
  <2>2. UNCHANGED <<anchors, chain, unspent, call, strayed, orphaned>> /\ pc[b] \in Claiming
    BY <1>5 DEF Throw, ledger, Claiming
  <2> QED BY <2>1, <2>2 DEF Looks, TypeOK, RunTypes
<1>6. ASSUME Finish(b), UNCHANGED <<anchors, ledger, call, strayed>>,
             orphaned' \in SUBSET Anchors
      PROVE  Looks(b) /\ TypeOK'
  <2>1. RunTypes' /\ Moves(b, "idle", NoMemory)
    BY <1>6, FinishTypes DEF Moves
  <2> QED BY <1>6, <2>1 DEF Looks, TypeOK, RunTypes, ledger
<1>7. CASE Crash(b)
  <2>1. orphaned' \in SUBSET Anchors
    BY <1>0, <1>7 DEF Crash, TypeOK, Memory
  <2> QED BY <1>6, <1>7, <2>1 DEF Crash
<1>8. CASE FindPending(b) /\ Waiting = {}
  BY <1>6, <1>8 DEF FindPending, TypeOK
<1>9. CASE Claim(b) /\ Claimable(b) = {}
  BY <1>6, <1>9 DEF Claim, TypeOK
<1> QED BY <1>1, <1>2, <1>3, <1>4, <1>5, <1>7, <1>8, <1>9

\* A DID operation is read: its call is to link to the user's latest row.
LEMMA ReadDidFacts ==
  ASSUME TypeOK, NEW r \in Requests, NEW u \in Users, NEW op \in Operation, ReadDid(r, u, op)
  PROVE  /\ UNCHANGED <<anchors, chain, unspent, pc, run, strayed>> /\ TypeOK'
         /\ \A q \in Requests : call'[q].prev \in Written \cup {0, call[q].prev}
<1> DEFINE c == [op |-> op, user |-> u, prev |-> IF op = "CREATE" THEN 0 ELSE Latest(u)]
<1>1. op /= "CREATE" => RowsOf(u) /= {}
  BY DEF ReadDid, MayRequest, Operation
<1>2. c.prev \in Written \cup {0}
  BY <1>1, LatestType
<1>3. c \in Call
  BY <1>2 DEF Call, Written
<1>4. call' = [call EXCEPT ![r] = c]
  BY DEF ReadDid
<1> HIDE DEF c
<1>5. call' \in [Requests -> Call] /\ \A q \in Requests : call'[q] \in {c, call[q]}
  BY <1>3, <1>4 DEF TypeOK
<1>6. UNCHANGED <<anchors, chain, unspent, pc, run, strayed, orphaned>>
  BY DEF ReadDid, ledger
<1> QED BY <1>2, <1>5, <1>6 DEF TypeOK

\* The row is inserted behind the ones there are.
Inserts(r, a) ==
  /\ a \notin Written /\ Written' = Written \cup {a}
  /\ anchors'[a].prev = call[r].prev /\ anchors'[a].tx = 0
  /\ anchors'[a].status = "PENDING" /\ anchors'[a].batch = NoWeek
  /\ \A x \in Anchors \ {a} : anchors'[x] = anchors[x]
  /\ \A q \in Requests : call'[q].prev \in {0, call[q].prev}
  /\ UNCHANGED <<chain, unspent, pc, run, strayed>>

LEMMA WriteDidFacts ==
  ASSUME TypeOK, NEW r \in Requests, NEW a \in Anchors, WriteDid(r, a)
  PROVE  Inserts(r, a) /\ TypeOK'
<1> DEFINE n == [NoRow(call[r].user) EXCEPT !.op = call[r].op, !.prev = call[r].prev]
<1>0. call[r] \in Call /\ NoCall.prev = 0 /\ AnyUser \in Users
  BY DEF TypeOK, NoCall, AnyUser, Call
<1>1. NoCall \in Call /\ NoCall.op = "NONE"
  BY <1>0 DEF NoCall, Call
<1>2. n \in Row /\ n.prev = call[r].prev /\ n.tx = 0 /\ n.status = "PENDING"
      /\ n.batch = NoWeek /\ n.op = call[r].op
  BY <1>0 DEF NoRow, Row, Call, Status
<1>3. anchors' = [anchors EXCEPT ![a] = n] /\ call' = [call EXCEPT ![r] = NoCall]
  BY DEF WriteDid
<1>4. UNCHANGED <<chain, unspent, pc, run, strayed, orphaned>>
  BY DEF WriteDid, ledger
<1> HIDE DEF n
<1>5. anchors'[a] = n /\ \A x \in Anchors \ {a} : anchors'[x] = anchors[x]
  BY <1>3 DEF TypeOK
<1>6. anchors' \in [Anchors -> Row] /\ call' \in [Requests -> Call]
  BY <1>1, <1>2, <1>3 DEF TypeOK
<1>7. \A q \in Requests : call'[q].prev \in {0, call[q].prev}
  BY <1>0, <1>3 DEF TypeOK
<1>8. a \notin Written
  BY BoundAssumption DEF WriteDid, Anchors
<1>9. call[r].op /= "NONE"
  BY DEF WriteDid
<1>10. Written' = Written \cup {a}
  BY <1>2, <1>5, <1>9 DEF Written
<1> QED BY <1>2, <1>4, <1>5, <1>6, <1>7, <1>8, <1>10 DEF Inserts, TypeOK

\* Some of the rows a run has read are claimed: the others stray.
Claims(b) ==
  /\ pc[b] = "claim" /\ Moves(b, "build", run[b])
  /\ \A a \in Anchors :
       /\ anchors'[a].prev = anchors[a].prev /\ anchors'[a].tx = anchors[a].tx
       /\ anchors'[a].status = anchors[a].status
       /\ a \notin Claimable(b) => anchors'[a] = anchors[a]
       /\ a \in Claimable(b) => anchors'[a].batch = run[b].week
  /\ Written' = Written
  /\ strayed' = strayed \cup (run[b].ids \ Claimable(b))
  /\ UNCHANGED <<chain, unspent, call>>

LEMMA ClaimFacts ==
  ASSUME TypeOK, NEW b \in Runs, Claim(b), Claimable(b) /= {}
  PROVE  Claims(b) /\ TypeOK'
<1>0. run[b] \in Memory /\ pc[b] = "claim"
  BY DEF TypeOK, Claim
<1>1. /\ anchors' = [a \in Anchors |->
            IF a \in Claimable(b) THEN [anchors[a] EXCEPT !.batch = run[b].week] ELSE anchors[a]]
      /\ strayed' = strayed \cup (run[b].ids \ Claimable(b))
      /\ Goto(b, "build") /\ UNCHANGED <<run, chain, unspent, call, orphaned>>
  BY DEF Claim, ledger
<1>2. ASSUME NEW a \in Anchors
      PROVE  /\ [anchors[a] EXCEPT !.batch = run[b].week] \in Row
             /\ anchors[a] \in Row
  BY <1>0 DEF TypeOK, Row, Memory
<1>3. anchors' \in [Anchors -> Row]
  BY <1>1, <1>2
<1>4. ASSUME NEW a \in Anchors
      PROVE  /\ anchors'[a].prev = anchors[a].prev /\ anchors'[a].tx = anchors[a].tx
             /\ anchors'[a].status = anchors[a].status /\ anchors'[a].op = anchors[a].op
             /\ a \notin Claimable(b) => anchors'[a] = anchors[a]
             /\ a \in Claimable(b) => anchors'[a].batch = run[b].week
  BY <1>1, <1>2 DEF Row
<1>5. Written' = Written
  BY <1>4 DEF Written
<1>6. RunTypes' /\ Moves(b, "build", run[b])
  BY <1>1 DEF Goto, Moves, RunTypes, TypeOK, Label
<1>7. strayed' \in SUBSET Anchors
  BY <1>0, <1>1 DEF TypeOK, Memory
<1> QED BY <1>0, <1>1, <1>3, <1>4, <1>5, <1>6, <1>7 DEF Claims, TypeOK, RunTypes

\* The rows of a run are updated, by id.
Marks(b, s, t) ==
  /\ \A a \in Anchors :
       /\ anchors'[a].prev = anchors[a].prev /\ anchors'[a].batch = anchors[a].batch
       /\ a \notin run[b].ids => anchors'[a] = anchors[a]
       /\ a \in run[b].ids => /\ anchors'[a].status = s
                             /\ anchors'[a].tx = IF t = 0 THEN anchors[a].tx ELSE t
  /\ Written' = Written
  /\ UNCHANGED <<chain, unspent, call, strayed>>

LEMMA MarkFacts ==
  ASSUME TypeOK, NEW b \in Runs, NEW s \in Status, NEW t \in Txs \cup {0}, Mark(b, s, t),
         UNCHANGED <<chain, unspent, call, strayed>>
  PROVE  Marks(b, s, t) /\ anchors' \in [Anchors -> Row]
<1>1. ASSUME NEW a \in Anchors
      PROVE  /\ anchors'[a].prev = anchors[a].prev /\ anchors'[a].batch = anchors[a].batch
             /\ anchors'[a].op = anchors[a].op
             /\ a \notin run[b].ids => anchors'[a] = anchors[a]
             /\ a \in run[b].ids => /\ anchors'[a].status = s
                                   /\ anchors'[a].tx = IF t = 0 THEN anchors[a].tx ELSE t
  BY DEF TypeOK, Row, Mark
<1>2. Written' = Written
  BY <1>1 DEF Written
<1> QED BY <1>1, <1>2, MarkTypes DEF Marks

LEMMA MarkSubmittedFacts ==
  ASSUME TypeOK, NEW b \in Runs, MarkSubmitted(b)
  PROVE  /\ pc[b] = "mark" /\ Moves(b, "await", run[b]) /\ Marks(b, "SUBMITTED", run[b].tx)
         /\ TypeOK'
<1>1. run[b].tx \in Txs \cup {0} /\ "SUBMITTED" \in Status
  BY DEF TypeOK, Memory, Status
<1>2. UNCHANGED <<chain, unspent, call, strayed, orphaned>> /\ Mark(b, "SUBMITTED", run[b].tx)
  BY DEF MarkSubmitted, ledger
<1>3. Marks(b, "SUBMITTED", run[b].tx) /\ anchors' \in [Anchors -> Row]
  BY <1>1, <1>2, MarkFacts
<1>4. pc[b] = "mark" /\ Moves(b, "await", run[b]) /\ RunTypes'
  BY DEF MarkSubmitted, Moves, Goto, TypeOK, RunTypes, Label
<1> QED BY <1>2, <1>3, <1>4 DEF TypeOK, RunTypes

LEMMA MarkEndFacts ==
  ASSUME TypeOK, NEW b \in Runs, MarkConfirmed(b) \/ MarkFailed(b)
  PROVE  /\ Moves(b, "idle", NoMemory) /\ TypeOK'
         /\ \/ Marks(b, "FAILED", 0) /\ pc[b] = "failed"
            \/ Marks(b, "CONFIRMED", 0) /\ pc[b] = "await" /\ Confirmed(run[b].tx)
<1>1. PICK s \in {"CONFIRMED", "FAILED"} :
        /\ Mark(b, s, 0) /\ Finish(b) /\ UNCHANGED <<chain, unspent, call, strayed, orphaned>>
        /\ s = "FAILED" => pc[b] = "failed"
        /\ s = "CONFIRMED" => pc[b] = "await" /\ Confirmed(run[b].tx)
  BY DEF MarkConfirmed, MarkFailed, ledger
<1>2. Marks(b, s, 0) /\ anchors' \in [Anchors -> Row]
  BY <1>1, MarkFacts DEF Status
<1>3. RunTypes' /\ Moves(b, "idle", NoMemory)
  BY <1>1, FinishTypes DEF Moves
<1> QED BY <1>1, <1>2, <1>3 DEF TypeOK, RunTypes

\* A transaction that did not exist carries the operations of a run.
Submits(b, t) ==
  /\ pc[b] = "submit" /\ chain[t].state = "none"
  /\ chain'[t].ops = run[b].ops /\ chain'[t].state = "mempool"
  /\ \A u \in Txs \ {t} : chain'[u] = chain[u]
  /\ Moves(b, "mark", [run[b] EXCEPT !.tx = t]) \/ Moves(b, "failed", run[b])
  /\ UNCHANGED <<anchors, call, strayed>>

LEMMA SubmitFacts ==
  ASSUME TypeOK, NEW b \in Runs, NEW t \in Txs, Submit(b, t)
  PROVE  Submits(b, t) /\ TypeOK'
<1> DEFINE x == [state |-> "mempool", ops |-> run[b].ops]
           m == [run[b] EXCEPT !.tx = t]
<1>1. x \in Tx /\ x.ops = run[b].ops /\ x.state = "mempool" /\ m \in Memory
  BY DEF TypeOK, Tx, Memory
<1>2. /\ chain' = [chain EXCEPT ![t] = x]
      /\ \/ Goto(b, "mark") /\ run' = [run EXCEPT ![b] = m]
         \/ Goto(b, "failed") /\ UNCHANGED run
      /\ UNCHANGED <<anchors, unspent, call, strayed, orphaned>> /\ pc[b] = "submit"
  BY DEF Submit
<1>3. chain[t].state = "none"
  BY BoundAssumption DEF Submit, Accepted, Txs
<1> HIDE DEF x, m
<1>4. /\ chain' \in [Txs -> Tx] /\ chain'[t] = x
      /\ \A u \in Txs \ {t} : chain'[u] = chain[u]
  BY <1>1, <1>2 DEF TypeOK
<1>5. CASE Goto(b, "mark") /\ run' = [run EXCEPT ![b] = m]
  <2>1. RunTypes' /\ Moves(b, "mark", m)
    BY <1>1, <1>5, StepTypes DEF Label, Moves
  <2> QED BY <1>1, <1>2, <1>3, <1>4, <2>1 DEF Submits, TypeOK, RunTypes, m
<1>6. CASE Goto(b, "failed") /\ UNCHANGED run
  <2>1. RunTypes' /\ Moves(b, "failed", run[b])
    BY <1>6 DEF Goto, Moves, RunTypes, TypeOK, Label
  <2> QED BY <1>1, <1>2, <1>3, <1>4, <2>1 DEF Submits, TypeOK, RunTypes
<1> QED BY <1>2, <1>5, <1>6

\* The chain moves: what transactions carry stays, and so does what is on the chain.
ChainMoves ==
  /\ \A t \in Txs : /\ chain'[t].ops = chain[t].ops
                    /\ chain'[t].state = "none" => chain[t].state = "none"
                    /\ chain[t].state = "onchain" => chain'[t].state = "onchain"
  /\ UNCHANGED <<anchors, call, pc, run, strayed>>

LEMMA ChainFacts ==
  ASSUME TypeOK, NEW t \in Txs, Settle(t) \/ Expire(t)
  PROVE  ChainMoves /\ TypeOK'
<1>1. PICK s \in {"onchain", "dropped"} :
        chain[t].state = "mempool" /\ chain' = [chain EXCEPT ![t].state = s]
  BY DEF Settle, Expire
<1>2. chain[t] \in Tx
  BY DEF TypeOK
<1> DEFINE x == [chain[t] EXCEPT !.state = s]
<1>3. x \in Tx /\ x.ops = chain[t].ops /\ x.state = s
  BY <1>2 DEF Tx
<1>4. chain' = [chain EXCEPT ![t] = x]
  BY <1>1
<1> HIDE DEF x
<1>5. chain' \in [Txs -> Tx] /\ chain'[t] = x /\ \A u \in Txs \ {t} : chain'[u] = chain[u]
  BY <1>3, <1>4 DEF TypeOK
<1>6. UNCHANGED <<anchors, call, pc, run, strayed, orphaned>> /\ unspent' \in {unspent, t}
  BY DEF Settle, Expire
<1> QED BY <1>1, <1>3, <1>5, <1>6 DEF ChainMoves, TypeOK

\* Every step is one of these.
LEMMA Cases ==
  ASSUME TypeOK, [Next]_vars
  PROVE  /\ TypeOK'
         /\ \/ UNCHANGED <<anchors, chain, call, pc, run, strayed>>
            \/ /\ \A q \in Requests : call'[q].prev \in Written \cup {0, call[q].prev}
               /\ UNCHANGED <<anchors, chain, unspent, pc, run, strayed>>
            \/ \E r \in Requests, a \in Anchors : Inserts(r, a)
            \/ ChainMoves
            \/ \E b \in Runs :
                 \/ Looks(b) \/ Claims(b) \/ (\E t \in Txs : Submits(b, t))
                 \/ pc[b] = "mark" /\ Moves(b, "await", run[b]) /\ Marks(b, "SUBMITTED", run[b].tx)
                 \/ /\ Moves(b, "idle", NoMemory)
                    /\ \/ Marks(b, "FAILED", 0) /\ pc[b] = "failed"
                       \/ Marks(b, "CONFIRMED", 0) /\ pc[b] = "await" /\ Confirmed(run[b].tx)
<1>1. CASE UNCHANGED vars
  BY <1>1 DEF vars, TypeOK, Written
<1>2. ASSUME NEW r \in Requests, NEW u \in Users, NEW op \in Operation, ReadDid(r, u, op)
      PROVE  /\ UNCHANGED <<anchors, chain, unspent, pc, run, strayed>> /\ TypeOK'
             /\ \A q \in Requests : call'[q].prev \in Written \cup {0, call[q].prev}
  BY <1>2, ReadDidFacts
<1>3. ASSUME NEW r \in Requests, NEW a \in Anchors, WriteDid(r, a)
      PROVE  Inserts(r, a) /\ TypeOK'
  BY <1>3, WriteDidFacts
<1>4. ASSUME NEW t \in Txs, Settle(t) \/ Expire(t) PROVE ChainMoves /\ TypeOK'
  BY <1>4, ChainFacts
<1>5. ASSUME NEW b \in Runs, NEW t \in Txs, Submit(b, t) PROVE Submits(b, t) /\ TypeOK'
  BY <1>5, SubmitFacts
<1>6. ASSUME NEW b \in Runs, NEW w \in Weeks, StartRun(b, w) PROVE Looks(b) /\ TypeOK'
  BY <1>6, LooksFacts
<1>7. ASSUME NEW b \in Runs,
             FindPending(b) \/ BuildOps(b) \/ GetUtxos(b) \/ Throw(b) \/ Crash(b)
      PROVE  Looks(b) /\ TypeOK'
  BY <1>7, LooksFacts
<1>8. ASSUME NEW b \in Runs, Claim(b) PROVE (Looks(b) \/ Claims(b)) /\ TypeOK'
  BY <1>8, LooksFacts, ClaimFacts
<1>9. ASSUME NEW b \in Runs, MarkSubmitted(b)
      PROVE  /\ pc[b] = "mark" /\ Moves(b, "await", run[b]) /\ Marks(b, "SUBMITTED", run[b].tx)
             /\ TypeOK'
  BY <1>9, MarkSubmittedFacts
<1>10. ASSUME NEW b \in Runs, MarkConfirmed(b) \/ MarkFailed(b)
       PROVE  /\ Moves(b, "idle", NoMemory) /\ TypeOK'
              /\ \/ Marks(b, "FAILED", 0) /\ pc[b] = "failed"
                 \/ Marks(b, "CONFIRMED", 0) /\ pc[b] = "await" /\ Confirmed(run[b].tx)
  BY <1>10, MarkEndFacts
<1>11. CASE \E r \in Requests : \/ \E u \in Users, op \in Operation : ReadDid(r, u, op)
                                \/ \E a \in Anchors : WriteDid(r, a)
  BY <1>2, <1>3, <1>11
<1>12. CASE \E t \in Txs : Settle(t) \/ Expire(t)
  BY <1>4, <1>12
<1>13. ASSUME NEW b \in Runs,
              \/ \E w \in Weeks : StartRun(b, w)
              \/ FindPending(b) \/ Claim(b) \/ BuildOps(b) \/ GetUtxos(b)
              \/ \E t \in Txs : Submit(b, t)
              \/ MarkSubmitted(b) \/ MarkConfirmed(b) \/ Throw(b) \/ MarkFailed(b) \/ Crash(b)
       PROVE  /\ TypeOK'
              /\ \/ Looks(b) \/ Claims(b) \/ (\E t \in Txs : Submits(b, t))
                 \/ pc[b] = "mark" /\ Moves(b, "await", run[b]) /\ Marks(b, "SUBMITTED", run[b].tx)
                 \/ /\ Moves(b, "idle", NoMemory)
                    /\ \/ Marks(b, "FAILED", 0) /\ pc[b] = "failed"
                       \/ Marks(b, "CONFIRMED", 0) /\ pc[b] = "await" /\ Confirmed(run[b].tx)
  BY <1>5, <1>6, <1>7, <1>8, <1>9, <1>10, <1>13
<1> QED BY <1>1, <1>11, <1>12, <1>13 DEF Next

LEMMA InitTypes == Init => TypeOK
<1> SUFFICES ASSUME Init PROVE TypeOK
  OBVIOUS
<1>1. AnyUser \in Users
  BY UserAssumption DEF AnyUser
<1> QED BY <1>1, NoRowType, NothingTypes DEF Init, TypeOK, NoCall, Call, Label

\* Every variable holds a value of its kind.
THEOREM TypeCorrect == Spec => []TypeOK
<1>1. Init => TypeOK
  BY InitTypes
<1>2. TypeOK /\ [Next]_vars => TypeOK'
  BY Cases
<1> QED BY <1>1, <1>2, PTL DEF Spec

-----------------------------------------------------------------------------
(* The inductive invariant *)

\* The chain moves, or not even that: nothing else that the invariants speak of changes.
LEMMA ChainKeeps ==
  ASSUME Inv, TypeOK', ChainMoves
  PROVE  Inv'
<1>1. /\ UNCHANGED <<anchors, call, pc, run, strayed>>
      /\ \A t \in Txs : Carried(t)' = Carried(t) /\ chain'[t].ops = chain[t].ops
      /\ \A t \in Txs : chain'[t].state = "none" => chain[t].state = "none"
      /\ Accepted \subseteq Accepted'
  BY DEF ChainMoves, Carried, Accepted
<1>2. Written' = Written
  BY <1>1 DEF Written
<1>3. RowsKnown' /\ ClaimInv' /\ CarriedInv'
  BY <1>1, <1>2 DEF Inv, RowsKnown, ClaimInv, CarriedInv, Holds
<1>4. TxInv'
  <2>1. ASSUME NEW a \in Anchors, anchors[a].tx /= 0 PROVE a \in Carried(anchors[a].tx)'
    <3>1. PICK t \in Txs : t = anchors[a].tx /\ a \in Carried(t)
      BY <2>1 DEF Inv, TxInv, TypeOK, Row
    <3> QED BY <1>1, <3>1 DEF Carried
  <2>2. ASSUME NEW b \in Runs, pc[b] \in {"mark", "await"}
        PROVE  run[b].tx \in Accepted' /\ Carried(run[b].tx)' = run[b].ids
    <3>1. PICK t \in Accepted : t = run[b].tx /\ Carried(t) = run[b].ids
      BY <2>2 DEF Inv, TxInv
    <3> QED BY <1>1, <3>1 DEF Carried, Accepted
  <2> QED BY <1>1, <2>1, <2>2 DEF Inv, TxInv, Holds
<1>5. PrevInv'
  <2>1. ASSUME NEW o \in DidOp, Follows(o) PROVE Follows(o)'
    BY <1>1, <2>1 DEF Follows, DidOp
  <2>2. \A t \in Txs : chain[t].ops \subseteq DidOp
    BY DEF Inv, TypeOK, Tx
  <2>3. \A b \in Runs : run[b].ops \subseteq DidOp
    BY DEF Inv, TypeOK, Memory
  <2> QED BY <1>1, <1>2, <2>1, <2>2, <2>3 DEF Inv, PrevInv
<1> QED BY <1>3, <1>4, <1>5 DEF Inv

LEMMA ReadKeeps ==
  ASSUME Inv, TypeOK', UNCHANGED <<anchors, chain, unspent, pc, run, strayed>>,
         \A q \in Requests : call'[q].prev \in Written \cup {0, call[q].prev}
  PROVE  Inv'
<1>1. Written' = Written /\ Accepted' = Accepted /\ \A t : Carried(t)' = Carried(t)
  BY DEF Written, Accepted, Carried
<1>2. RowsKnown' /\ ClaimInv' /\ CarriedInv'
  BY <1>1 DEF Inv, RowsKnown, ClaimInv, CarriedInv, Holds
<1>3. TxInv' /\ PrevInv'
  BY <1>1 DEF Inv, TxInv, PrevInv, Follows, Holds
<1> QED BY <1>2, <1>3 DEF Inv

LEMMA InsertKeeps ==
  ASSUME Inv, TypeOK', NEW r \in Requests, NEW a \in Anchors, Inserts(r, a)
  PROVE  Inv'
<1>1. /\ a \notin Written /\ Written' = Written \cup {a}
      /\ \A x \in Written : anchors'[x] = anchors[x]
      /\ \A t : Carried(t)' = Carried(t)
      /\ UNCHANGED <<chain, pc, run, strayed>> /\ Accepted' = Accepted
  BY DEF Inserts, Carried, Written, Accepted
<1>2. RowsKnown'
  BY <1>1 DEF Inv, RowsKnown, Inserts
<1>3. \A b \in Runs : a \notin run[b].ids /\ ~Holds(b, a)
  BY <1>1 DEF Inv, RowsKnown, Holds
<1>4. \A t \in Txs : a \notin Carried(t) /\ Carried(t) \subseteq Written
  BY <1>1 DEF Inv, RowsKnown
<1>5. ClaimInv' /\ CarriedInv'
  BY <1>1, <1>3, <1>4 DEF Inv, ClaimInv, CarriedInv, Holds, Inserts
<1>6. TxInv'
  BY <1>1, <1>3 DEF Inv, TxInv, Holds, Inserts
<1>7. \A t \in Txs : \A o \in chain[t].ops : o.anchor \in Written
  BY <1>4 DEF Carried
<1>8. PrevInv'
  BY <1>1, <1>7 DEF Inv, PrevInv, Follows
<1> QED BY <1>2, <1>5, <1>6, <1>8 DEF Inv

LEMMA LookKeeps ==
  ASSUME Inv, TypeOK', NEW b \in Runs, Looks(b)
  PROVE  Inv'
<1>1. /\ UNCHANGED <<anchors, chain, call, strayed>> /\ Written' = Written
      /\ Accepted' = Accepted /\ \A t : Carried(t)' = Carried(t)
      /\ \A c \in Runs \ {b} : pc'[c] = pc[c] /\ run'[c] = run[c]
  BY DEF Looks, Moves, Written, Accepted, Carried
<1>2. run[b] \in Memory /\ run'[b] \in Memory /\ pc[b] \in Label
  BY DEF Inv, TypeOK
\* What becomes of the run that takes the step
<1>3. /\ pc'[b] \in {"idle", "find", "claim", "utxos", "submit", "failed"}
      /\ pc'[b] /= "idle" => run'[b].week \in Weeks
      /\ run'[b].ids \subseteq Written
      /\ pc'[b] \in Claiming => pc[b] \in Claiming /\ run'[b].ids = run[b].ids
      /\ pc'[b] \in Preparing => pc[b] \in Preparing
      /\ pc'[b] = "utxos" =>
           run'[b].ops = {[anchor |-> a, prev |-> PrevHash(a)] : a \in run[b].ids}
      /\ pc'[b] = "submit" => pc[b] = "utxos" /\ run'[b].ops = run[b].ops
      /\ pc'[b] /= "utxos" => run'[b].ops \in {{}, run[b].ops}
  <2>1. CASE pc[b] = "idle" /\ \E w \in Weeks : Moves(b, "find", [run[b] EXCEPT !.week = w])
    BY <1>2, <2>1 DEF Moves, Memory, Claiming, Preparing, Inv, RowsKnown
  <2>2. CASE pc[b] = "find" /\ Moves(b, "claim", [run[b] EXCEPT !.ids = Waiting])
    BY <1>2, <2>2 DEF Moves, Memory, Claiming, Preparing, Inv, ClaimInv, Waiting
  <2>3. CASE Moves(b, "idle", NoMemory)
    BY <2>3, NothingTypes DEF Moves, Claiming, Preparing
  <2>4. CASE /\ pc[b] = "build"
             /\ Moves(b, "utxos",
                  [run[b] EXCEPT !.ops = {[anchor |-> a, prev |-> PrevHash(a)] : a \in run[b].ids}])
    BY <1>2, <2>4 DEF Moves, Memory, Claiming, Preparing, Inv, RowsKnown, ClaimInv
  <2>5. CASE pc[b] = "utxos" /\ Moves(b, "submit", [run[b] EXCEPT !.input = unspent])
    BY <1>2, <2>5 DEF Moves, Memory, Claiming, Preparing, Inv, RowsKnown, ClaimInv
  <2>6. CASE pc[b] \in Claiming /\ Moves(b, "failed", run[b])
    BY <1>2, <2>6 DEF Moves, Memory, Claiming, Preparing, Inv, RowsKnown, ClaimInv
  <2> QED BY <2>1, <2>2, <2>3, <2>4, <2>5, <2>6 DEF Looks
<1>4. \A c \in Runs, a \in Anchors : Holds(c, a)' => Holds(c, a)
  BY <1>1, <1>3 DEF Holds
<1>5. RowsKnown'
  BY <1>1, <1>3 DEF Inv, RowsKnown
<1>6. ClaimInv'
  BY <1>1, <1>3, <1>4 DEF Inv, ClaimInv
<1>7. CarriedInv'
  <2>1. \A c \in Runs, a \in Anchors :
          (Holds(c, a) /\ pc[c] \in Preparing)' => Holds(c, a) /\ pc[c] \in Preparing
    BY <1>1, <1>3, <1>4
  <2>2. \A t \in Txs : Carried(t) \subseteq Anchors
    BY DEF Inv, TypeOK, Tx, DidOp, Carried
  <2> QED BY <1>1, <2>1, <2>2 DEF Inv, CarriedInv
<1>8. TxInv'
  <2>1. (pc[b] = "submit" \/ pc[b] = "utxos")' => {o.anchor : o \in run'[b].ops} = run'[b].ids
    <3>1. CASE pc'[b] = "utxos"
      <4> DEFINE ops == {[anchor |-> a, prev |-> PrevHash(a)] : a \in run[b].ids}
      <4>1. run'[b].ops = ops /\ run'[b].ids = run[b].ids
        BY <1>3, <3>1 DEF Claiming
      <4>2. \A o \in ops : o.anchor \in run[b].ids
        OBVIOUS
      <4>3. ASSUME NEW a \in run[b].ids PROVE \E o \in ops : o.anchor = a
        <5>1. [anchor |-> a, prev |-> PrevHash(a)] \in ops
          OBVIOUS
        <5> HIDE DEF ops
        <5> QED BY <5>1
      <4> HIDE DEF ops
      <4> QED BY <4>1, <4>2, <4>3
    <3>2. CASE pc'[b] = "submit"
      BY <1>3, <3>2 DEF Inv, TxInv, Claiming
    <3> QED BY <3>1, <3>2
  <2>2. pc'[b] \notin {"mark", "await"}
    BY <1>3
  <2> QED BY <1>1, <1>4, <2>1, <2>2 DEF Inv, TxInv
<1>9. PrevInv'
  <2>1. ASSUME NEW a \in run[b].ids
        PROVE  PrevHash(a) /= 0 =>
                 anchors[a].prev /= 0 /\ anchors[a].prev \in Carried(PrevHash(a))
    <3>1. a \in Written /\ anchors[a].prev \in Written \cup {0}
      BY DEF Inv, RowsKnown
    <3> QED BY <3>1 DEF PrevHash, Inv, TxInv, Written
  <2>2. \A o \in run'[b].ops : Follows(o) /\ o.anchor \in Written
    BY <1>3, <2>1 DEF Follows, Inv, PrevInv, RowsKnown
  <2> QED BY <1>1, <2>2 DEF Inv, PrevInv, Follows
<1> QED BY <1>5, <1>6, <1>7, <1>8, <1>9 DEF Inv

LEMMA ClaimKeeps ==
  ASSUME Inv, TypeOK', NEW b \in Runs, Claims(b)
  PROVE  Inv'
<1>1. /\ UNCHANGED <<chain, call>> /\ Written' = Written
      /\ Accepted' = Accepted /\ \A t : Carried(t)' = Carried(t)
      /\ pc'[b] = "build" /\ run'[b] = run[b] /\ pc[b] = "claim"
      /\ \A c \in Runs \ {b} : pc'[c] = pc[c] /\ run'[c] = run[c]
      /\ \A a \in Anchors : anchors'[a].prev = anchors[a].prev /\ anchors'[a].tx = anchors[a].tx
  BY DEF Claims, Moves, Accepted, Carried
\* A row that is claimed has waited, and no other run holds it.
<1>2. \A a \in Claimable(b) : /\ anchors[a].batch = NoWeek /\ a \in Written
                              /\ anchors'[a].batch /= NoWeek
  BY <1>1, WeekAssumption DEF Claims, Claimable, Waiting, Inv, ClaimInv, Written
<1>3. \A a \in Anchors : anchors[a].batch /= NoWeek => anchors'[a] = anchors[a]
  BY <1>2 DEF Claims
<1>4. \A a \in Anchors : Holds(b, a)' => a \in Claimable(b)
  BY <1>1 DEF Claims, Holds
<1>5. \A c \in Runs \ {b}, a \in Anchors :
        Holds(c, a)' => Holds(c, a) /\ a \notin Claimable(b)
  BY <1>1, <1>2 DEF Holds, Claims, Inv, ClaimInv
<1>6. RowsKnown'
  BY <1>1 DEF Inv, RowsKnown, Written
<1>7. ClaimInv'
  <2>1. \A c \in Runs, a \in Anchors : Holds(c, a)' => anchors'[a].batch /= NoWeek
    BY <1>2, <1>3, <1>4, <1>5 DEF Inv, ClaimInv
  <2>2. \A c \in Runs : pc'[c] /= "idle" => run'[c].week \in Weeks
    BY <1>1 DEF Inv, ClaimInv
  <2> QED BY <1>4, <1>5, <2>1, <2>2 DEF Inv, ClaimInv
<1>8. CarriedInv'
  <2>1. \A t \in Txs : Carried(t) \subseteq Anchors
    BY DEF Inv, TypeOK, Tx, DidOp, Carried
  <2>2. ASSUME NEW t \in Txs, NEW a \in Carried(t)
        PROVE  a \in strayed' \/ anchors'[a].batch /= NoWeek
    BY <1>3, <2>1 DEF Inv, CarriedInv, Claims
  <2>3. ASSUME NEW t \in Txs, NEW a \in Carried(t), NEW c \in Runs
        PROVE  ~(Holds(c, a) /\ pc[c] \in Preparing)'
    <3>1. CASE c = b
      <4>1. a \in Claimable(b) => a \in strayed
        BY <1>2 DEF Inv, CarriedInv
      <4> QED BY <1>4, <2>1, <3>1, <4>1 DEF Holds, Claims
    <3>2. CASE c /= b
      BY <1>1, <1>5, <2>1, <3>2 DEF Inv, CarriedInv
    <3> QED BY <3>1, <3>2
  <2> QED BY <1>1, <2>2, <2>3 DEF Inv, CarriedInv
<1>9. TxInv'
  BY <1>1, <1>5 DEF Inv, TxInv
<1>10. PrevInv'
  <2>1. \A t \in Txs : \A o \in chain[t].ops : o.anchor \in Anchors
    BY DEF Inv, TypeOK, Tx, DidOp
  <2>2. \A c \in Runs : run'[c].ops = run[c].ops
    BY <1>1
  <2> QED BY <1>1, <2>1, <2>2 DEF Inv, PrevInv, Follows, Written
<1> QED BY <1>6, <1>7, <1>8, <1>9, <1>10 DEF Inv

\* What a transaction carries once, it carries for ever.
LEMMA SubmitKeeps ==
  ASSUME Inv, TypeOK', NEW b \in Runs, NEW t \in Txs, Submits(b, t)
  PROVE  Inv'
<1>0. run[b] \in Memory
  BY DEF Inv, TypeOK
<1>1. /\ UNCHANGED <<anchors, call, strayed>> /\ Written' = Written
      /\ pc[b] = "submit" /\ pc'[b] \in {"mark", "failed"}
      /\ run'[b].week = run[b].week /\ run'[b].ids = run[b].ids /\ run'[b].ops = run[b].ops
      /\ pc'[b] = "mark" => run'[b].tx = t
      /\ \A c \in Runs \ {b} : pc'[c] = pc[c] /\ run'[c] = run[c]
  BY <1>0 DEF Submits, Moves, Memory, Written
<1>2. /\ Carried(t) = {} /\ Carried(t)' = run[b].ids
      /\ \A u \in Txs \ {t} : Carried(u)' = Carried(u) /\ chain'[u] = chain[u]
  BY <1>1 DEF Submits, Inv, CarriedInv, TxInv, Carried
<1>3. \A c \in Runs, a \in Anchors : Holds(c, a)' <=> Holds(c, a)
  BY <1>1 DEF Holds, Claiming
<1>4. \A u \in Txs : Carried(u) \subseteq Carried(u)'
  BY <1>2
<1>5. RowsKnown'
  BY <1>1, <1>2 DEF Inv, RowsKnown
<1>6. ClaimInv'
  BY <1>1, <1>3 DEF Inv, ClaimInv
<1>7. CarriedInv'
  <2>1. run[b].ids \subseteq Anchors /\ \A u \in Txs : Carried(u) \subseteq Anchors
    BY <1>0 DEF Memory, Inv, TypeOK, Tx, DidOp, Carried
  <2>2. ASSUME NEW a \in run[b].ids PROVE a \in strayed \/ anchors[a].batch /= NoWeek
    BY <1>1, <2>1 DEF Inv, ClaimInv, Holds, Claiming
  <2>3. ASSUME NEW a \in run[b].ids, NEW c \in Runs
        PROVE  ~(Holds(c, a)' /\ pc'[c] \in Preparing)
    BY <1>1, <1>3, <2>1 DEF Inv, ClaimInv, Holds, Claiming, Preparing
  <2>4. ASSUME NEW u \in Txs \ {t}, NEW a \in Carried(u), NEW c \in Runs
        PROVE  ~(Holds(c, a)' /\ pc'[c] \in Preparing)
    BY <1>1, <1>3, <2>1 DEF Inv, CarriedInv, Preparing
  <2>5. \A u \in Txs : chain'[u].state = "none" => chain'[u].ops = {}
    BY <1>2 DEF Submits, Inv, CarriedInv
  <2> QED BY <1>1, <1>2, <2>2, <2>3, <2>4, <2>5 DEF Inv, CarriedInv
<1>8. TxInv'
  <2>1. ASSUME NEW a \in Anchors, anchors[a].tx /= 0
        PROVE  a \in Carried(anchors[a].tx)'
    <3>1. PICK u \in Txs : u = anchors[a].tx /\ a \in Carried(u)
      BY <2>1 DEF Inv, TxInv, TypeOK, Row
    <3>2. a \in Carried(u)'
      BY <1>4, <3>1
    <3> QED BY <1>1, <3>1, <3>2 DEF Carried
  <2>2. ASSUME NEW c \in Runs \ {b}, pc[c] \in {"mark", "await"}
        PROVE  run'[c].tx \in Accepted' /\ Carried(run[c].tx)' = run'[c].ids
    <3>1. run[c].tx \in Txs \ {t} /\ chain[run[c].tx].state /= "none"
      BY <2>2 DEF Inv, TxInv, Accepted, Submits
    <3>2. Carried(run[c].tx) = run[c].ids
      BY <2>2 DEF Inv, TxInv
    <3>3. PICK u \in Txs \ {t} : u = run[c].tx
      BY <3>1
    <3>4. Carried(u)' = run[c].ids /\ chain'[u].state /= "none"
      BY <1>2, <3>1, <3>2, <3>3
    <3> QED BY <1>1, <3>3, <3>4 DEF Accepted, Carried
  <2>3. pc'[b] = "mark" => run'[b].tx \in Accepted' /\ Carried(run[b].tx)' = run'[b].ids
    <3>1. chain'[t].state /= "none" /\ (pc'[b] = "mark" => run'[b].tx = t)
      BY <1>1 DEF Submits
    <3> QED BY <1>1, <1>2, <3>1 DEF Accepted, Carried
  <2> QED BY <1>1, <1>3, <2>1, <2>2, <2>3 DEF Inv, TxInv
<1>9. PrevInv'
  <2>1. \A o \in run[b].ops : Follows(o) /\ o.anchor \in Written
    BY DEF Inv, PrevInv
  <2>2. ASSUME NEW o \in DidOp, Follows(o) PROVE Follows(o)'
    BY <1>1, <1>4, <2>2 DEF Follows, DidOp
  <2>3. \A c \in Runs : run[c].ops \subseteq DidOp /\ run'[c].ops = run[c].ops
    BY <1>1 DEF Inv, TypeOK, Memory
  <2>4. \A u \in Txs : chain[u].ops \subseteq DidOp
    BY DEF Inv, TypeOK, Tx
  <2>5. \A u \in Txs : \A o \in chain'[u].ops : Follows(o)'
    BY <1>2, <2>1, <2>2, <2>3, <2>4 DEF Submits, Inv, PrevInv
  <2> QED BY <1>1, <2>2, <2>3, <2>5 DEF Inv, PrevInv
<1> QED BY <1>5, <1>6, <1>7, <1>8, <1>9 DEF Inv

LEMMA MarkSubmittedKeeps ==
  ASSUME Inv, TypeOK', NEW b \in Runs, pc[b] = "mark", Moves(b, "await", run[b]),
         Marks(b, "SUBMITTED", run[b].tx)
  PROVE  Inv'
<1>1. /\ UNCHANGED <<chain, call, strayed, run>> /\ Written' = Written
      /\ \A t : Carried(t)' = Carried(t) /\ Accepted' = Accepted
      /\ pc'[b] = "await" /\ \A c \in Runs \ {b} : pc'[c] = pc[c]
      /\ \A a \in Anchors : anchors'[a].prev = anchors[a].prev /\ anchors'[a].batch = anchors[a].batch
  BY DEF Moves, Marks, Inv, TypeOK, Carried, Accepted
<1>2. run[b].tx \in Accepted /\ Carried(run[b].tx) = run[b].ids /\ run[b].tx /= 0
  BY DEF Inv, TxInv, Accepted, Txs
<1>3. \A c \in Runs, a \in Anchors : Holds(c, a)' <=> Holds(c, a)
  BY <1>1 DEF Holds, Claiming
<1>4. RowsKnown' /\ ClaimInv'
  BY <1>1, <1>3 DEF Inv, RowsKnown, ClaimInv, Written
<1>5. CarriedInv'
  <2>1. \A t \in Txs : Carried(t) \subseteq Anchors
    BY DEF Inv, TypeOK, Tx, DidOp, Carried
  <2>2. \A c \in Runs : pc'[c] \in Preparing => pc[c] \in Preparing
    BY <1>1 DEF Preparing
  <2> QED BY <1>1, <1>3, <2>1, <2>2 DEF Inv, CarriedInv
<1>6. TxInv'
  <2>1. \A a \in Anchors : anchors'[a].tx /= 0 => a \in Carried(anchors'[a].tx)
    BY <1>2 DEF Inv, TxInv, Marks
  <2>2. ASSUME NEW c \in Runs, NEW a \in Anchors, Holds(c, a)', pc'[c] = "await"
        PROVE  anchors'[a].tx = run[c].tx
    <3>1. CASE c = b
      BY <1>2, <1>3, <2>2, <3>1 DEF Marks, Holds
    <3>2. CASE c /= b
      <4>1. a \notin run[b].ids
        BY <1>3, <2>2, <3>2 DEF Inv, ClaimInv, Holds, Claiming
      <4> QED BY <1>1, <1>3, <2>2, <3>2, <4>1 DEF Marks, Inv, TxInv
    <3> QED BY <3>1, <3>2
  <2> QED BY <1>1, <1>2, <2>1, <2>2 DEF Inv, TxInv
<1>7. PrevInv'
  <2>1. \A t \in Txs : \A o \in chain[t].ops : o.anchor \in Anchors
    BY DEF Inv, TypeOK, Tx, DidOp
  <2> QED BY <1>1, <2>1 DEF Inv, PrevInv, Follows, Written
<1> QED BY <1>4, <1>5, <1>6, <1>7 DEF Inv

LEMMA MarkEndKeeps ==
  ASSUME Inv, TypeOK', NEW b \in Runs, NEW s \in Status, Moves(b, "idle", NoMemory),
         Marks(b, s, 0)
  PROVE  Inv'
<1>1. /\ UNCHANGED <<chain, call, strayed>> /\ Written' = Written
      /\ Accepted' = Accepted /\ \A t : Carried(t)' = Carried(t)
      /\ pc'[b] = "idle" /\ run'[b].ids = {} /\ run'[b].ops = {}
      /\ \A c \in Runs \ {b} : pc'[c] = pc[c] /\ run'[c] = run[c]
      /\ \A a \in Anchors : /\ anchors'[a].prev = anchors[a].prev
                            /\ anchors'[a].batch = anchors[a].batch
                            /\ anchors'[a].tx = anchors[a].tx
  BY NothingTypes DEF Moves, Marks, Carried, Accepted
<1>2. \A c \in Runs, a \in Anchors : Holds(c, a)' => c /= b /\ Holds(c, a)
  BY <1>1 DEF Holds, Claiming
<1>3. RowsKnown' /\ ClaimInv'
  BY <1>1, <1>2 DEF Inv, RowsKnown, ClaimInv, Written
<1>4. CarriedInv'
  <2>1. \A t \in Txs : Carried(t) \subseteq Anchors
    BY DEF Inv, TypeOK, Tx, DidOp, Carried
  <2> QED BY <1>1, <1>2, <2>1 DEF Inv, CarriedInv
<1>5. TxInv'
  BY <1>1, <1>2 DEF Inv, TxInv
<1>6. PrevInv'
  <2>1. \A t \in Txs : \A o \in chain[t].ops : o.anchor \in Anchors
    BY DEF Inv, TypeOK, Tx, DidOp
  <2> QED BY <1>1, <2>1 DEF Inv, PrevInv, Follows, Written
<1> QED BY <1>3, <1>4, <1>5, <1>6 DEF Inv

LEMMA InvInit == Init => Inv
<1> SUFFICES ASSUME Init PROVE Inv
  OBVIOUS
<1>1. /\ \A a \in Anchors : /\ anchors[a].op = "NONE" /\ anchors[a].prev = 0
                            /\ anchors[a].tx = 0
      /\ \A t \in Txs : chain[t].ops = {}
      /\ \A r \in Requests : call[r].prev = 0
      /\ \A b \in Runs : pc[b] = "idle" /\ run[b].ids = {} /\ run[b].ops = {}
  BY NothingTypes DEF Init, NoRow, NoCall
<1>2. RowsKnown /\ ClaimInv /\ CarriedInv
  BY <1>1 DEF RowsKnown, ClaimInv, CarriedInv, Holds, Claiming, Carried, Written
<1>3. TxInv /\ PrevInv
  BY <1>1 DEF TxInv, PrevInv, Holds, Claiming
<1> QED BY <1>2, <1>3, InitTypes DEF Inv

LEMMA InvStep == Inv /\ [Next]_vars => Inv'
<1> SUFFICES ASSUME Inv, [Next]_vars PROVE Inv'
  OBVIOUS
<1>1. TypeOK /\ TypeOK'
  BY Cases DEF Inv
<1>2. CASE UNCHANGED <<anchors, chain, call, pc, run, strayed>> \/ ChainMoves
  BY <1>1, <1>2, ChainKeeps DEF ChainMoves
<1>3. CASE /\ \A q \in Requests : call'[q].prev \in Written \cup {0, call[q].prev}
           /\ UNCHANGED <<anchors, chain, unspent, pc, run, strayed>>
  BY <1>1, <1>3, ReadKeeps
<1>4. CASE \E r \in Requests, a \in Anchors : Inserts(r, a)
  BY <1>1, <1>4, InsertKeeps
<1>5. ASSUME NEW b \in Runs, Looks(b) \/ Claims(b) \/ (\E t \in Txs : Submits(b, t))
      PROVE  Inv'
  BY <1>1, <1>5, LookKeeps, ClaimKeeps, SubmitKeeps
<1>6. ASSUME NEW b \in Runs, pc[b] = "mark", Moves(b, "await", run[b]),
             Marks(b, "SUBMITTED", run[b].tx)
      PROVE  Inv'
  BY <1>1, <1>6, MarkSubmittedKeeps
<1>7. ASSUME NEW b \in Runs, Moves(b, "idle", NoMemory),
             Marks(b, "FAILED", 0) \/ Marks(b, "CONFIRMED", 0)
      PROVE  Inv'
  BY <1>1, <1>7, MarkEndKeeps DEF Status
<1> QED BY <1>1, <1>2, <1>3, <1>4, <1>5, <1>6, <1>7, Cases

LEMMA InvAlways == Spec => []Inv
<1> QED BY InvInit, InvStep, PTL DEF Spec

-----------------------------------------------------------------------------
(* What follows from it *)

\* An operation that names a previous transaction names the one that carries the
\* operation the user's row was linked to.
THEOREM PrevNamesPreviousAlways == Spec => []PrevNamesPrevious
<1>1. Inv => PrevNamesPrevious
  BY DEF Inv, PrevInv, Follows, PrevNamesPrevious
<1> QED BY <1>1, InvAlways, PTL

LEMMA AnchoredOnceStep == Inv /\ AnchoredOnce /\ [Next]_vars => AnchoredOnce'
<1> SUFFICES ASSUME Inv, AnchoredOnce, [Next]_vars PROVE AnchoredOnce'
  OBVIOUS
<1>1. ASSUME UNCHANGED chain, strayed \subseteq strayed' PROVE AnchoredOnce'
  <2>1. \A t : Carried(t)' = Carried(t)
    BY <1>1 DEF Carried
  <2> QED BY <1>1, <2>1 DEF AnchoredOnce
<1>2. ASSUME ChainMoves PROVE AnchoredOnce'
  <2>1. strayed' = strayed /\ \A t \in Txs : Carried(t)' = Carried(t)
    BY <1>2 DEF ChainMoves, Carried
  <2> QED BY <2>1 DEF AnchoredOnce
<1>3. ASSUME NEW b \in Runs, NEW t \in Txs, Submits(b, t) PROVE AnchoredOnce'
  <2>1. /\ strayed' = strayed /\ Carried(t)' = run[b].ids
        /\ \A u \in Txs \ {t} : Carried(u)' = Carried(u)
    BY <1>3 DEF Submits, Inv, TxInv, Carried
  <2>2. ASSUME NEW a \in Anchors, a \in run[b].ids, NEW u \in Txs, a \in Carried(u)
        PROVE  a \in strayed
    BY <1>3, <2>2 DEF Inv, CarriedInv, Holds, Claiming, Preparing, Submits
  <2> QED BY <2>1, <2>2 DEF AnchoredOnce
<1>4. ASSUME NEW b \in Runs, Looks(b) \/ Claims(b) PROVE AnchoredOnce'
  BY <1>1, <1>4 DEF Looks, Claims
<1>5. ASSUME NEW b \in Runs, NEW s, NEW t, Marks(b, s, t) PROVE AnchoredOnce'
  BY <1>1, <1>5 DEF Marks
<1>6. CASE \E r \in Requests, a \in Anchors : Inserts(r, a)
  BY <1>1, <1>6 DEF Inserts
<1>7. TypeOK
  BY DEF Inv
<1> QED BY <1>1, <1>2, <1>3, <1>4, <1>5, <1>6, <1>7, Cases

\* A row is submitted in one transaction at most, unless a run read it and went on
\* without having claimed it.
THEOREM AnchoredOnceAlways == Spec => []AnchoredOnce
<1>1. Init => AnchoredOnce
  BY NothingTypes DEF Init, AnchoredOnce, Carried
<1> QED BY <1>1, InvAlways, AnchoredOnceStep, PTL DEF Spec

\* What ConfirmedIsOnChain says of one row
Settled(a) ==
  anchors[a].status = "CONFIRMED" => Confirmed(anchors[a].tx) /\ a \in Carried(anchors[a].tx)

\* A row that a step leaves as it is stays settled, whatever happens to the chain.
LEMMA SettledStays ==
  ASSUME Inv, NEW a \in Anchors, Settled(a),
         anchors'[a].status \in {anchors[a].status, "PENDING", "SUBMITTED", "FAILED"},
         anchors'[a].status = "CONFIRMED" => anchors'[a].tx = anchors[a].tx,
         UNCHANGED chain \/ ChainMoves \/ \E b \in Runs, t \in Txs : Submits(b, t)
  PROVE  Settled(a)'
<1> SUFFICES ASSUME anchors'[a].status = "CONFIRMED"
             PROVE  Confirmed(anchors[a].tx)' /\ a \in Carried(anchors[a].tx)'
  BY DEF Settled
<1>1. anchors[a].status = "CONFIRMED" /\ anchors'[a].tx = anchors[a].tx
  OBVIOUS
<1>2. PICK t \in Txs : t = anchors[a].tx /\ chain[t].state = "onchain" /\ a \in Carried(t)
  BY <1>1 DEF Settled, Confirmed, Inv, TypeOK, Row
<1>3. chain'[t].state = "onchain" /\ chain'[t].ops = chain[t].ops
  BY <1>2 DEF ChainMoves, Submits
<1>4. t /= 0
  BY <1>1, <1>2 DEF Settled, Confirmed
<1> QED BY <1>1, <1>2, <1>3, <1>4 DEF Confirmed, Carried

LEMMA ConfirmedStep == Inv /\ ConfirmedIsOnChain /\ [Next]_vars => ConfirmedIsOnChain'
<1> SUFFICES ASSUME Inv, ConfirmedIsOnChain, [Next]_vars,
                    NEW a \in Anchors, a \notin strayed'
             PROVE  Settled(a)'
  BY DEF ConfirmedIsOnChain, Settled
<1>0. TypeOK
  BY DEF Inv
<1>1. ASSUME a \notin strayed PROVE Settled(a)
  BY <1>1 DEF ConfirmedIsOnChain, Settled
<1>2. CASE UNCHANGED <<anchors, chain, strayed>> \/ ChainMoves
  BY <1>1, <1>2, SettledStays DEF ChainMoves
<1>3. ASSUME NEW r \in Requests, NEW x \in Anchors, Inserts(r, x) PROVE Settled(a)'
  BY <1>1, <1>3, SettledStays DEF Inserts
<1>4. ASSUME NEW b \in Runs, Claims(b) PROVE Settled(a)'
  BY <1>1, <1>4, SettledStays DEF Claims
<1>5. ASSUME NEW b \in Runs, NEW t \in Txs, Submits(b, t) PROVE Settled(a)'
  BY <1>1, <1>5, SettledStays DEF Submits
<1>6. ASSUME NEW b \in Runs, Marks(b, "SUBMITTED", run[b].tx) \/ Marks(b, "FAILED", 0)
      PROVE  Settled(a)'
  BY <1>1, <1>6, SettledStays DEF Marks
<1>7. ASSUME NEW b \in Runs, Marks(b, "CONFIRMED", 0), pc[b] = "await", Confirmed(run[b].tx)
      PROVE  Settled(a)'
  <2>1. CASE a \notin run[b].ids
    BY <1>1, <1>7, <2>1, SettledStays DEF Marks
  <2>2. CASE a \in run[b].ids
    <3>1. Holds(b, a)
      BY <1>7, <2>2 DEF Marks, Holds, Claiming
    <3>2. anchors[a].tx = run[b].tx /\ a \in Carried(run[b].tx)
      BY <1>7, <2>2, <3>1 DEF Inv, TxInv
    <3>3. anchors'[a].tx = run[b].tx /\ UNCHANGED chain
      BY <1>7, <2>2, <3>2 DEF Marks
    <3> QED BY <1>7, <3>2, <3>3 DEF Settled, Confirmed, Carried
  <2> QED BY <2>1, <2>2
<1>8. ASSUME NEW b \in Runs, Looks(b) PROVE Settled(a)'
  BY <1>2, <1>8 DEF Looks
<1> QED BY <1>0, <1>2, <1>3, <1>4, <1>5, <1>6, <1>7, <1>8, Cases

\* A CONFIRMED row names the transaction that carries it, and it is on the chain (with
\* the same exception).
THEOREM ConfirmedIsOnChainAlways == Spec => []ConfirmedIsOnChain
<1>1. Init => ConfirmedIsOnChain
  BY DEF Init, ConfirmedIsOnChain, NoRow
<1> QED BY <1>1, InvAlways, ConfirmedStep, PTL DEF Spec

\* Hence a CONFIRMED row leads to the only transaction that carries the operation,
\* and it is on the chain.
THEOREM ChainFollowsRowsAlways == Spec => []ChainFollowsRows
<1>1. AnchoredOnce /\ ConfirmedIsOnChain => ChainFollowsRows
  BY DEF ChainFollowsRows
<1> QED BY <1>1, AnchoredOnceAlways, ConfirmedIsOnChainAlways, PTL

-----------------------------------------------------------------------------
(* NFT minting: what the runs have in their hands, and why a mint is       *)
(* requested, followed and owned once.                                     *)

\* A run with a mint in hand is about to store or to fail it, or to handle what
\* the service has said of it.
Busy == {"store", "fail", "handle"}
HandInv ==
  \A r \in MintRuns : /\ mintPc[r] \in Busy => mintRun[r].mint \in Mints
                      /\ mintRun[r].mint \notin mintRun[r].page
MintLocal == MintTypeOK /\ HandInv

\* Two runs have a mint in their hands only if the second one read it then.
HandsApart == \A r, s \in MintRuns : r /= s => Hands(r) \cap Hands(s) \subseteq overlapped

\* What is said to be minted is.
AnswerTrue ==
  \A r \in MintRuns : mintPc[r] = "handle" /\ mintRun[r].state = "minted" => service[mintRun[r].mint] = "minted"

\* An instance that is owned is in nobody's hands.
OwnedAtRest ==
  \A m \in Mints : instance[m] = "OWNED" /\ m \notin overlapped => \A r \in MintRuns : m \notin Hands(r)

\* A mint that was accepted is on no page of requests any more, and will be on none.
Storing(m) == \E r \in MintRuns : mintPc[r] = "store" /\ mintRun[r].mint = m
AskedOnce ==
  \A m \in Mints : accepted[m] > 0 /\ m \notin lost \cup overlapped =>
    /\ accepted[m] = 1
    /\ \A r \in MintRuns : mintRun[r].batch = "request" => m \notin mintRun[r].page
    /\ Storing(m) \/ mint[m] \notin {"none", "QUEUED"}

MintShared ==
  HandsApart /\ AnswerTrue /\ OwnedAtRest /\ AskedOnce /\ OwnedIsMinted /\ AcceptedIsFollowed

MintInv == MintLocal /\ MintShared

-----------------------------------------------------------------------------
\* A step of r leaves every other run alone.
OnlyRun(r) == \A s \in MintRuns \ {r} : mintPc'[s] = mintPc[s] /\ mintRun'[s] = mintRun[s]
HandTypes == /\ mintPc \in [MintRuns -> {"idle", "next", "store", "fail", "handle"}]
            /\ mintRun \in [MintRuns -> Run]

LEMMA NoRunType == NoRun \in Run
  BY DEF NoRun, Run

\* r gives up what it has: it finishes, or is done with the mint in hand.
LEMMA ReleaseRun ==
  ASSUME MintLocal, NEW r \in MintRuns, EndRun(r) \/ Done(r)
  PROVE  /\ HandTypes' /\ OnlyRun(r) /\ mintPc'[r] \in {"idle", "next"}
         /\ Hands(r)' \subseteq mintRun[r].page /\ mintRun'[r].page \subseteq mintRun[r].page
         /\ mintRun'[r].mint \notin mintRun'[r].page
         /\ mintRun'[r].batch = "request" => mintRun[r].batch = "request"
         /\ mintRun'[r].page /= {} => mintRun'[r].batch = mintRun[r].batch
<1>1. CASE EndRun(r)
  <2>1. HandTypes' /\ OnlyRun(r) /\ mintPc'[r] = "idle" /\ mintRun'[r] = NoRun
    BY <1>1, NoRunType DEF EndRun, MintGoto, MintLocal, MintTypeOK, HandTypes, OnlyRun
  <2> QED BY <2>1, MintAssumption, SizeAssumption DEF NoRun, Hands, MintLocal, EndRun
<1>2. CASE Done(r)
  <2> DEFINE x == [mintRun[r] EXCEPT !.mint = NoMint, !.state = "none"]
  <2>1. mintRun \in [MintRuns -> Run] /\ mintRun[r] \in Run
    BY DEF MintLocal, MintTypeOK
  <2>2. x \in Run /\ x.page = mintRun[r].page /\ x.batch = mintRun[r].batch /\ x.mint = NoMint
    BY <2>1 DEF Run
  <2>3. mintRun' = [mintRun EXCEPT ![r] = x] /\ mintPc' = [mintPc EXCEPT ![r] = "next"]
    BY <1>2, <2>1 DEF Done, MintGoto
  <2> HIDE DEF x
  <2>4. HandTypes' /\ OnlyRun(r) /\ mintPc'[r] = "next" /\ mintRun'[r] = x
    BY <2>1, <2>2, <2>3 DEF MintLocal, MintTypeOK, HandTypes, OnlyRun
  <2> QED BY <2>1, <2>2, <2>4, MintAssumption, SizeAssumption DEF Hands, MintLocal, Run
<1> QED BY <1>1, <1>2

\* r takes a mint from its page.
LEMMA TakeRun ==
  ASSUME MintLocal, NEW r \in MintRuns, NEW m \in Mints, NEW label \in Busy \cup {"next"},
         NEW state \in {"none", "sold", "minted", "error", "fatal"}, Take(r, m, label, state)
  PROVE  /\ HandTypes' /\ OnlyRun(r) /\ mintPc'[r] = label /\ mintPc[r] = "next"
         /\ m \in mintRun[r].page /\ mintRun'[r].page = mintRun[r].page \ {m}
         /\ mintRun'[r].mint = (IF label = "next" THEN NoMint ELSE m)
         /\ mintRun'[r].state = state /\ mintRun'[r].batch = mintRun[r].batch
         /\ Hands(r)' \subseteq Hands(r) /\ mintRun'[r].mint \notin mintRun'[r].page
<1> DEFINE x == [mintRun[r] EXCEPT !.page = @ \ {m}, !.final = @ \ {m},
                               !.mint = IF label = "next" THEN NoMint ELSE m, !.state = state]
<1>1. mintRun \in [MintRuns -> Run] /\ mintRun[r] \in Run /\ NoMint \notin Mints
  BY MintAssumption, SizeAssumption DEF MintLocal, MintTypeOK
<1>2. /\ x \in Run /\ x.page = mintRun[r].page \ {m} /\ x.batch = mintRun[r].batch
      /\ x.mint = (IF label = "next" THEN NoMint ELSE m) /\ x.state = state
  BY <1>1 DEF Run
<1>3. mintRun' = [mintRun EXCEPT ![r] = x] /\ mintPc' = [mintPc EXCEPT ![r] = label] /\ mintPc[r] = "next"
      /\ m \in mintRun[r].page
  BY <1>1 DEF Take, MintGoto
<1> HIDE DEF x
<1>4. HandTypes' /\ OnlyRun(r) /\ mintPc'[r] = label /\ mintRun'[r] = x
  BY <1>1, <1>2, <1>3 DEF MintLocal, MintTypeOK, HandTypes, OnlyRun, Busy
<1> QED BY <1>1, <1>2, <1>3, <1>4 DEF Hands, Run

\* r reads a page.
LEMMA ReadRun ==
  ASSUME MintLocal, NEW r \in MintRuns, NEW batch \in {"request", "sync"}, NEW skip \in Nat,
         ReadPage(r, batch, skip), ~EndRun(r)
  PROVE  /\ HandTypes' /\ OnlyRun(r) /\ mintPc'[r] = "next" /\ mintRun'[r].batch = batch
         /\ mintRun'[r].mint = NoMint /\ Hands(r)' = mintRun'[r].page
         /\ mintRun'[r].page \subseteq Matching(batch)
         /\ overlapped' = overlapped \cup (mintRun'[r].page \cap UNION {Hands(s) : s \in MintRuns \ {r}})
<1> DEFINE n == Cardinality(Matching(batch)) - skip
<1>1. PICK page \in kSubset(Least(n, BatchSize), Matching(batch)) :
            /\ mintRun' = [mintRun EXCEPT ![r] =
                 [NoRun EXCEPT !.batch = batch, !.skip = skip, !.page = page,
                               !.full = n >= BatchSize,
                               !.final = {m \in page : batch = "sync" /\ retries[m] >= MaxRetries}]]
            /\ overlapped' = overlapped \cup
                 (page \cap UNION {Hands(s) : s \in MintRuns \ {r}})
            /\ MintGoto(r, "next")
  BY DEF ReadPage
<1> HIDE DEF n
<1>2. page \subseteq Matching(batch) /\ Matching(batch) \subseteq Mints
  BY <1>1 DEF kSubset, Matching
<1> DEFINE x == [NoRun EXCEPT !.batch = batch, !.skip = skip, !.page = page,
                              !.full = n >= BatchSize,
                              !.final = {m \in page : batch = "sync" /\ retries[m] >= MaxRetries}]
<1>3. x \in Run /\ x.page = page /\ x.batch = batch /\ x.mint = NoMint
  <2>1. (n >= BatchSize) \in BOOLEAN
    OBVIOUS
  <2> QED BY <1>2, <2>1 DEF Run, NoRun
<1> HIDE DEF x
<1>4. mintRun' = [mintRun EXCEPT ![r] = x] /\ mintPc' = [mintPc EXCEPT ![r] = "next"]
  BY <1>1 DEF MintGoto, x
<1>5. HandTypes' /\ OnlyRun(r) /\ mintPc'[r] = "next" /\ mintRun'[r] = x
  BY <1>3, <1>4 DEF MintLocal, MintTypeOK, HandTypes, OnlyRun
<1> QED BY <1>1, <1>2, <1>3, <1>5, MintAssumption, SizeAssumption DEF Hands, MintLocal

-----------------------------------------------------------------------------
(* What the runs have in their hands *)

LEMMA HandsKept ==
  ASSUME HandsApart, NEW r \in MintRuns, OnlyRun(r), Hands(r)' \subseteq Hands(r),
         overlapped' = overlapped
  PROVE  HandsApart'
<1>1. \A s \in MintRuns \ {r} : Hands(s)' = Hands(s)
  BY DEF OnlyRun, Hands
<1> QED BY <1>1 DEF HandsApart

\* Nobody else has the mint that r has in hand, unless runs overlapped.
LEMMA MineAlone ==
  ASSUME MintInv, NEW r \in MintRuns, mintPc[r] \in Busy, mintRun[r].mint \notin overlapped
  PROVE  /\ mintRun[r].mint \in Mints /\ mintRun[r].mint \in Hands(r) /\ mintRun[r].mint \notin mintRun[r].page
         /\ \A s \in MintRuns \ {r} : mintRun[r].mint \notin Hands(s)
<1>1. mintRun[r].mint \in Mints /\ mintRun[r].mint \notin mintRun[r].page
  BY DEF MintInv, MintLocal, HandInv
<1>2. mintRun[r].mint \in Hands(r)
  BY <1>1 DEF Hands
<1> QED BY <1>1, <1>2 DEF MintInv, MintShared, HandsApart

LEMMA LocalFrom ==
  ASSUME MintLocal, NEW r \in MintRuns, OnlyRun(r), MintTypeOK',
         mintPc'[r] \in Busy => mintRun'[r].mint \in Mints, mintRun'[r].mint \notin mintRun'[r].page
  PROVE  MintLocal'
  BY DEF MintLocal, HandInv, OnlyRun

\* r gives up what it has; what it was about to store is lost.
LEMMA ReleaseGood ==
  ASSUME MintInv, NEW r \in MintRuns, EndRun(r) \/ Done(r),
         UNCHANGED <<rows, service, accepted, overlapped>>, crashes' \in 0..MaxCrashes,
         lost' = IF mintPc[r] = "store" THEN lost \cup {mintRun[r].mint} ELSE lost
  PROVE  MintInv'
<1>1. /\ HandTypes' /\ OnlyRun(r) /\ mintPc'[r] \in {"idle", "next"}
      /\ Hands(r)' \subseteq Hands(r) /\ mintRun'[r].page \subseteq mintRun[r].page
      /\ mintRun'[r].batch = "request" => mintRun[r].batch = "request"
      /\ mintRun'[r].mint \notin mintRun'[r].page
  BY ReleaseRun DEF MintInv, Hands
<1>2. MintTypeOK'
  BY <1>1 DEF MintInv, MintLocal, MintTypeOK, HandTypes, HandInv, rows, Busy
<1>3. MintLocal'
  BY <1>1, <1>2, LocalFrom DEF MintInv, Busy
<1>4. HandsApart'
  BY <1>1, HandsKept DEF MintInv, MintShared
<1>5. AnswerTrue'
  BY <1>1 DEF MintInv, MintShared, AnswerTrue, OnlyRun
<1>6. OwnedAtRest' /\ OwnedIsMinted'
  <2>1. \A s \in MintRuns : Hands(s)' \subseteq Hands(s)
    BY <1>1 DEF OnlyRun, Hands
  <2> QED BY <2>1 DEF MintInv, MintShared, OwnedAtRest, OwnedIsMinted, rows
<1>7. \A m \in Mints : Storing(m) => Storing(m)' \/ m \in lost'
  BY <1>1 DEF Storing, OnlyRun
<1>8. AskedOnce'
  <2>1. \A s \in MintRuns : /\ mintRun'[s].page \subseteq mintRun[s].page
                            /\ mintRun'[s].batch = "request" => mintRun[s].batch = "request"
    BY <1>1 DEF OnlyRun
  <2>2. AskedOnce /\ accepted' = accepted /\ mint' = mint /\ lost \subseteq lost' /\ overlapped' = overlapped
    BY DEF MintInv, MintShared, rows
  <2> QED BY <1>7, <2>1, <2>2 DEF AskedOnce
<1>9. AcceptedIsFollowed'
  BY <1>7 DEF MintInv, MintShared, AcceptedIsFollowed, Storing, rows
<1> QED BY <1>3, <1>4, <1>5, <1>6, <1>8, <1>9 DEF MintInv, MintShared

\* r writes the mint it has in hand, and is done with it.
LEMMA WrittenGood ==
  ASSUME MintInv, NEW r \in MintRuns, mintPc[r] \in Busy, Done(r),
         NEW v \in {"SUBMITTED", "MINTED", "FAILED"},
         mint' = [mint EXCEPT ![mintRun[r].mint] = v],
         retries' \in [Mints -> 0..MaxRetries],
         UNCHANGED <<service, accepted, crashes, lost, overlapped>>,
         \/ instance' = instance /\ mintPc[r] /= "store"
         \/ instance' = [instance EXCEPT ![mintRun[r].mint] = "MINTING"]
         \/ /\ instance' = [instance EXCEPT ![mintRun[r].mint] = "OWNED"] /\ v = "MINTED"
            /\ mintPc[r] = "handle" /\ mintRun[r].state = "minted"
  PROVE  MintInv'
<1> DEFINE m == mintRun[r].mint
<1>1. /\ HandTypes' /\ OnlyRun(r) /\ mintPc'[r] \in {"idle", "next"}
      /\ Hands(r)' \subseteq mintRun[r].page /\ mintRun'[r].page \subseteq mintRun[r].page
      /\ mintRun'[r].batch = "request" => mintRun[r].batch = "request"
      /\ mintRun'[r].mint \notin mintRun'[r].page
  BY ReleaseRun DEF MintInv
<1>2. m \in Mints /\ m \in Hands(r) /\ mintRun[r].page \subseteq Hands(r) /\ m \notin Hands(r)'
  BY <1>1 DEF MintInv, MintLocal, HandInv, Hands
<1>3. mint \in [Mints -> {"none", "QUEUED", "SUBMITTED", "MINTED", "FAILED"}]
      /\ instance \in [Mints -> {"STOCK", "MINTING", "OWNED"}]
  BY DEF MintInv, MintLocal, MintTypeOK
<1>4. MintTypeOK'
  <2>1. mint' \in [Mints -> {"none", "QUEUED", "SUBMITTED", "MINTED", "FAILED"}]
        /\ instance' \in [Mints -> {"STOCK", "MINTING", "OWNED"}]
    BY <1>3
  <2> QED BY <1>1, <2>1 DEF MintInv, MintLocal, MintTypeOK, HandTypes
<1>5. MintLocal'
  BY <1>1, <1>4, LocalFrom DEF MintInv, Busy
<1>6. HandsApart'
  BY <1>1, <1>2, HandsKept DEF MintInv, MintShared
<1>7. AnswerTrue'
  BY <1>1 DEF MintInv, MintShared, AnswerTrue, OnlyRun
<1>8. /\ mint'[m] = v /\ \A k \in Mints \ {m} : mint'[k] = mint[k] /\ instance'[k] = instance[k]
      /\ instance'[m] = "OWNED" =>
           \/ instance[m] = "OWNED"
           \/ v = "MINTED" /\ mintPc[r] = "handle" /\ mintRun[r].state = "minted"
  BY <1>2, <1>3
<1>9. instance[m] = "OWNED" => m \in overlapped
  BY <1>2 DEF MintInv, MintShared, OwnedAtRest
<1>10. OwnedAtRest' /\ OwnedIsMinted'
  <2>1. \A s \in MintRuns : Hands(s)' \subseteq Hands(s)
    BY <1>1, <1>2 DEF OnlyRun, Hands
  <2>2. ASSUME NEW k \in Mints, instance'[k] = "OWNED"
        PROVE  /\ service'[k] = "minted"
               /\ k \notin overlapped' => mint'[k] = "MINTED"
               /\ k \notin overlapped' => \A s \in MintRuns : k \notin Hands(s)'
    <3>1. CASE k /= m
      BY <1>8, <2>1, <2>2, <3>1 DEF MintInv, MintShared, OwnedAtRest, OwnedIsMinted
    <3>2. CASE k = m /\ instance[m] = "OWNED"
      BY <1>9, <3>2 DEF MintInv, MintShared, OwnedIsMinted
    <3>3. CASE k = m /\ instance[m] /= "OWNED"
      <4>1. v = "MINTED" /\ mintPc[r] = "handle" /\ mintRun[r].state = "minted"
        BY <1>8, <2>2, <3>3
      <4>2. service[m] = "minted"
        BY <4>1 DEF MintInv, MintShared, AnswerTrue
      <4>3. m \notin overlapped => \A s \in MintRuns \ {r} : m \notin Hands(s)
        BY MineAlone
      <4> QED BY <1>2, <1>8, <2>1, <3>3, <4>1, <4>2, <4>3
    <3> QED BY <3>1, <3>2, <3>3
  <2> QED BY <2>2 DEF OwnedAtRest, OwnedIsMinted
<1>11. \A k \in Mints : Storing(k) => Storing(k)' \/ (mintPc[r] = "store" /\ k = m)
  BY <1>1 DEF Storing, OnlyRun
<1>12. AskedOnce'
  <2>1. \A s \in MintRuns : /\ mintRun'[s].page \subseteq mintRun[s].page
                            /\ mintRun'[s].batch = "request" => mintRun[s].batch = "request"
    BY <1>1 DEF OnlyRun
  <2>2. v \notin {"none", "QUEUED"}
    OBVIOUS
  <2>3. AskedOnce
    BY DEF MintInv, MintShared
  <2> HIDE DEF m
  <2> QED BY <1>8, <1>11, <2>1, <2>2, <2>3 DEF AskedOnce
<1>13. AcceptedIsFollowed'
  <2>1. mintPc[r] = "store" => instance'[m] \in {"MINTING", "OWNED"}
    BY <1>2, <1>3
  <2>2. \A k \in Mints : instance[k] \in {"MINTING", "OWNED"} => instance'[k] \in {"MINTING", "OWNED"}
    BY <1>2, <1>3
  <2> HIDE DEF m
  <2> QED BY <1>11, <2>1, <2>2 DEF MintInv, MintShared, AcceptedIsFollowed, Storing
<1> QED BY <1>5, <1>6, <1>7, <1>10, <1>12, <1>13 DEF MintInv, MintShared

-----------------------------------------------------------------------------
(* The steps *)

\* r has read a page: rows that two runs have in hand have overlapped from now on.
LEMMA ReadGood ==
  ASSUME MintInv, NEW r \in MintRuns, NEW batch \in {"request", "sync"}, NEW skip \in Nat,
         ReadPage(r, batch, skip), mintPc[r] \in {"idle", "next"}, ~EndRun(r),
         UNCHANGED <<rows, service, accepted, crashes, lost>>
  PROVE  MintInv'
<1>1. /\ HandTypes' /\ OnlyRun(r) /\ mintPc'[r] = "next" /\ mintRun'[r].batch = batch
      /\ mintRun'[r].mint = NoMint /\ Hands(r)' = mintRun'[r].page
      /\ mintRun'[r].page \subseteq Matching(batch)
      /\ overlapped' = overlapped \cup (mintRun'[r].page \cap UNION {Hands(s) : s \in MintRuns \ {r}})
  BY ReadRun DEF MintInv
<1>2. Matching(batch) \subseteq Mints
  BY DEF Matching
<1>3. \A s \in MintRuns \ {r} : Hands(s)' = Hands(s)
  BY <1>1 DEF OnlyRun, Hands
<1>4. \A s \in MintRuns \ {r} : Hands(s) \cap mintRun'[r].page \subseteq overlapped'
  BY <1>1
<1>5. MintTypeOK'
  BY <1>1, <1>2 DEF MintInv, MintLocal, MintTypeOK, HandTypes, rows
<1>6. MintLocal'
  <2>1. mintRun'[r].mint \notin mintRun'[r].page
    BY <1>1, <1>2, MintAssumption, SizeAssumption DEF MintInv, MintLocal
  <2> QED BY <1>1, <1>5, <2>1, LocalFrom DEF MintInv, Busy
<1>7. HandsApart'
  BY <1>1, <1>3, <1>4 DEF MintInv, MintShared, HandsApart
<1>8. AnswerTrue'
  BY <1>1 DEF MintInv, MintShared, AnswerTrue, OnlyRun
<1>9. \A m \in Mints : instance[m] = "OWNED" /\ m \notin overlapped' => m \notin mintRun'[r].page
  BY <1>1 DEF Matching, MintInv, MintShared, OwnedIsMinted
<1>10. OwnedAtRest' /\ OwnedIsMinted'
  BY <1>1, <1>3, <1>9 DEF MintInv, MintShared, OwnedAtRest, OwnedIsMinted, rows
<1>11. \A m \in Mints : Storing(m) => Storing(m)' /\ (m \notin overlapped' => m \notin mintRun'[r].page)
  <2> SUFFICES ASSUME NEW m \in Mints, NEW s \in MintRuns, mintPc[s] = "store", mintRun[s].mint = m
               PROVE  Storing(m)' /\ (m \notin overlapped' => m \notin mintRun'[r].page)
    BY DEF Storing
  <2>1. s \in MintRuns \ {r} /\ m \in Hands(s)
    BY DEF Hands
  <2> QED BY <1>1, <1>4, <2>1 DEF Storing, OnlyRun
<1>12. AskedOnce'
  <2> SUFFICES ASSUME NEW m \in Mints, accepted[m] > 0, m \notin lost \cup overlapped'
               PROVE  /\ accepted[m] = 1
                      /\ \A s \in MintRuns : mintRun'[s].batch = "request" => m \notin mintRun'[s].page
                      /\ Storing(m)' \/ mint[m] \notin {"none", "QUEUED"}
    BY DEF AskedOnce, rows
  <2>1. /\ accepted[m] = 1
        /\ \A s \in MintRuns : mintRun[s].batch = "request" => m \notin mintRun[s].page
        /\ Storing(m) \/ mint[m] \notin {"none", "QUEUED"}
    BY <1>1 DEF MintInv, MintShared, AskedOnce
  <2>2. batch = "request" => m \notin mintRun'[r].page
    BY <1>1, <1>11, <2>1 DEF Matching
  <2> QED BY <1>1, <1>11, <2>1, <2>2 DEF OnlyRun
<1>13. AcceptedIsFollowed'
  BY <1>11 DEF MintInv, MintShared, AcceptedIsFollowed, Storing, rows
<1> QED BY <1>6, <1>7, <1>8, <1>10, <1>12, <1>13 DEF MintInv, MintShared

\* A page is turned, or a run begins.
LEMMA PagingGood ==
  ASSUME MintInv, NEW r \in MintRuns,
         Start(r, "request") \/ Start(r, "sync") \/ TurnPage(r)
  PROVE  MintInv'
<1>1. /\ mintPc[r] \in {"idle", "next"} /\ UNCHANGED <<rows, service, accepted, crashes, lost>>
      /\ \/ EndRun(r) /\ UNCHANGED overlapped
         \/ \E batch \in {"request", "sync"}, skip \in Nat : ReadPage(r, batch, skip)
  <2>1. mintRun[r].skip + BatchSize \in Nat /\ mintRun[r].batch \in {"request", "sync"}
    BY MintAssumption, SizeAssumption DEF MintInv, MintLocal, MintTypeOK, Run
  <2> QED BY <2>1 DEF Start, TurnPage
<1>2. CASE EndRun(r) /\ UNCHANGED overlapped
  BY <1>1, <1>2, ReleaseGood DEF MintInv, MintLocal, MintTypeOK
<1>3. ASSUME NEW batch \in {"request", "sync"}, NEW skip \in Nat, ReadPage(r, batch, skip)
      PROVE  MintInv'
  <2>1. CASE EndRun(r)
    <3>1. ~MintGoto(r, "next")
      BY <2>1 DEF EndRun, MintGoto, MintInv, MintLocal, MintTypeOK
    <3> QED BY <1>2, <1>3, <2>1, <3>1 DEF ReadPage
  <2> QED BY <1>1, <1>3, <2>1, ReadGood
<1> QED BY <1>1, <1>2, <1>3

\* A request is made, or the service is asked.
LEMMA TakeGood ==
  ASSUME MintInv, NEW r \in MintRuns, NEW m \in Mints, NEW label \in Busy \cup {"next"},
         NEW state \in {"none", "sold", "minted", "error", "fatal"}, Take(r, m, label, state),
         UNCHANGED <<rows, crashes, lost, overlapped>>,
         service' \in [Mints -> {"none", "sold", "minted", "error"}],
         accepted' \in [Mints -> 0..2],
         \A k \in Mints : service[k] = "minted" => service'[k] = "minted",
         label = "handle" /\ state = "minted" => service[m] = "minted",
         \/ accepted' = accepted
         \/ /\ label = "store" /\ mintRun[r].batch = "request"
            /\ accepted' = [accepted EXCEPT ![m] = Least(@ + 1, 2)]
  PROVE  MintInv'
<1>1. /\ HandTypes' /\ OnlyRun(r) /\ mintPc'[r] = label /\ mintPc[r] = "next"
      /\ m \in mintRun[r].page /\ mintRun'[r].page = mintRun[r].page \ {m}
      /\ mintRun'[r].mint = (IF label = "next" THEN NoMint ELSE m)
      /\ mintRun'[r].state = state /\ mintRun'[r].batch = mintRun[r].batch
      /\ Hands(r)' \subseteq Hands(r) /\ mintRun'[r].mint \notin mintRun'[r].page
  BY TakeRun DEF MintInv
<1>2. MintTypeOK'
  BY <1>1 DEF MintInv, MintLocal, MintTypeOK, HandTypes, rows
<1>3. MintLocal'
  BY <1>1, <1>2, LocalFrom DEF MintInv, Busy
<1>4. HandsApart'
  BY <1>1, HandsKept DEF MintInv, MintShared
<1>5. AnswerTrue'
  <2>1. ASSUME NEW s \in MintRuns, mintPc'[s] = "handle", mintRun'[s].state = "minted"
        PROVE  service'[mintRun'[s].mint] = "minted"
    <3>1. CASE s = r
      BY <1>1, <2>1, <3>1
    <3>2. CASE s /= r
      <4>1. mintRun'[s] = mintRun[s] /\ mintPc'[s] = mintPc[s]
        BY <1>1, <3>2 DEF OnlyRun
      <4>2. mintRun[s].mint \in Mints /\ service[mintRun[s].mint] = "minted"
        BY <2>1, <4>1 DEF MintInv, MintLocal, MintShared, HandInv, AnswerTrue, Busy
      <4> QED BY <4>1, <4>2
    <3> QED BY <3>1, <3>2
  <2> QED BY <2>1 DEF AnswerTrue
<1>6. OwnedAtRest' /\ OwnedIsMinted'
  <2>1. \A s \in MintRuns : Hands(s)' \subseteq Hands(s)
    BY <1>1 DEF OnlyRun, Hands
  <2> QED BY <2>1 DEF MintInv, MintShared, OwnedAtRest, OwnedIsMinted, rows
<1>7. \A k \in Mints : Storing(k) => Storing(k)'
  BY <1>1 DEF Storing, OnlyRun
<1>8. \A s \in MintRuns : mintRun'[s].page \subseteq mintRun[s].page /\ mintRun'[s].batch = mintRun[s].batch
  BY <1>1 DEF OnlyRun
<1>9. CASE accepted' = accepted
  BY <1>3, <1>4, <1>5, <1>6, <1>7, <1>8, <1>9
  DEF MintInv, MintShared, AskedOnce, AcceptedIsFollowed, Storing, rows
<1>10. CASE /\ label = "store" /\ mintRun[r].batch = "request"
            /\ accepted' = [accepted EXCEPT ![m] = Least(@ + 1, 2)]
  <2>1. Storing(m)' /\ m \in Hands(r) /\ m \notin mintRun'[r].page
    BY <1>1, <1>10 DEF Storing, Hands
  <2>2. \A k \in Mints \ {m} : accepted'[k] = accepted[k]
    BY <1>10 DEF MintInv, MintLocal, MintTypeOK
  <2>3. m \notin lost \cup overlapped => accepted[m] = 0
    BY <1>1, <1>10 DEF MintInv, MintLocal, MintTypeOK, MintShared, AskedOnce
  <2>4. accepted[m] = 0 => accepted'[m] = 1
    BY <1>10 DEF MintInv, MintLocal, MintTypeOK, Least
  <2>5. m \notin overlapped => \A s \in MintRuns : m \notin mintRun'[s].page
    <3>1. m \notin overlapped => \A s \in MintRuns \ {r} : m \notin Hands(s)
      BY <2>1 DEF MintInv, MintShared, HandsApart
    <3> QED BY <1>1, <2>1, <3>1 DEF Hands, OnlyRun
  <2>6. AskedOnce'
    BY <1>7, <1>8, <2>1, <2>2, <2>3, <2>4, <2>5 DEF MintInv, MintShared, AskedOnce, rows
  <2>7. AcceptedIsFollowed'
    BY <1>7, <2>1, <2>2 DEF MintInv, MintShared, AcceptedIsFollowed, Storing, rows
  <2> QED BY <1>3, <1>4, <1>5, <1>6, <2>6, <2>7 DEF MintInv, MintShared
<1> QED BY <1>9, <1>10

LEMMA RunGood ==
  ASSUME MintInv, NEW r \in MintRuns,
         \/ Start(r, "request") \/ Start(r, "sync") \/ Work(r) \/ CrashRun(r)
  PROVE  MintInv'
<1>1. CASE Start(r, "request") \/ Start(r, "sync") \/ TurnPage(r)
  BY <1>1, PagingGood
<1>2. CASE Store(r)
  BY <1>2, WrittenGood DEF Store, Busy, MintInv, MintLocal, MintTypeOK
<1>3. CASE Fail(r)
  <2>1. retries' \in [Mints -> 0..MaxRetries]
    <3>1. \A k \in 0..MaxRetries : Least(k + 1, MaxRetries) \in 0..MaxRetries
      BY MintAssumption, SizeAssumption DEF Least, MintInv, MintLocal
    <3>2. retries \in [Mints -> 0..MaxRetries] /\ mintRun[r].mint \in Mints
      BY <1>3 DEF Fail, Busy, MintInv, MintLocal, HandInv, MintTypeOK
    <3> QED BY <1>3, <3>1, <3>2 DEF Fail
  <2> QED BY <1>3, <2>1, WrittenGood DEF Fail, Busy
<1>4. CASE Handle(r)
  <2>1. CASE UNCHANGED <<mint, instance>>
    BY <1>4, <2>1, ReleaseGood DEF Handle, MintInv, MintLocal, MintTypeOK, rows
  <2>2. CASE ~UNCHANGED <<mint, instance>>
    BY <1>4, <2>2, WrittenGood DEF Handle, Busy, MintInv, MintLocal, MintTypeOK
  <2> QED BY <2>1, <2>2
<1>5. CASE ExpireRequest(r)
  <2>1. mintRun[r].mint \in Mints /\ mintPc' = [mintPc EXCEPT ![r] = "fail"] /\ mintRun' = mintRun
    BY <1>5 DEF ExpireRequest, MintGoto, MintInv, MintLocal, HandInv, Busy
  <2>2. MintLocal'
    BY <1>5, <2>1, MintAssumption, SizeAssumption DEF ExpireRequest, MintInv, MintLocal, MintTypeOK, HandInv, rows, Busy
  <2>3. HandsApart' /\ AnswerTrue' /\ OwnedAtRest' /\ OwnedIsMinted'
    BY <1>5, <2>1 DEF ExpireRequest, MintInv, MintShared, HandsApart, AnswerTrue, OwnedAtRest,
      OwnedIsMinted, Hands, rows, MintLocal, MintTypeOK
  <2>4. \A k \in Mints : Storing(k) => Storing(k)' \/ k \in lost'
    BY <1>5, <2>1 DEF ExpireRequest, Storing, MintInv, MintLocal, MintTypeOK
  <2>5. AskedOnce' /\ AcceptedIsFollowed'
    BY <1>5, <2>1, <2>4 DEF ExpireRequest, MintInv, MintShared, AskedOnce, AcceptedIsFollowed,
      Storing, rows
  <2> QED BY <2>2, <2>3, <2>5 DEF MintInv, MintShared
<1>6. ASSUME NEW m \in Mints, Accept(r, m) PROVE MintInv'
  <2>1. service' \in [Mints -> {"none", "sold", "minted", "error"}]
        /\ \A k \in Mints : service[k] = "minted" => service'[k] = "minted"
    BY <1>6 DEF Accept, MintInv, MintLocal, MintTypeOK
  <2>2. accepted' \in [Mints -> 0..2]
    BY <1>6 DEF Accept, Least, MintInv, MintLocal, MintTypeOK
  <2> QED BY <1>6, <2>1, <2>2, TakeGood DEF Accept, Busy
<1>7. ASSUME NEW m \in Mints, Decline(r, m) PROVE MintInv'
  BY <1>7, TakeGood DEF Decline, Busy, MintInv, MintLocal, MintTypeOK
<1>8. ASSUME NEW m \in Mints, Ask(r, m) PROVE MintInv'
  <2> DEFINE state == IF service[m] = "error" /\ m \in mintRun[r].final THEN "fatal" ELSE service[m]
  <2>1. state \in {"none", "sold", "minted", "error", "fatal"}
        /\ (state = "minted" => service[m] = "minted")
    BY DEF MintInv, MintLocal, MintTypeOK
  <2>2. Take(r, m, "handle", state) \/ Take(r, m, "next", "none")
    BY <1>8 DEF Ask
  <2>3. UNCHANGED <<rows, service, accepted, crashes, lost, overlapped>>
    BY <1>8 DEF Ask
  <2> HIDE DEF state
  <2> QED BY <2>1, <2>2, <2>3, TakeGood DEF Busy, MintInv, MintLocal, MintTypeOK
<1>9. CASE CrashRun(r)
  <2>1. crashes' \in 0..MaxCrashes
    BY <1>9, MintAssumption, SizeAssumption DEF CrashRun, MintInv, MintLocal, MintTypeOK
  <2> QED BY <1>9, <2>1, ReleaseGood DEF CrashRun
<1> QED BY <1>1, <1>2, <1>3, <1>4, <1>5, <1>6, <1>7, <1>8, <1>9 DEF Work

\* The script queues a mint; the service finishes one.
LEMMA OutsideGood ==
  ASSUME MintInv, NEW m \in Mints, Queue(m) \/ Mint(m)
  PROVE  MintInv'
<1>1. CASE Queue(m)
  <2>1. MintLocal'
    BY <1>1, MintAssumption, SizeAssumption DEF Queue, MintInv, MintLocal, MintTypeOK, HandInv
  <2>2. mint' = [mint EXCEPT ![m] = "QUEUED"] /\ mint[m] = "none"
        /\ \A k \in Mints \ {m} : mint'[k] = mint[k]
    BY <1>1 DEF Queue, MintInv, MintLocal, MintTypeOK
  <2>3. HandsApart' /\ AnswerTrue' /\ OwnedAtRest' /\ AcceptedIsFollowed'
    BY <1>1 DEF Queue, MintInv, MintShared, HandsApart, AnswerTrue, OwnedAtRest,
      AcceptedIsFollowed, Hands
  <2>4. OwnedIsMinted'
    BY <1>1, <2>2 DEF Queue, MintInv, MintShared, OwnedIsMinted
  <2>5. AskedOnce'
    BY <1>1, <2>2 DEF Queue, MintInv, MintShared, AskedOnce, Storing
  <2> QED BY <2>1, <2>3, <2>4, <2>5 DEF MintInv, MintShared
<1>2. CASE Mint(m)
  <2>1. /\ service' \in [Mints -> {"none", "sold", "minted", "error"}]
        /\ \A k \in Mints : service[k] = "minted" => service'[k] = "minted"
        /\ UNCHANGED <<rows, accepted, mintPc, mintRun, crashes, lost, overlapped>>
    BY <1>2 DEF Mint, MintInv, MintLocal, MintTypeOK
  <2>2. MintLocal'
    BY <2>1, MintAssumption, SizeAssumption DEF MintInv, MintLocal, MintTypeOK, HandInv, rows
  <2>3. HandsApart' /\ OwnedAtRest' /\ AcceptedIsFollowed' /\ AskedOnce' /\ OwnedIsMinted'
    BY <2>1 DEF MintInv, MintShared, HandsApart, OwnedAtRest, AskedOnce, OwnedIsMinted,
      AcceptedIsFollowed, Hands, Storing, rows
  <2>4. AnswerTrue'
    BY <2>1 DEF MintInv, MintLocal, HandInv, Busy, MintShared, AnswerTrue
  <2> QED BY <2>2, <2>3, <2>4 DEF MintInv, MintShared
<1> QED BY <1>1, <1>2

LEMMA MintStep == MintInv /\ [MintNext]_mintVars => MintInv'
<1> SUFFICES ASSUME MintInv, [MintNext]_mintVars PROVE MintInv'
  OBVIOUS
<1>1. CASE MintNext
  BY <1>1, RunGood, OutsideGood DEF MintNext
<1>2. CASE UNCHANGED mintVars
  BY <1>2, MintAssumption, SizeAssumption DEF mintVars, MintInv, MintLocal, MintTypeOK, HandInv, MintShared, HandsApart,
    AnswerTrue, OwnedAtRest, AskedOnce, OwnedIsMinted, AcceptedIsFollowed, Hands, Storing
<1> QED BY <1>1, <1>2

LEMMA MintBase == MintInit => MintInv
<1> SUFFICES ASSUME MintInit PROVE MintInv
  OBVIOUS
<1>1. MintTypeOK
  BY NoRunType, MintAssumption, SizeAssumption DEF MintInit, MintTypeOK
<1>2. \A r \in MintRuns : mintPc[r] = "idle" /\ mintRun[r] = NoRun /\ Hands(r) = {}
  BY MintAssumption, SizeAssumption DEF MintInit, Hands, NoRun
<1>3. MintLocal
  BY <1>1, <1>2 DEF MintLocal, HandInv, Busy, NoRun, MintInit
<1>4. MintShared
  BY <1>2 DEF MintInit, MintShared, HandsApart, AnswerTrue, OwnedAtRest, AskedOnce,
    OwnedIsMinted, AcceptedIsFollowed
<1> QED BY <1>3, <1>4 DEF MintInv

LEMMA MintAlways == MintSpec => []MintInv
  BY MintBase, MintStep, PTL DEF MintSpec

\* The variables of NFT minting keep their types in every behaviour.
THEOREM MintTypeCorrect == MintSpec => []MintTypeOK
  BY MintAlways, PTL DEF MintInv, MintLocal

\* An instance is OWNED only if the service has minted it, and unless two runs had
\* read its mint, a late answer never takes MINTED back.
THEOREM OwnedIsMintedAlways == MintSpec => []OwnedIsMinted
  BY MintAlways, PTL DEF MintInv, MintShared

\* What the service has accepted is followed until it is owned, unless the answer
\* was lost with the transaction it arrived in.
THEOREM AcceptedIsFollowedAlways == MintSpec => []AcceptedIsFollowed
  BY MintAlways, PTL DEF MintInv, MintShared

\* However runs overlap, crash and page, the service is asked twice for one token
\* only after an answer was lost or two runs had read the mint.
THEOREM AcceptedOnceAlways == MintSpec => []AcceptedOnce
<1>1. MintInv => AcceptedOnce
  BY DEF MintInv, MintLocal, MintShared, AskedOnce, AcceptedOnce, MintTypeOK
<1> QED BY <1>1, MintAlways, PTL

-----------------------------------------------------------------------------
(* NFT minting: what a run has read of a mint is still so when it writes,  *)
(* unless runs overlapped; so the status of a mint only moves on.          *)

\* r is to request m, or has requested it; r has asked what became of m.
Requesting(r, m) ==
  \/ mintRun[r].batch = "request" /\ m \in mintRun[r].page
  \/ mintPc[r] \in {"store", "fail"} /\ mintRun[r].mint = m
Handling(r, m) == mintPc[r] = "handle" /\ mintRun[r].mint = m

\* What r has read of m is so.
UpToDate(r, m) ==
  /\ Requesting(r, m) => mint[m] = "QUEUED" /\ instance[m] = "STOCK"
  /\ mintRun[r].batch = "sync" /\ m \in mintRun[r].page => instance[m] = "MINTING"
  /\ Handling(r, m) => /\ instance[m] = "MINTING"
                       /\ mintRun[r].state \in {"sold", "minted"} => mint[m] = "SUBMITTED"
                       /\ mintRun[r].state = "fatal" => service[m] = "error"

\* While an instance is being minted its mint is SUBMITTED, or has failed for good.
Pending(m) == instance[m] = "MINTING" => mint[m] = "SUBMITTED" \/ (mint[m] = "FAILED" /\ service[m] = "error")

MintFlow == \A m \in Mints \ overlapped : Pending(m) /\ \A r \in MintRuns : UpToDate(r, m)

LEMMA NotHeld ==
  ASSUME NEW r \in MintRuns, NEW m \in Mints, m \notin Hands(r)
  PROVE  UpToDate(r, m)
  BY DEF Hands, UpToDate, Requesting, Handling

\* The same at the end of a step.
LEMMA NotHeldNext ==
  ASSUME NEW r \in MintRuns, NEW m \in Mints, m \notin Hands(r)'
  PROVE  UpToDate(r, m)'
  BY DEF Hands, UpToDate, Requesting, Handling

\* A step of r leaves alone what the others have read of the rows it does not write.
LEMMA OthersUpToDate ==
  ASSUME NEW r \in MintRuns, OnlyRun(r), NEW m \in Mints, NEW s \in MintRuns \ {r},
         mint'[m] = mint[m], instance'[m] = instance[m], service[m] = "error" => service'[m] = "error",
         UpToDate(s, m)
  PROVE  UpToDate(s, m)'
  BY DEF OnlyRun, UpToDate, Requesting, Handling

\* r gives up what it has.
LEMMA ReleaseUpToDate ==
  ASSUME MintInv, MintFlow, NEW r \in MintRuns, EndRun(r) \/ Done(r),
         UNCHANGED <<rows, service, overlapped>>
  PROVE  MintFlow'
<1>1. /\ OnlyRun(r) /\ mintPc'[r] \in {"idle", "next"} /\ mintRun'[r].page \subseteq mintRun[r].page
      /\ mintRun'[r].page /= {} => mintRun'[r].batch = mintRun[r].batch
  BY ReleaseRun DEF MintInv
<1> SUFFICES ASSUME NEW m \in Mints \ overlapped
             PROVE  Pending(m)' /\ \A s \in MintRuns : UpToDate(s, m)'
  BY DEF MintFlow
<1>2. Pending(m) /\ \A s \in MintRuns : UpToDate(s, m)
  BY DEF MintFlow
<1>3. UpToDate(r, m)'
  BY <1>1, <1>2 DEF UpToDate, Requesting, Handling, rows
<1>4. \A s \in MintRuns \ {r} : UpToDate(s, m)'
  BY <1>1, <1>2, OthersUpToDate DEF rows
<1> QED BY <1>2, <1>3, <1>4 DEF Pending, rows

\* r writes the mint it has in hand, and is done with it: nobody else has it.
LEMMA WrittenUpToDate ==
  ASSUME MintInv, MintFlow, NEW r \in MintRuns, mintPc[r] \in Busy, Done(r),
         NEW v \in {"SUBMITTED", "MINTED", "FAILED"}, NEW i \in {"STOCK", "MINTING", "OWNED"},
         mint' = [mint EXCEPT ![mintRun[r].mint] = v],
         instance' = [instance EXCEPT ![mintRun[r].mint] = i],
         UNCHANGED <<service, overlapped>>,
         mintRun[r].mint \notin overlapped /\ i = "MINTING" =>
           v = "SUBMITTED" \/ (v = "FAILED" /\ service[mintRun[r].mint] = "error")
  PROVE  MintFlow'
<1> DEFINE m == mintRun[r].mint
<1>1. /\ OnlyRun(r) /\ mintPc'[r] \in {"idle", "next"} /\ mintRun'[r].page \subseteq mintRun[r].page
      /\ mintRun'[r].page /= {} => mintRun'[r].batch = mintRun[r].batch
      /\ Hands(r)' \subseteq mintRun[r].page
  BY ReleaseRun DEF MintInv
<1>2. /\ m \in Mints
      /\ mint'[m] = v /\ instance'[m] = i
      /\ \A k \in Mints \ {m} : mint'[k] = mint[k] /\ instance'[k] = instance[k]
  BY DEF MintInv, MintLocal, MintTypeOK, HandInv
<1> SUFFICES ASSUME NEW k \in Mints \ overlapped
             PROVE  Pending(k)' /\ \A s \in MintRuns : UpToDate(s, k)'
  BY DEF MintFlow
<1>3. Pending(k) /\ \A s \in MintRuns : UpToDate(s, k)
  BY DEF MintFlow
<1>4. CASE k = m
  <2>1. m \notin Hands(r)' /\ \A s \in MintRuns \ {r} : m \notin Hands(s)'
    BY <1>1, <1>4, MineAlone DEF OnlyRun, Hands
  <2>2. \A s \in MintRuns : UpToDate(s, k)'
    BY <1>4, <2>1, NotHeldNext
  <2> QED BY <1>2, <1>4, <2>2 DEF Pending
<1>5. CASE k /= m
  <2> HIDE DEF m
  <2>1. mint'[k] = mint[k] /\ instance'[k] = instance[k]
    BY <1>2, <1>5
  <2>2. UpToDate(r, k)'
    BY <1>1, <1>3, <2>1 DEF UpToDate, Requesting, Handling
  <2>3. \A s \in MintRuns \ {r} : UpToDate(s, k)'
    BY <1>1, <1>3, <2>1, OthersUpToDate
  <2> QED BY <1>3, <2>1, <2>2, <2>3 DEF Pending
<1> QED BY <1>4, <1>5

\* r has read a page.
LEMMA ReadUpToDate ==
  ASSUME MintInv, MintFlow, NEW r \in MintRuns, NEW batch \in {"request", "sync"}, NEW skip \in Nat,
         ReadPage(r, batch, skip), ~EndRun(r), UNCHANGED <<rows, service>>
  PROVE  MintFlow'
<1>1. /\ OnlyRun(r) /\ mintPc'[r] = "next" /\ mintRun'[r].batch = batch
      /\ Hands(r)' = mintRun'[r].page /\ mintRun'[r].page \subseteq Matching(batch)
      /\ overlapped \subseteq overlapped'
  BY ReadRun DEF MintInv
<1> SUFFICES ASSUME NEW m \in Mints \ overlapped'
             PROVE  Pending(m)' /\ \A s \in MintRuns : UpToDate(s, m)'
  BY DEF MintFlow
<1>2. Pending(m) /\ \A s \in MintRuns : UpToDate(s, m)
  BY <1>1 DEF MintFlow
<1>3. mint[m] = "QUEUED" => instance[m] = "STOCK"
  BY <1>1, <1>2 DEF Pending, MintInv, MintLocal, MintTypeOK, MintShared, OwnedIsMinted
<1>4. UpToDate(r, m)'
  BY <1>1, <1>3 DEF UpToDate, Requesting, Handling, Matching, rows
<1>5. \A s \in MintRuns \ {r} : UpToDate(s, m)'
  BY <1>1, <1>2, OthersUpToDate DEF rows
<1> QED BY <1>2, <1>4, <1>5 DEF Pending, rows

\* r takes a mint from its page.
LEMMA TakeUpToDate ==
  ASSUME MintInv, MintFlow, NEW r \in MintRuns, NEW m \in Mints, NEW label \in Busy \cup {"next"},
         NEW state \in {"none", "sold", "minted", "error", "fatal"}, Take(r, m, label, state),
         UNCHANGED <<rows, overlapped>>,
         \A k \in Mints : service[k] = "error" => service'[k] = "error",
         label \in {"store", "fail"} => mintRun[r].batch = "request",
         label = "handle" => /\ mintRun[r].batch = "sync"
                             /\ state = service[m] \/ (state = "fatal" /\ service[m] = "error")
  PROVE  MintFlow'
<1>1. /\ OnlyRun(r) /\ mintPc'[r] = label /\ m \in mintRun[r].page
      /\ mintRun'[r].page = mintRun[r].page \ {m}
      /\ mintRun'[r].mint = (IF label = "next" THEN NoMint ELSE m)
      /\ mintRun'[r].state = state /\ mintRun'[r].batch = mintRun[r].batch
  BY TakeRun DEF MintInv
<1> SUFFICES ASSUME NEW k \in Mints \ overlapped
             PROVE  Pending(k)' /\ \A s \in MintRuns : UpToDate(s, k)'
  BY DEF MintFlow
<1>2. Pending(k) /\ \A s \in MintRuns : UpToDate(s, k)
  BY DEF MintFlow
<1>3. \A s \in MintRuns \ {r} : UpToDate(s, k)'
  BY <1>1, <1>2, OthersUpToDate DEF rows
<1>4. CASE k /= m
  BY <1>1, <1>2, <1>3, <1>4, MintAssumption DEF Pending, UpToDate, Requesting, Handling, rows
<1>5. CASE k = m /\ label \in {"store", "fail"}
  BY <1>1, <1>2, <1>3, <1>5 DEF Pending, UpToDate, Requesting, Handling, rows
<1>6. CASE k = m /\ label = "handle"
  <2>1. instance[m] = "MINTING"
    BY <1>1, <1>2, <1>6 DEF UpToDate
  <2>2. state \in {"sold", "minted"} => mint[m] = "SUBMITTED"
    BY <1>2, <1>6, <2>1 DEF Pending
  <2>3. state = "fatal" => service[m] = "error"
    BY <1>6, MintAssumption DEF MintInv, MintLocal, MintTypeOK
  <2> QED BY <1>1, <1>2, <1>3, <1>6, <2>1, <2>2, <2>3 DEF Pending, UpToDate, Requesting, Handling, rows
<1>7. CASE k = m /\ label = "next"
  BY <1>1, <1>2, <1>3, <1>7, MintAssumption DEF Pending, UpToDate, Requesting, Handling, rows
<1> QED BY <1>4, <1>5, <1>6, <1>7 DEF Busy

LEMMA RunUpToDate ==
  ASSUME MintInv, MintFlow, NEW r \in MintRuns,
         \/ Start(r, "request") \/ Start(r, "sync") \/ Work(r) \/ CrashRun(r)
  PROVE  MintFlow'
<1> DEFINE m == mintRun[r].mint
<1>0. mintPc[r] \in Busy => m \in Mints /\ instance[m] \in {"STOCK", "MINTING", "OWNED"}
  BY DEF MintInv, MintLocal, MintTypeOK, HandInv
<1>1. CASE Start(r, "request") \/ Start(r, "sync") \/ TurnPage(r)
  <2>1. /\ UNCHANGED <<rows, service>>
        /\ \/ EndRun(r) /\ UNCHANGED overlapped
           \/ \E batch \in {"request", "sync"}, skip \in Nat : ReadPage(r, batch, skip)
    <3>1. mintRun[r].skip + BatchSize \in Nat /\ mintRun[r].batch \in {"request", "sync"}
      BY MintAssumption, SizeAssumption DEF MintInv, MintLocal, MintTypeOK, Run
    <3> QED BY <1>1, <3>1 DEF Start, TurnPage
  <2>2. CASE EndRun(r) /\ UNCHANGED overlapped
    BY <2>1, <2>2, ReleaseUpToDate
  <2>3. ASSUME NEW batch \in {"request", "sync"}, NEW skip \in Nat, ReadPage(r, batch, skip)
        PROVE  MintFlow'
    <3>1. CASE EndRun(r)
      <4>1. ~MintGoto(r, "next")
        BY <3>1 DEF EndRun, MintGoto, MintInv, MintLocal, MintTypeOK
      <4> QED BY <2>2, <2>3, <3>1, <4>1 DEF ReadPage
    <3> QED BY <2>1, <2>3, <3>1, ReadUpToDate
  <2> QED BY <2>1, <2>2, <2>3
<1>2. CASE Store(r)
  BY <1>2, WrittenUpToDate DEF Store, Busy
<1>3. CASE Fail(r)
  <2>1. m \notin overlapped => instance[m] = "STOCK"
    BY <1>0, <1>3 DEF Fail, Busy, MintFlow, UpToDate, Requesting
  <2>2. instance' = [instance EXCEPT ![m] = instance[m]]
    BY <1>3 DEF Fail, MintInv, MintLocal, MintTypeOK
  <2> QED BY <1>0, <1>3, <2>1, <2>2, WrittenUpToDate DEF Fail, Busy
<1>4. CASE Handle(r)
  <2>1. m \notin overlapped /\ mintRun[r].state = "fatal" => service[m] = "error"
    BY <1>0, <1>4 DEF Handle, Busy, MintFlow, UpToDate, Handling
  <2>2. instance = [instance EXCEPT ![m] = instance[m]]
    BY DEF MintInv, MintLocal, MintTypeOK
  <2>3. mintPc[r] \in Busy /\ Done(r) /\ UNCHANGED <<retries, service, overlapped>>
    BY <1>4 DEF Handle, Busy
  <2>4. CASE UNCHANGED <<mint, instance>>
    BY <2>3, <2>4, ReleaseUpToDate DEF rows
  <2>5. CASE mintRun[r].state = "minted" /\ instance' = [instance EXCEPT ![m] = "OWNED"]
             /\ mint' = [mint EXCEPT ![m] = "MINTED"]
    BY <2>3, <2>5, WrittenUpToDate
  <2>6. CASE mint' = [mint EXCEPT ![m] = "SUBMITTED"] /\ UNCHANGED instance
    BY <1>0, <2>2, <2>3, <2>6, WrittenUpToDate
  <2>7. CASE mintRun[r].state = "fatal" /\ mint' = [mint EXCEPT ![m] = "FAILED"] /\ UNCHANGED instance
    BY <1>0, <2>1, <2>2, <2>3, <2>7, WrittenUpToDate
  <2> QED BY <1>4, <2>4, <2>5, <2>6, <2>7 DEF Handle
<1>5. CASE ExpireRequest(r)
  <2>1. /\ mintPc' = [mintPc EXCEPT ![r] = "fail"] /\ mintPc[r] = "store"
        /\ UNCHANGED <<rows, service, mintRun, overlapped>>
    BY <1>5 DEF ExpireRequest, MintGoto
  <2>2. \A s \in MintRuns, k \in Mints : (Requesting(s, k)' => Requesting(s, k)) /\ (Handling(s, k)' => Handling(s, k))
    BY <2>1 DEF Requesting, Handling, MintInv, MintLocal, MintTypeOK
  <2> QED BY <2>1, <2>2 DEF MintFlow, Pending, UpToDate, rows
<1>6. ASSUME NEW k \in Mints, Accept(r, k) PROVE MintFlow'
  <2>1. \A j \in Mints : service[j] = "error" => service'[j] = "error"
    BY <1>6 DEF Accept, MintInv, MintLocal, MintTypeOK
  <2> QED BY <1>6, <2>1, TakeUpToDate DEF Accept, Busy
<1>7. ASSUME NEW k \in Mints, Decline(r, k) PROVE MintFlow'
  BY <1>7, TakeUpToDate DEF Decline, Busy
<1>8. ASSUME NEW k \in Mints, Ask(r, k) PROVE MintFlow'
  <2> DEFINE state == IF service[k] = "error" /\ k \in mintRun[r].final THEN "fatal" ELSE service[k]
  <2>1. state \in {"none", "sold", "minted", "error", "fatal"}
        /\ (state = service[k] \/ (state = "fatal" /\ service[k] = "error"))
    BY DEF MintInv, MintLocal, MintTypeOK
  <2>2. Take(r, k, "handle", state) \/ Take(r, k, "next", "none")
    BY <1>8 DEF Ask
  <2>3. mintRun[r].batch = "sync" /\ UNCHANGED <<rows, service, overlapped>>
    BY <1>8 DEF Ask
  <2> HIDE DEF state
  <2> QED BY <2>1, <2>2, <2>3, TakeUpToDate DEF Busy
<1>9. CASE CrashRun(r)
  BY <1>9, ReleaseUpToDate DEF CrashRun
<1> QED BY <1>1, <1>2, <1>3, <1>4, <1>5, <1>6, <1>7, <1>8, <1>9 DEF Work

LEMMA FlowStep == MintInv /\ MintFlow /\ [MintNext]_mintVars => MintFlow'
<1> SUFFICES ASSUME MintInv, MintFlow, [MintNext]_mintVars PROVE MintFlow'
  OBVIOUS
<1>1. ASSUME NEW r \in MintRuns, Start(r, "request") \/ Start(r, "sync") \/ Work(r) \/ CrashRun(r)
      PROVE  MintFlow'
  BY <1>1, RunUpToDate
<1>2. ASSUME NEW m \in Mints, Queue(m) PROVE MintFlow'
  <2>1. /\ mint' = [mint EXCEPT ![m] = "QUEUED"] /\ mint[m] = "none"
        /\ mint'[m] = "QUEUED" /\ \A k \in Mints \ {m} : mint'[k] = mint[k]
        /\ UNCHANGED <<instance, service, mintPc, mintRun, overlapped>>
    BY <1>2 DEF Queue, MintInv, MintLocal, MintTypeOK
  <2>2. \A r \in MintRuns, k \in Mints : Requesting(r, k)' = Requesting(r, k) /\ Handling(r, k)' = Handling(r, k)
    BY <2>1 DEF Requesting, Handling
  <2> QED BY <2>1, <2>2 DEF MintFlow, Pending, UpToDate
<1>3. ASSUME NEW m \in Mints, Mint(m) PROVE MintFlow'
  <2>1. /\ \A k \in Mints : service[k] = "error" => service'[k] = "error"
        /\ UNCHANGED <<mint, instance, mintPc, mintRun, overlapped>>
    BY <1>3 DEF Mint, rows, MintInv, MintLocal, MintTypeOK
  <2> QED BY <2>1 DEF MintFlow, Pending, UpToDate, Requesting, Handling
<1>4. CASE UNCHANGED mintVars
  BY <1>4 DEF mintVars, MintFlow, Pending, UpToDate, Requesting, Handling
<1> QED BY <1>1, <1>2, <1>3, <1>4 DEF MintNext

LEMMA FlowAlways == MintSpec => []MintFlow
<1>1. MintInit => MintFlow
  BY MintAssumption DEF MintInit, NoRun, MintFlow, Pending, UpToDate, Requesting, Handling
<1> QED BY <1>1, FlowStep, MintAlways, PTL DEF MintSpec

\* Who writes a mint, and from which status.
LEMMA MovesStep ==
  MintInv /\ MintFlow /\ [MintNext]_mintVars =>
    \A m \in Mints \ overlapped : mint'[m] /= mint[m] => <<mint[m], mint'[m]>> \in MovesOn
<1> SUFFICES ASSUME MintInv, MintFlow, MintNext, NEW m \in Mints \ overlapped, mint'[m] /= mint[m]
             PROVE  <<mint[m], mint'[m]>> \in MovesOn
  BY DEF mintVars
<1>1. mint \in [Mints -> {"none", "QUEUED", "SUBMITTED", "MINTED", "FAILED"}]
  BY DEF MintInv, MintLocal, MintTypeOK
<1>2. Pending(m) /\ \A r \in MintRuns : UpToDate(r, m)
  BY DEF MintFlow
<1>3. CASE \E k \in Mints : Queue(k)
  BY <1>1, <1>3 DEF Queue, MovesOn
<1>4. ASSUME NEW r \in MintRuns, Store(r) \/ Fail(r) PROVE <<mint[m], mint'[m]>> \in MovesOn
  <2>1. mintRun[r].mint = m
    BY <1>1, <1>4 DEF Store, Fail
  <2>2. mint[m] = "QUEUED"
    BY <1>2, <1>4, <2>1 DEF Store, Fail, UpToDate, Requesting
  <2> QED BY <1>1, <1>4, <2>1, <2>2 DEF Store, Fail, MovesOn
<1>5. ASSUME NEW r \in MintRuns, Handle(r) PROVE <<mint[m], mint'[m]>> \in MovesOn
  <2>1. mintRun[r].mint = m
    BY <1>1, <1>5 DEF Handle
  <2>2. /\ mint[m] \in {"SUBMITTED", "FAILED"}
        /\ mintRun[r].state \in {"sold", "minted"} => mint[m] = "SUBMITTED"
    BY <1>2, <1>5, <2>1 DEF Handle, UpToDate, Handling, Pending
  <2> QED BY <1>1, <1>5, <2>1, <2>2 DEF Handle, MovesOn
<1>6. (\E k \in Mints : Queue(k)) \/ (\E r \in MintRuns : Store(r) \/ Fail(r) \/ Handle(r))
  <2>1. ~UNCHANGED mint
    OBVIOUS
  <2> QED BY <2>1 DEF MintNext, Work, Mint, Start, TurnPage, ExpireRequest, Accept, Decline, Ask, CrashRun, rows
<1> QED BY <1>3, <1>4, <1>5, <1>6

\* The status of a mint only moves on, for any number of runs, pages and crashes,
\* unless two runs had read it: no run writes from an answer that is out of date.
THEOREM MintMovesOnAlways == MintSpec => MintMovesOn
  BY MintAlways, FlowAlways, MovesStep, PTL DEF MintSpec, MintMovesOn
=============================================================================
