------------------------------ MODULE AnchorBatch ------------------------------
(***************************************************************************)
(* The weekly anchoring of DID operations on Cardano.  Users enqueue the   *)
(* CREATE, UPDATE and DEACTIVATE operations of their did:web as rows of    *)
(* t_user_did_anchors; a batch run, started by Cloud Scheduler or an       *)
(* administrator for some week, claims the rows that wait, puts them into  *)
(* one transaction, submits it and follows it to the chain.                *)
(*                                                                         *)
(* Each step of a run is a database transaction or a call to Blockfrost    *)
(* of its own, and any number of runs may be under way.  A run keeps the   *)
(* ids it has read; the updates that follow the claim are by these ids.    *)
(*                                                                         *)
(* Abstracted: documents, Merkle roots, fees and signatures; the rows of   *)
(* t_transaction_anchors and t_vc_anchors, which a run treats like the DID *)
(* rows and which nothing in the repository creates.  The issuer's address *)
(* holds one unspent output at a time.                                     *)
(***************************************************************************)
EXTENDS Integers, FiniteSets

CONSTANTS
  Users,       \* users who have a DID
  Requests,    \* slots for DID operations in flight at the same time
  Runs,        \* slots for batch runs under way at the same time
  Weeks,       \* weekly keys runs are started for
  NoWeek,      \* the batchId of a row that no run has claimed: NULL
  MaxAnchors,  \* bound: rows ever inserted
  MaxTxs       \* bound: transactions the chain ever accepts

ASSUME UserAssumption == Users /= {}
ASSUME WeekAssumption == NoWeek \notin Weeks
ASSUME BoundAssumption == MaxAnchors \in Nat /\ MaxTxs \in Nat

VARIABLES
  anchors,   \* rows of t_user_did_anchors
  chain,     \* transactions the node has accepted
  unspent,   \* the transaction whose change is the issuer's unspent output
  call,      \* call[r]: the DID operation request r is about to write
  pc,        \* pc[b]: next step of run b
  run,       \* run[b]: what run b keeps in memory
  strayed,   \* history: rows that a run submits without having claimed them
  orphaned   \* history: rows whose run died

vars == <<anchors, chain, unspent, call, pc, run, strayed, orphaned>>
ledger == <<chain, unspent>>

-----------------------------------------------------------------------------
(* Rows, transactions *)

Anchors == 1..MaxAnchors
Txs == 1..MaxTxs

Operation == {"CREATE", "UPDATE", "DEACTIVATE"}
Status == {"PENDING", "SUBMITTED", "CONFIRMED", "FAILED"}

\* prev and tx are 0 where the column is NULL.
Row == [op: Operation \cup {"NONE"}, user: Users, prev: Anchors \cup {0},
        status: Status, batch: Weeks \cup {NoWeek}, tx: Txs \cup {0}]

Written == {a \in Anchors : anchors[a].op /= "NONE"}
RowsOf(u) == {a \in Written : anchors[a].user = u}

\* findLatestByUserId: the newest row of the user, or 0
Latest(u) ==
  IF RowsOf(u) = {} THEN 0 ELSE CHOOSE a \in RowsOf(u) : \A o \in RowsOf(u) : o <= a

\* An operation in the metadata of a transaction: the row it stands for and the
\* transaction that its prev names, 0 if none.
DidOp == [anchor: Anchors, prev: Txs \cup {0}]
Tx == [state: {"none", "mempool", "onchain", "dropped"}, ops: SUBSET DidOp]
NoTx == [state |-> "none", ops |-> {}]
Carried(t) == {o.anchor : o \in chain[t].ops}
Accepted == {t \in Txs : chain[t].state /= "none"}

Call == [op: Operation \cup {"NONE"}, user: Users, prev: Anchors \cup {0}]
Memory == [week: Weeks \cup {NoWeek}, ids: SUBSET Anchors, ops: SUBSET DidOp,
           input: Txs \cup {0}, tx: Txs \cup {0}]
NoMemory == [week |-> NoWeek, ids |-> {}, ops |-> {}, input |-> 0, tx |-> 0]

NoRow(u) == [op |-> "NONE", user |-> u, prev |-> 0, status |-> "PENDING",
             batch |-> NoWeek, tx |-> 0]
AnyUser == CHOOSE u \in Users : TRUE
NoCall == [op |-> "NONE", user |-> AnyUser, prev |-> 0]

Init ==
  /\ anchors = [a \in Anchors |-> NoRow(AnyUser)]
  /\ chain = [t \in Txs |-> NoTx]
  /\ unspent = 0
  /\ call = [r \in Requests |-> NoCall]
  /\ pc = [b \in Runs |-> "idle"]
  /\ run = [b \in Runs |-> NoMemory]
  /\ strayed = {} /\ orphaned = {}

-----------------------------------------------------------------------------
(* DID operations *)

\* createDidForUser, updateDid and deactivateDid read the user's rows first.  A
\* CREATE that is found is returned as it is.
MayRequest(u, op) ==
  CASE op = "CREATE" -> \A a \in RowsOf(u) : anchors[a].op /= "CREATE"
    [] op = "UPDATE" -> RowsOf(u) /= {} /\ anchors[Latest(u)].op /= "DEACTIVATE"
    [] OTHER -> RowsOf(u) /= {}

ReadDid(r, u, op) ==
  /\ call[r] = NoCall /\ MayRequest(u, op)
  /\ call' = [call EXCEPT ![r] = [op |-> op, user |-> u,
                                  prev |-> IF op = "CREATE" THEN 0 ELSE Latest(u)]]
  /\ UNCHANGED <<anchors, ledger, pc, run, strayed, orphaned>>

\* createCreate, createUpdate, createDeactivate and the commit
WriteDid(r, a) ==
  /\ call[r].op /= "NONE" /\ Written = 1..(a - 1)
  /\ anchors' = [anchors EXCEPT ![a] =
       [NoRow(call[r].user) EXCEPT !.op = call[r].op, !.prev = call[r].prev]]
  /\ call' = [call EXCEPT ![r] = NoCall]
  /\ UNCHANGED <<ledger, pc, run, strayed, orphaned>>

-----------------------------------------------------------------------------
(* A batch run, up to the claim *)

Goto(b, label) == pc' = [pc EXCEPT ![b] = label]
Finish(b) == Goto(b, "idle") /\ run' = [run EXCEPT ![b] = NoMemory]

Batch(w) == {a \in Written : anchors[a].batch = w}

\* runWeeklyBatch ends early if a row of the week is SUBMITTED or CONFIRMED.
StartRun(b, w) ==
  /\ pc[b] = "idle"
  /\ \A a \in Batch(w) : anchors[a].status \notin {"SUBMITTED", "CONFIRMED"}
  /\ run' = [run EXCEPT ![b].week = w]
  /\ Goto(b, "find")
  /\ UNCHANGED <<anchors, ledger, call, strayed, orphaned>>

Waiting == {a \in Written : anchors[a].status = "PENDING" /\ anchors[a].batch = NoWeek}

\* findPendingAnchors
FindPending(b) ==
  /\ pc[b] = "find"
  /\ IF Waiting = {} THEN Finish(b)
     ELSE Goto(b, "claim") /\ run' = [run EXCEPT ![b].ids = Waiting]
  /\ UNCHANGED <<anchors, ledger, call, strayed, orphaned>>

\* Faulty: the claim looks at the status but not at the batch.
ClaimablePending(b) == {a \in run[b].ids : anchors[a].status = "PENDING"}

\* The rows that the update of claimPendingAnchors matches.
Claimable(b) == run[b].ids \cap Waiting

\* The run goes on with all the ids it has read if at least one row is claimed.
Claim(b) ==
  /\ pc[b] = "claim"
  /\ IF Claimable(b) = {} THEN Finish(b) /\ UNCHANGED <<anchors, strayed>>
     ELSE /\ anchors' = [a \in Anchors |->
                IF a \in Claimable(b) THEN [anchors[a] EXCEPT !.batch = run[b].week]
                ELSE anchors[a]]
          /\ strayed' = strayed \cup (run[b].ids \ Claimable(b))
          /\ Goto(b, "build") /\ UNCHANGED run
  /\ UNCHANGED <<ledger, call, orphaned>>

-----------------------------------------------------------------------------
(* Building, submitting, confirming *)

\* Faulty: names the transaction of the row itself.
PrevHashOwn(a) == anchors[a].tx

\* The transaction of the previous row, if it has been submitted.
PrevHash(a) == IF anchors[a].prev = 0 THEN 0 ELSE anchors[anchors[a].prev].tx

\* buildDidOps
BuildOps(b) ==
  /\ pc[b] = "build"
  /\ run' = [run EXCEPT ![b].ops = {[anchor |-> a, prev |-> PrevHash(a)] : a \in run[b].ids}]
  /\ Goto(b, "utxos")
  /\ UNCHANGED <<anchors, ledger, call, strayed, orphaned>>

\* getUtxos: what the chain, not the mempool, says is unspent
GetUtxos(b) ==
  /\ pc[b] = "utxos"
  /\ run' = [run EXCEPT ![b].input = unspent]
  /\ Goto(b, "submit")
  /\ UNCHANGED <<anchors, ledger, call, strayed, orphaned>>

\* The node accepts a transaction whose input no other one spends.
Spendable(input) == input = unspent /\ \A t \in Txs : chain[t].state /= "mempool"

\* submitTx.  The answer may get lost: the retry is then refused.
Submit(b, t) ==
  /\ pc[b] = "submit" /\ Spendable(run[b].input) /\ Accepted = 1..(t - 1)
  /\ chain' = [chain EXCEPT ![t] = [state |-> "mempool", ops |-> run[b].ops]]
  /\ \/ Goto(b, "mark") /\ run' = [run EXCEPT ![b].tx = t]
     \/ Goto(b, "failed") /\ UNCHANGED run
  /\ UNCHANGED <<anchors, unspent, call, strayed, orphaned>>

\* An update by id, whatever batch or status the rows have become
Mark(b, s, t) ==
  anchors' = [a \in Anchors |->
    IF a \in run[b].ids THEN [anchors[a] EXCEPT !.status = s, !.tx = IF t = 0 THEN @ ELSE t]
    ELSE anchors[a]]

MarkSubmitted(b) ==
  /\ pc[b] = "mark"
  /\ Mark(b, "SUBMITTED", run[b].tx)
  /\ Goto(b, "await")
  /\ UNCHANGED <<ledger, call, run, strayed, orphaned>>

\* awaitConfirmation: the transaction is in a block.
Confirmed(t) == t /= 0 /\ chain[t].state = "onchain"

MarkConfirmed(b) ==
  /\ pc[b] = "await" /\ Confirmed(run[b].tx)
  /\ Mark(b, "CONFIRMED", 0)
  /\ Finish(b)
  /\ UNCHANGED <<ledger, call, strayed, orphaned>>

\* Anything between the claim and the end throws: no UTXO, too large a transaction,
\* a refused one, an error of the database or of Blockfrost, five minutes without a
\* confirmation.
Throw(b) ==
  /\ pc[b] \in {"build", "utxos", "submit", "mark", "await"}
  /\ Goto(b, "failed")
  /\ UNCHANGED <<anchors, ledger, call, run, strayed, orphaned>>

\* Faulty: the failure is logged but not recorded.
LogFailure(b) ==
  /\ pc[b] = "failed"
  /\ Finish(b)
  /\ UNCHANGED <<anchors, ledger, call, strayed, orphaned>>

MarkFailed(b) ==
  /\ pc[b] = "failed"
  /\ Mark(b, "FAILED", 0)
  /\ Finish(b)
  /\ UNCHANGED <<ledger, call, strayed, orphaned>>

\* The process dies, or Cloud Run ends the request.
Crash(b) ==
  /\ pc[b] /= "idle"
  /\ orphaned' = IF pc[b] \in {"find", "claim"} THEN orphaned ELSE orphaned \cup run[b].ids
  /\ Finish(b)
  /\ UNCHANGED <<anchors, ledger, call, strayed>>

-----------------------------------------------------------------------------
(* The chain *)

\* A transaction gets into a block: its change is the new unspent output.
Settle(t) ==
  /\ chain[t].state = "mempool"
  /\ chain' = [chain EXCEPT ![t].state = "onchain"]
  /\ unspent' = t
  /\ UNCHANGED <<anchors, call, pc, run, strayed, orphaned>>

\* ... or its time to live ends.
Expire(t) ==
  /\ chain[t].state = "mempool"
  /\ chain' = [chain EXCEPT ![t].state = "dropped"]
  /\ UNCHANGED <<anchors, unspent, call, pc, run, strayed, orphaned>>

-----------------------------------------------------------------------------
(* Specification *)

Next ==
  \/ \E r \in Requests :
       \/ \E u \in Users, op \in Operation : ReadDid(r, u, op)
       \/ \E a \in Anchors : WriteDid(r, a)
  \/ \E b \in Runs :
       \/ \E w \in Weeks : StartRun(b, w)
       \/ FindPending(b) \/ Claim(b) \/ BuildOps(b) \/ GetUtxos(b)
       \/ \E t \in Txs : Submit(b, t)
       \/ MarkSubmitted(b) \/ MarkConfirmed(b) \/ Throw(b) \/ MarkFailed(b) \/ Crash(b)
  \/ \E t \in Txs : Settle(t) \/ Expire(t)

Spec == Init /\ [][Next]_vars

\* What a run does of its own accord: it neither waits for ever nor stops half-way.
Proceed(b) ==
  \/ FindPending(b) \/ Claim(b) \/ BuildOps(b) \/ GetUtxos(b)
  \/ \E t \in Txs : Submit(b, t)
  \/ MarkSubmitted(b) \/ MarkConfirmed(b) \/ Throw(b) \/ MarkFailed(b)

\* The scheduler starts runs again and again, and a run proceeds until it ends.
FairSpec ==
  /\ Spec
  /\ \A b \in Runs : WF_vars(Proceed(b)) /\ WF_vars(\E w \in Weeks : StartRun(b, w))

-----------------------------------------------------------------------------
(* Properties *)

Label == {"idle", "find", "claim", "build", "utxos", "submit", "mark", "await", "failed"}

\* Every variable holds a value of its kind.
TypeOK ==
  /\ anchors \in [Anchors -> Row]
  /\ chain \in [Txs -> Tx]
  /\ unspent \in Txs \cup {0}
  /\ call \in [Requests -> Call]
  /\ pc \in [Runs -> Label]
  /\ run \in [Runs -> Memory]
  /\ strayed \in SUBSET Anchors /\ orphaned \in SUBSET Anchors

\* A row is submitted in one transaction at most, whatever runs overlap and wherever
\* they die, unless a run read the row and went on without having claimed it.
AnchoredOnce ==
  \A a \in Anchors \ strayed, t1, t2 \in Txs :
    a \in Carried(t1) /\ a \in Carried(t2) => t1 = t2

\* A CONFIRMED row names the transaction that carries it, and that transaction is on
\* the chain, so that a verifier finds it there (with the same exception).
ConfirmedIsOnChain ==
  \A a \in Anchors \ strayed :
    anchors[a].status = "CONFIRMED" =>
      Confirmed(anchors[a].tx) /\ a \in Carried(anchors[a].tx)

\* Both: a verifier who follows a CONFIRMED row finds the operation on the chain,
\* and no other transaction carries it.
ChainFollowsRows == AnchoredOnce /\ ConfirmedIsOnChain

\* Where an operation names a previous transaction, that one carries the operation
\* the user's row was linked to.
PrevNamesPrevious ==
  \A t \in Txs : \A o \in chain[t].ops :
    o.prev /= 0 => anchors[o.anchor].prev \in Carried(o.prev)

Claimed(a) == anchors[a].op /= "NONE" /\ anchors[a].batch /= NoWeek

\* A claimed row is submitted or fails, unless the run that holds it dies.
ClaimsAreResolved ==
  \A a \in Anchors :
    Claimed(a) /\ anchors[a].status = "PENDING"
      ~> (anchors[a].status /= "PENDING" \/ a \in orphaned)
=============================================================================
