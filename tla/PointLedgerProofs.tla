-------------------------- MODULE PointLedgerProofs --------------------------
(***************************************************************************)
(* Theorems about PointLedger, for every set of users, requests and amounts*)
(* and for every bound.                                                    *)
(***************************************************************************)
EXTENDS PointLedger, FiniteSums

\* Which call can be at which step.
OpAtStep ==
  \A r \in Requests :
    /\ pc[r] \in {"join", "wallet"} => job[r].op = "grant"
    /\ pc[r] = "to" => job[r].op = "donate"
    /\ pc[r] \in {"insert", "commit"} => job[r].op \in DOMAIN ReasonOf
    /\ job[r].op = "grant" => job[r].other \in Users
    /\ dest[r].new => /\ job[r].op = "grant" /\ pc[r] \in {"insert", "commit"}
                      /\ dest[r].wallet \in Users \X (Nat \ {0})
    /\ dest[r].joins => job[r].op = "grant" /\ pc[r] \in {"wallet", "insert", "commit"}

TypeInv == TypeOK /\ OpAtStep

LEMMA FinishType ==
  ASSUME TypeInv, NEW r \in Requests, Finish(r)
  PROVE  /\ pc' \in [Requests -> Label] /\ job' \in [Requests -> Job]
         /\ seen' \in [Requests -> Sight] /\ dest' \in [Requests -> Dest]
         /\ retried' \in [Requests -> BOOLEAN] /\ pend' \in [Requests -> Tx]
         /\ OpAtStep'
<1>1. NoJob \in Job /\ NoSight \in Sight /\ NoDest \in Dest /\ NoTx \in Tx
  BY DEF NoJob, Job, Op, NoSight, Sight, NoDest, Dest, NoTx, Tx, End, Reason
<1>2. pc' = [pc EXCEPT ![r] = "idle"] /\ job' = [job EXCEPT ![r] = NoJob]
  BY DEF Finish, Goto
<1>3. dest' = [dest EXCEPT ![r] = NoDest]
  BY DEF Finish
<1>4. OpAtStep'
  BY <1>2, <1>3 DEF TypeInv, TypeOK, OpAtStep, NoJob, NoDest
<1> QED
  BY <1>1, <1>4 DEF Finish, Goto, TypeInv, TypeOK, Label

LEMMA IdsType == TypeInv => \A S \in SUBSET ledger : Ids(S) \subseteq Nat
  BY DEF TypeInv, TypeOK, Ids, Tx

LEMMA LookType == ASSUME TypeInv, NEW w \in End PROVE Look(w) \in Sight
<1>1. Incoming(view, w) \cup Outgoing(view, w) \in SUBSET ledger
  BY DEF Incoming, Outgoing
<1>2. RowOf(w) \in SUBSET Nat
  BY <1>1, IdsType DEF RowOf
<1> QED
  BY <1>2 DEF Look, Sight

LEMMA WalletEnds == Wallet \subseteq End /\ CommunityWallet \in Wallet /\ NoWallet \in End
  BY DEF Wallet, End

\* A row built from well-typed parts is well typed.
LEMMA NewTxType ==
  ASSUME TypeInv, NEW r \in Requests, pc[r] = "insert",
         NEW parent \in LatestReceived(seen[r].wallet)
  PROVE  NewTx(r, parent) \in Tx
<1>1. parent \in Tx
  <2>1. NoTx \in Tx
    BY DEF NoTx, Tx, End, Reason
  <2> QED
    BY <2>1 DEF LatestReceived, ReceivedTx, TypeInv, TypeOK
<1>2. job[r].op \in {"issue", "grant", "donate", "contribute"} /\ job[r].points \in Int
  BY DEF TypeInv, TypeOK, OpAtStep, ReasonOf, Job
<1>3. ReasonOf[job[r].op] \in Reason
  BY <1>2 DEF ReasonOf, Reason
<1>4. parent.id \in Nat /\ parent.depth \in Nat
  BY <1>1 DEF Tx
<1>5. Link(job[r].op, parent).parent \in Nat /\ Link(job[r].op, parent).depth \in Nat
  BY <1>2, <1>4 DEF Link, Linked
<1>6. /\ seen[r].wallet \in End /\ dest[r].wallet \in End
      /\ clock + 1 \in Nat
  BY DEF TypeInv, TypeOK, Sight, Dest
<1>7. Ids(Outgoing(seen[r].basis, seen[r].wallet)) \in SUBSET Nat
  BY IdsType DEF Outgoing
<1> QED
  BY <1>2, <1>3, <1>5, <1>6, <1>7 DEF NewTx, Tx

\* What the steps that change it leave in dest.
LEMMA DestOfJoin ==
  ASSUME TypeInv, NEW r \in Requests, JoinIfNeeded(r)
  PROVE  /\ dest' \in [Requests -> Dest]
         /\ dest'[r].wallet = dest[r].wallet /\ ~dest'[r].new /\ ~dest[r].new
         /\ \A q \in Requests \ {r} : dest'[q] = dest[q]
<1>1. ~dest[r].new
  BY DEF JoinIfNeeded, TypeInv, OpAtStep
<1>2. dest' = dest \/ dest' = [dest EXCEPT ![r].joins = TRUE]
  BY DEF JoinIfNeeded
<1>3. [dest[r] EXCEPT !.joins = TRUE] \in Dest
  BY DEF TypeInv, TypeOK, Dest
<1>4. CASE dest' = [dest EXCEPT ![r].joins = TRUE]
  <2>1. dest' = [dest EXCEPT ![r] = [dest[r] EXCEPT !.joins = TRUE]]
    BY <1>4
  <2> QED BY <1>1, <1>3, <2>1 DEF TypeInv, TypeOK, Dest
<1>5. CASE dest' = dest
  BY <1>1, <1>5 DEF TypeInv, TypeOK
<1> QED BY <1>2, <1>4, <1>5

LEMMA DestOfCommit ==
  ASSUME TypeInv, NEW r \in Requests, Commit(r)
  PROVE  /\ dest' \in [Requests -> Dest]
         /\ dest'[r].wallet = dest[r].wallet /\ ~dest'[r].new /\ ~dest'[r].joins
         /\ \A q \in Requests \ {r} : dest'[q] = dest[q]
<1> DEFINE d == [dest[r] EXCEPT !.new = FALSE, !.joins = FALSE]
<1>1. d \in Dest /\ d.wallet = dest[r].wallet /\ ~d.new /\ ~d.joins
  BY DEF TypeInv, TypeOK, Dest
<1>2. dest' = [dest EXCEPT ![r] = d]
  BY DEF Commit
<1> QED BY <1>1, <1>2 DEF TypeInv, TypeOK

\* A grant takes a wallet it finds, or makes one with the next id.
Finds(r, w) == UNCHANGED minted /\ dest'[r].wallet = w /\ ~dest'[r].new
Makes(r, u) ==
  /\ WalletsOf(u) = {} /\ minted[u] < MaxGen /\ minted' = [minted EXCEPT ![u] = @ + 1]
  /\ dest'[r].wallet = <<u, minted[u] + 1>> /\ dest'[r].new

LEMMA DestOfGrant ==
  ASSUME TypeInv, NEW r \in Requests, GrantWallet(r)
  PROVE  /\ dest' \in [Requests -> Dest]
         /\ dest'[r].joins = dest[r].joins /\ ~dest[r].new
         /\ \A q \in Requests \ {r} : dest'[q] = dest[q]
         /\ job[r].op = "grant" /\ job[r].other \in Users /\ minted[job[r].other] \in Nat
         /\ (\E w \in WalletsOf(job[r].other) : Finds(r, w)) \/ Makes(r, job[r].other)
<1> DEFINE u == job[r].other
<1>1. job[r].op = "grant" /\ u \in Users /\ minted[u] \in Nat /\ ~dest[r].new
  BY DEF GrantWallet, TypeInv, TypeOK, OpAtStep
<1>2. ASSUME NEW w \in WalletsOf(u), dest' = [dest EXCEPT ![r].wallet = w], UNCHANGED minted
      PROVE  /\ dest' \in [Requests -> Dest]
             /\ dest'[r].joins = dest[r].joins
             /\ \A q \in Requests \ {r} : dest'[q] = dest[q]
             /\ Finds(r, w)
  <2>1. w \in End
    BY WalletEnds DEF WalletsOf, TypeInv, TypeOK
  <2> QED BY <1>1, <1>2, <2>1 DEF TypeInv, TypeOK, Dest, Finds
<1>3. ASSUME WalletsOf(u) = {}, minted[u] < MaxGen, minted' = [minted EXCEPT ![u] = @ + 1],
             dest' = [dest EXCEPT ![r] = [@ EXCEPT !.wallet = <<u, minted'[u]>>, !.new = TRUE]]
      PROVE  /\ dest' \in [Requests -> Dest]
             /\ dest'[r].joins = dest[r].joins
             /\ \A q \in Requests \ {r} : dest'[q] = dest[q]
             /\ Makes(r, u)
  <2> DEFINE new == <<u, minted[u] + 1>>
             d == [dest[r] EXCEPT !.wallet = new, !.new = TRUE]
  <2>1. minted'[u] = minted[u] + 1
    BY <1>1, <1>3 DEF TypeInv, TypeOK
  <2>2. new \in End
    BY <1>1 DEF End, Wallet
  <2> HIDE DEF new
  <2>3. d \in Dest /\ d.wallet = new /\ d.new /\ d.joins = dest[r].joins
    BY <2>2 DEF TypeInv, TypeOK, Dest
  <2>4. dest' = [dest EXCEPT ![r] = d]
    BY <1>3, <2>1 DEF new
  <2> HIDE DEF d
  <2>5. dest'[r] = d /\ dest' \in [Requests -> Dest]
        /\ \A q \in Requests \ {r} : dest'[q] = dest[q]
    BY <2>3, <2>4 DEF TypeInv, TypeOK
  <2> QED BY <1>3, <2>3, <2>5 DEF Makes, new
<1> QED BY <1>1, <1>2, <1>3 DEF GrantWallet

LEMMA TypeStep == TypeInv /\ [Next]_vars => TypeInv'
<1> SUFFICES ASSUME TypeInv, [Next]_vars PROVE TypeInv'
  OBVIOUS
<1> USE DEF TypeInv
<1>1. CASE UNCHANGED vars
  BY <1>1 DEF vars, TypeOK, OpAtStep
<1>2. ASSUME NEW r \in Requests, NewCall(r) PROVE TypeInv'
  <2>1. ASSUME NEW op \in Op \ {"none"}, NEW u \in Users \cup {Community},
               NEW v \in Users \cup {Community}, NEW n \in Int, NEW label \in Label,
               Call(r, Request(op, u, v, n), label),
               dest' = dest \/ dest' = [dest EXCEPT ![r].wallet = CommunityWallet],
               op = "grant" => v \in Users,
               label \in {"join", "from", "insert"},
               label = "join" => op = "grant",
               label = "insert" => op = "issue"
        PROVE TypeInv'
    <3>1. Request(op, u, v, n) \in Job /\ Request(op, u, v, n).op = op
      BY <2>1 DEF Request, Job
    <3>2. dest' \in [Requests -> Dest]
      BY <2>1, WalletEnds DEF TypeOK, Dest
    <3>5. OpAtStep'
      <4>1. /\ ~dest'[r].new /\ ~dest'[r].joins
            /\ \A q \in Requests \ {r} : dest'[q] = dest[q]
        <5>1. ~dest[r].new /\ ~dest[r].joins
          BY <2>1 DEF Call, OpAtStep
        <5>2. dest \in [Requests -> Dest]
          BY DEF TypeOK
        <5>3. [dest[r] EXCEPT !.wallet = CommunityWallet].new = dest[r].new
              /\ [dest[r] EXCEPT !.wallet = CommunityWallet].joins = dest[r].joins
          BY <5>2 DEF Dest
        <5> QED BY <2>1, <5>1, <5>2, <5>3
      <4>2. pc'[r] = label /\ \A q \in Requests \ {r} : pc'[q] = pc[q] /\ job'[q] = job[q]
        BY <2>1 DEF Call, Goto, TypeOK
      <4>3. /\ job'[r].op = op /\ job'[r].other = v
            /\ op \in {"grant", "issue", "donate", "contribute", "withdraw"}
        BY <2>1, <3>1 DEF Call, Request, TypeOK, Op
      <4> QED BY <2>1, <4>1, <4>2, <4>3 DEF OpAtStep, ReasonOf
    <3>6. TypeOK'
      BY <2>1, <3>1, <3>2 DEF Call, Goto, TypeOK, database
    <3> QED BY <3>5, <3>6
  <2>3. \A n \in Amounts : n \in Int
    BY AmountAssumption
  <2>4. ASSUME NEW n \in Amounts, CallIssue(r, n) PROVE TypeInv'
    BY <2>1, <2>3, <2>4 DEF CallIssue, Op, Label
  <2>5. ASSUME NEW v \in Users, NEW n \in Amounts, CallGrant(r, v, n) PROVE TypeInv'
    BY <2>1, <2>3, <2>5 DEF CallGrant, Op, Label
  <2>6. ASSUME NEW u \in Users, NEW v \in Users, NEW n \in Amounts, CallDonate(r, u, v, n)
        PROVE TypeInv'
    BY <2>1, <2>3, <2>6 DEF CallDonate, Op, Label
  <2>7. ASSUME NEW u \in Users, NEW n \in Amounts, CallContribute(r, u, n) PROVE TypeInv'
    BY <2>1, <2>3, <2>7 DEF CallContribute, Op, Label
  <2>8. ASSUME NEW u \in Users, CallWithdraw(r, u) PROVE TypeInv'
    BY <2>1, <2>8 DEF CallWithdraw, Op, Label
  <2> QED
    BY <1>2, <2>4, <2>5, <2>6, <2>7, <2>8 DEF NewCall
<1>3. ASSUME NEW r \in Requests, Finish(r), UNCHANGED <<database, view>> PROVE TypeInv'
  BY <1>3, FinishType DEF TypeOK, database
<1>4. ASSUME NEW r \in Requests, NEW w \in wallets,
             \/ DonateFrom(r, w) \/ DonateTo(r, w) \/ ContributeFrom(r, w)
             \/ WithdrawFrom(r, w)
      PROVE TypeInv'
  <2>1. w \in End /\ Look(w) \in Sight
    BY LookType, WalletEnds DEF TypeOK
  <2>2. CASE DonateFrom(r, w)
    BY <2>1, <2>2 DEF DonateFrom, LookupReturns, Goto, TypeOK, OpAtStep, Label, database
  <2>3. CASE DonateTo(r, w)
    BY <2>1, <2>3 DEF DonateTo, LookupReturns, Goto, TypeOK, OpAtStep, Label, database, Dest, ReasonOf
  <2>4. CASE ContributeFrom(r, w)
    BY <2>1, <2>4 DEF ContributeFrom, LookupReturns, Goto, TypeOK, OpAtStep, Label, database, ReasonOf
  <2>5. CASE WithdrawFrom(r, w)
    BY <2>1, <2>5 DEF WithdrawFrom, LookupReturns, Goto, TypeOK, OpAtStep, Label, database
  <2> QED BY <1>4, <2>2, <2>3, <2>4, <2>5
<1>5. ASSUME NEW r \in Requests, LookupRefreshes(r) PROVE TypeInv'
  BY <1>5, IdsType DEF LookupRefreshes, TypeOK, OpAtStep, database
<1>6. ASSUME NEW r \in Requests, GrantWallet(r) PROVE TypeInv'
  <2>1. Look(CommunityWallet) \in Sight
    BY LookType, WalletEnds
  <2>2. job[r].op = "grant"
    BY <1>6 DEF GrantWallet, OpAtStep
  <2>3. job[r].other \in Users
    BY <2>2 DEF OpAtStep
  <2>4. /\ minted' \in [Users -> Nat] /\ dest' \in [Requests -> Dest]
        /\ dest'[r].new => dest'[r].wallet \in Users \X (Nat \ {0})
        /\ \A q \in Requests \ {r} : dest'[q] = dest[q]
    <3>1. minted \in [Users -> Nat] /\ minted[job[r].other] \in Nat
      BY <2>3 DEF TypeOK
    <3>2. CASE Makes(r, job[r].other)
      <4>1. minted' \in [Users -> Nat]
        BY <2>3, <3>1, <3>2 DEF Makes
      <4>2. dest'[r].wallet \in Users \X (Nat \ {0})
        BY <2>3, <3>1, <3>2 DEF Makes
      <4> QED BY <1>6, <4>1, <4>2, DestOfGrant
    <3>3. CASE \E w \in WalletsOf(job[r].other) : Finds(r, w)
      BY <1>6, <3>1, <3>3, DestOfGrant DEF Finds
    <3> QED BY <1>6, <3>2, <3>3, DestOfGrant
  <2>5. OpAtStep' /\ pc' \in [Requests -> Label]
    BY <1>6, <2>2, <2>3, <2>4 DEF GrantWallet, Goto, TypeOK, OpAtStep, Label, ReasonOf
  <2>6. /\ seen' \in [Requests -> Sight]
        /\ UNCHANGED <<wallets, joined, ledger, view, clock, job, retried, pend>>
    BY <1>6, <2>1 DEF GrantWallet, TypeOK
  <2>7. TypeOK'
    BY <2>4, <2>5, <2>6 DEF TypeOK
  <2> QED BY <2>5, <2>7
<1>7. ASSUME NEW r \in Requests, Insert(r) PROVE TypeInv'
  <2>1. PICK parent \in LatestReceived(seen[r].wallet) :
          pend' = [pend EXCEPT ![r] = NewTx(r, parent)]
    BY <1>7 DEF Insert
  <2>2. NewTx(r, parent) \in Tx
    BY <1>7, <2>1, NewTxType DEF Insert
  <2>3. OpAtStep'
    BY <1>7 DEF Insert, Goto, TypeOK, OpAtStep
  <2> QED BY <1>7, <2>1, <2>2, <2>3 DEF Insert, Goto, TypeOK, Label
<1>8. ASSUME NEW r \in Requests, Commit(r) PROVE TypeInv'
  <2>1. dest[r].new => dest[r].wallet \in Wallet
    BY DEF OpAtStep, Wallet
  <2>2. OpAtStep'
    <3>1. /\ pc'[r] = "refresh" /\ job' = job
          /\ \A q \in Requests \ {r} : pc'[q] = pc[q] /\ dest'[q] = dest[q]
      BY <1>8, DestOfCommit DEF Commit, Goto, TypeOK
    <3> QED BY <1>8, <3>1, DestOfCommit DEF OpAtStep
  <2>3. dest[r].joins => job[r].other \in Users
    BY DEF OpAtStep
  <2>4. ledger' \subseteq Tx /\ wallets' \subseteq Wallet /\ joined' \subseteq Users
    BY <1>8, <2>1, <2>3 DEF Commit, TypeOK
  <2>5. pc' \in [Requests -> Label]
    BY <1>8 DEF Commit, Goto, TypeOK, Label
  <2>6. dest' \in [Requests -> Dest]
    BY <1>8, DestOfCommit
  <2>7. TypeOK'
    BY <1>8, <2>4, <2>5, <2>6 DEF Commit, TypeOK
  <2> QED BY <2>2, <2>7
<1>9. ASSUME NEW r \in Requests, Refresh(r) PROVE TypeInv'
  <2>1. CASE Finish(r)
    BY <1>9, <2>1, FinishType, IdsType DEF Refresh, TypeOK, database
  <2>2. CASE Goto(r, "notify") /\ UNCHANGED <<job, seen, dest, retried, pend>>
    BY <1>9, <2>2, IdsType DEF Refresh, Goto, TypeOK, OpAtStep, Label, database
  <2> QED BY <1>9, <2>1, <2>2 DEF Refresh
<1>10. ASSUME NEW r \in Requests, DeleteWallet(r) PROVE TypeInv'
  <2>1. \A t \in Tx, w \in Wallet : Detach(t, w) \in Tx
    BY WalletEnds DEF Detach, Tx
  <2>2. ledger' \subseteq Tx /\ wallets' \subseteq Wallet
    BY <1>10, <2>1 DEF DeleteWallet, TypeOK
  <2> QED BY <1>10, <2>2, FinishType DEF DeleteWallet, TypeOK
<1>11. CASE RefreshBatch
  BY <1>11, IdsType DEF RefreshBatch, TypeOK, OpAtStep, database
<1>12. ASSUME NEW r \in Requests, JoinIfNeeded(r) PROVE TypeInv'
  <2>1. OpAtStep'
    <3>1. /\ pc'[r] = "wallet" /\ pc[r] = "join" /\ job' = job
          /\ \A q \in Requests \ {r} : pc'[q] = pc[q] /\ dest'[q] = dest[q]
      BY <1>12, DestOfJoin DEF JoinIfNeeded, Goto, TypeOK
    <3> QED BY <1>12, <3>1, DestOfJoin DEF OpAtStep
  <2> QED BY <1>12, <2>1, DestOfJoin DEF JoinIfNeeded, Goto, TypeOK, Label, database
<1>13. ASSUME NEW r \in Requests, Progress(r) PROVE TypeInv'
  BY <1>12, <1>13, <1>3, <1>4, <1>5, <1>6, <1>7, <1>8, <1>9, <1>10
  DEF Progress, LookupFails, TransferRejected, GrantRejected, InsertFails, Notify, DeleteFails
<1> QED
  BY <1>1, <1>2, <1>3, <1>11, <1>13 DEF Next, Crash

LEMMA TypeInit == Init => TypeInv
<1> SUFFICES ASSUME Init PROVE TypeInv
  OBVIOUS
<1>1. NoJob \in Job /\ NoSight \in Sight /\ NoDest \in Dest /\ NoTx \in Tx
  BY DEF NoJob, Job, Op, NoSight, Sight, NoDest, Dest, NoTx, Tx, End, Reason
<1>2. TypeOK
  <2>1. wallets \subseteq Wallet
    BY WalletEnds, MemberAssumption DEF Init, Wallet
  <2>2. minted \in [Users -> Nat]
    BY DEF Init
  <2> QED
    BY <1>1, <2>1, <2>2, MemberAssumption DEF Init, TypeOK, Label
<1>3. OpAtStep
  BY DEF Init, OpAtStep, NoJob, NoDest
<1> QED BY <1>2, <1>3 DEF TypeInv

\* The variables keep their types in every behaviour.
THEOREM TypeCorrect == Spec => []TypeOK
<1>1. Init => TypeInv
  BY TypeInit
<1>2. TypeInv /\ [Next]_vars => TypeInv'
  BY TypeStep
<1>3. TypeInv => TypeOK
  BY DEF TypeInv
<1> QED BY <1>1, <1>2, <1>3, PTL DEF Spec

LEMMA TypeAlways == Spec => []TypeInv
<1>1. Init => TypeInv
  BY TypeInit
<1>2. TypeInv /\ [Next]_vars => TypeInv'
  BY TypeStep
<1> QED BY <1>1, <1>2, PTL DEF Spec

-----------------------------------------------------------------------------
(* No step takes a row out of the ledger or changes its id.                *)

LEMMA DetachIds ==
  ASSUME TypeInv, NEW w, ledger' = {Detach(t, w) : t \in ledger}
  PROVE  Ids(ledger') = Ids(ledger)
<1>1. \A t \in ledger : Detach(t, w).id = t.id
  BY DEF Detach, TypeInv, TypeOK, Tx
<1> QED BY <1>1 DEF Ids

\* Committing, and deleting a wallet, are the steps that change the ledger.
LEMMA LedgerChange ==
  ASSUME [Next]_vars
  PROVE  \/ UNCHANGED ledger
         \/ \E r \in Requests : Commit(r)
         \/ \E r \in Requests : DeleteWallet(r)
<1>1. CASE UNCHANGED vars
  BY <1>1 DEF vars
<1>2. ASSUME NEW r \in Requests, NewCall(r) PROVE UNCHANGED ledger
  BY <1>2 DEF NewCall, CallIssue, CallGrant, CallDonate, CallContribute, CallWithdraw, Call, database
<1>3. ASSUME NEW r \in Requests, Progress(r)
      PROVE UNCHANGED ledger \/ Commit(r) \/ DeleteWallet(r)
  BY <1>3 DEF Progress, LookupFails, LookupRefreshes, DonateFrom, DonateTo, ContributeFrom,
     WithdrawFrom, TransferRejected, JoinIfNeeded, GrantWallet, GrantRejected, Insert, InsertFails, Refresh,
     Notify, DeleteFails, database
<1>4. CASE RefreshBatch
  BY <1>4 DEF RefreshBatch, database
<1>5. ASSUME NEW r \in Requests, Crash(r) PROVE UNCHANGED ledger
  BY <1>5 DEF Crash, database
<1> QED BY <1>1, <1>2, <1>3, <1>4, <1>5 DEF Next

LEMMA IdsGrow == TypeInv /\ [Next]_vars => Ids(ledger) \subseteq Ids(ledger')
<1> SUFFICES ASSUME TypeInv, [Next]_vars PROVE Ids(ledger) \subseteq Ids(ledger')
  OBVIOUS
<1>1. ASSUME NEW r \in Requests, Commit(r) PROVE Ids(ledger) \subseteq Ids(ledger')
  BY <1>1 DEF Commit, Ids
<1>2. ASSUME NEW r \in Requests, DeleteWallet(r) PROVE Ids(ledger) \subseteq Ids(ledger')
  BY <1>2, DetachIds DEF DeleteWallet
<1> QED BY <1>1, <1>2, LedgerChange
-----------------------------------------------------------------------------
(* NotifiedSeesPoints.  Inductive with: what a request has committed stays *)
(* in the ledger until it notifies.                                        *)

CommittedStays ==
  \A r \in Requests : pc[r] \in {"refresh", "notify"} => pend[r].id \in Ids(ledger)

NotifiedInv == CommittedStays /\ NotifiedSeesPoints

\* What one step can do to the request r that waits to refresh or to notify.
LEMMA WaitingRequest ==
  ASSUME TypeInv, [Next]_vars, NEW r \in Requests, pc'[r] \in {"refresh", "notify"}
  PROVE  \/ pc'[r] = pc[r] /\ pend'[r] = pend[r]
         \/ Commit(r)
         \/ Refresh(r) /\ pend'[r] = pend[r] /\ pc[r] = "refresh"
<1>1. CASE UNCHANGED vars
  BY <1>1 DEF vars
<1>2. ASSUME NEW q \in Requests, NewCall(q) PROVE pc'[r] = pc[r] /\ pend'[r] = pend[r]
  BY <1>2 DEF NewCall, CallIssue, CallGrant, CallDonate, CallContribute, CallWithdraw, Call, Goto, TypeInv, TypeOK
<1>3. ASSUME NEW q \in Requests, Finish(q) PROVE pc'[r] = pc[r] /\ pend'[r] = pend[r]
  BY <1>3 DEF Finish, Goto, TypeInv, TypeOK
<1>4. ASSUME NEW q \in Requests, Progress(q), ~Finish(q), ~Commit(q), ~Refresh(q)
      PROVE pc'[r] = pc[r] /\ pend'[r] = pend[r]
  <2>1. ASSUME NEW w \in wallets,
               DonateFrom(q, w) \/ DonateTo(q, w) \/ ContributeFrom(q, w) \/ WithdrawFrom(q, w)
        PROVE pc'[r] = pc[r] /\ pend'[r] = pend[r]
    BY <2>1 DEF DonateFrom, DonateTo, ContributeFrom, WithdrawFrom, Goto, TypeInv, TypeOK
  <2>2. CASE LookupRefreshes(q) \/ JoinIfNeeded(q)
    BY <2>2 DEF LookupRefreshes, JoinIfNeeded, Goto, TypeInv, TypeOK
  <2>3. CASE GrantWallet(q)
    BY <2>3 DEF GrantWallet, Goto, TypeInv, TypeOK
  <2>4. CASE Insert(q)
    BY <2>4 DEF Insert, Goto, TypeInv, TypeOK
  <2> QED BY <1>4, <2>1, <2>2, <2>3, <2>4 DEF Progress, LookupFails, TransferRejected,
             GrantRejected, InsertFails, Notify, DeleteWallet, DeleteFails
<1>5. ASSUME NEW q \in Requests \ {r}, Commit(q) \/ Refresh(q)
      PROVE pc'[r] = pc[r] /\ pend'[r] = pend[r]
  BY <1>5 DEF Commit, Refresh, Finish, Goto, TypeInv, TypeOK
<1>6. CASE Refresh(r)
  BY <1>6 DEF Refresh, Finish, Goto, TypeInv, TypeOK
<1>7. CASE RefreshBatch
  BY <1>7 DEF RefreshBatch
<1> QED BY <1>1, <1>2, <1>3, <1>4, <1>5, <1>6, <1>7 DEF Next, Crash

\* The view only ever becomes the whole ledger.
LEMMA ViewChange == ASSUME [Next]_vars PROVE UNCHANGED view \/ view' = Ids(ledger)
<1>1. CASE UNCHANGED vars
  BY <1>1 DEF vars
<1>2. ASSUME NEW r \in Requests, NewCall(r) PROVE UNCHANGED view
  BY <1>2 DEF NewCall, CallIssue, CallGrant, CallDonate, CallContribute, CallWithdraw, Call
<1>3. ASSUME NEW r \in Requests, Progress(r) PROVE UNCHANGED view \/ view' = Ids(ledger)
  BY <1>3 DEF Progress, LookupFails, LookupRefreshes, DonateFrom, DonateTo, ContributeFrom,
     WithdrawFrom, TransferRejected, JoinIfNeeded, GrantWallet, GrantRejected, Insert, InsertFails, Commit,
     Refresh, Notify, DeleteWallet, DeleteFails
<1>4. CASE RefreshBatch
  BY <1>4 DEF RefreshBatch
<1> QED BY <1>1, <1>2, <1>3, <1>4 DEF Next, Crash

\* Whoever is notified of points finds them in the balance, whatever other
\* requests, crashes and batch runs do in between.
THEOREM NotifiedSeesPointsAlways == Spec => []NotifiedSeesPoints
<1>1. Init => NotifiedInv
  BY DEF Init, NotifiedInv, CommittedStays, NotifiedSeesPoints
<1>2. TypeInv /\ NotifiedInv /\ [Next]_vars => NotifiedInv'
  <2> SUFFICES ASSUME TypeInv, NotifiedInv, [Next]_vars, NEW r \in Requests,
                      pc'[r] \in {"refresh", "notify"}
               PROVE  /\ pend'[r].id \in Ids(ledger')
                      /\ pc'[r] = "notify" => pend'[r].id \in view'
    BY DEF NotifiedInv, CommittedStays, NotifiedSeesPoints
  <2>1. CASE pc'[r] = pc[r] /\ pend'[r] = pend[r]
    BY <2>1, IdsGrow, ViewChange DEF NotifiedInv, CommittedStays, NotifiedSeesPoints
  <2>2. CASE Commit(r)
    BY <2>2 DEF Commit, Goto, Ids, TypeInv, TypeOK
  <2>3. CASE Refresh(r) /\ pend'[r] = pend[r] /\ pc[r] = "refresh"
    BY <2>3, IdsGrow DEF Refresh, NotifiedInv, CommittedStays
  <2> QED BY <2>1, <2>2, <2>3, WaitingRequest
<1>3. NotifiedInv => NotifiedSeesPoints
  BY DEF NotifiedInv
<1> QED BY <1>1, <1>2, <1>3, TypeAlways, PTL DEF Spec
-----------------------------------------------------------------------------
(* ChainSound.  Inductive with: ids in the ledger have been handed out, and *)
(* a row that waits for its commit already has its parent in the ledger.   *)

IdsHandedOut ==
  /\ \A t \in ledger : t.id <= clock
  /\ \A r \in Requests : pc[r] = "commit" => pend[r].id <= clock
PendingLinked ==
  \A r \in Requests : pc[r] = "commit" /\ pend[r].parent > 0 => LinkedToParent(pend[r])

ChainInv == IdsHandedOut /\ PendingLinked /\ ChainSound

\* A request that waits to commit has just inserted its row or was waiting before.
LEMMA CommittingRequest ==
  ASSUME TypeInv, [Next]_vars, NEW r \in Requests, pc'[r] = "commit"
  PROVE  (pc[r] = "commit" /\ pend'[r] = pend[r]) \/ Insert(r)
<1>1. CASE UNCHANGED vars
  BY <1>1 DEF vars
<1>2. ASSUME NEW q \in Requests, NewCall(q) PROVE pc'[r] = pc[r] /\ pend'[r] = pend[r]
  BY <1>2 DEF NewCall, CallIssue, CallGrant, CallDonate, CallContribute, CallWithdraw, Call, Goto, TypeInv, TypeOK
<1>3. ASSUME NEW q \in Requests, Finish(q) PROVE pc'[r] = pc[r] /\ pend'[r] = pend[r]
  BY <1>3 DEF Finish, Goto, TypeInv, TypeOK
<1>4. ASSUME NEW q \in Requests, Progress(q), ~Finish(q), ~Insert(r)
      PROVE pc'[r] = pc[r] /\ pend'[r] = pend[r]
  <2>1. ASSUME NEW w \in wallets,
               DonateFrom(q, w) \/ DonateTo(q, w) \/ ContributeFrom(q, w) \/ WithdrawFrom(q, w)
        PROVE pc'[r] = pc[r] /\ pend'[r] = pend[r]
    BY <2>1 DEF DonateFrom, DonateTo, ContributeFrom, WithdrawFrom, Goto, TypeInv, TypeOK
  <2>2. CASE LookupRefreshes(q) \/ JoinIfNeeded(q)
    BY <2>2 DEF LookupRefreshes, JoinIfNeeded, Goto, TypeInv, TypeOK
  <2>3. CASE GrantWallet(q)
    BY <2>3 DEF GrantWallet, Goto, TypeInv, TypeOK
  <2>4. CASE Insert(q)
    BY <1>4, <2>4 DEF Insert, Goto, TypeInv, TypeOK
  <2>5. CASE Commit(q) \/ Refresh(q)
    BY <1>4, <2>5 DEF Commit, Refresh, Goto, TypeInv, TypeOK
  <2> QED BY <1>4, <2>1, <2>2, <2>3, <2>4, <2>5 DEF Progress, LookupFails, TransferRejected,
             GrantRejected, InsertFails, Notify, DeleteWallet, DeleteFails
<1>5. CASE RefreshBatch
  BY <1>5 DEF RefreshBatch
<1> QED BY <1>1, <1>2, <1>3, <1>4, <1>5 DEF Next, Crash

\* Ids are handed out upwards.
LEMMA ClockGrows == TypeInv /\ [Next]_vars => clock' >= clock
<1> SUFFICES ASSUME TypeInv, [Next]_vars PROVE clock' >= clock
  OBVIOUS
<1> USE DEF TypeInv, TypeOK
<1>1. CASE UNCHANGED vars
  BY <1>1 DEF vars
<1>2. ASSUME NEW r \in Requests, NewCall(r) PROVE UNCHANGED clock
  BY <1>2 DEF NewCall, CallIssue, CallGrant, CallDonate, CallContribute, CallWithdraw, Call, database
<1>3. ASSUME NEW r \in Requests, Progress(r) PROVE UNCHANGED clock \/ clock' = clock + 1
  BY <1>3 DEF Progress, LookupFails, LookupRefreshes, DonateFrom, DonateTo, ContributeFrom,
     WithdrawFrom, TransferRejected, JoinIfNeeded, GrantWallet, GrantRejected, Insert, InsertFails, Commit,
     Refresh, Notify, DeleteWallet, DeleteFails, database
<1>4. CASE RefreshBatch
  BY <1>4 DEF RefreshBatch, database
<1>5. ASSUME NEW r \in Requests, Crash(r) PROVE UNCHANGED clock
  BY <1>5 DEF Crash, database
<1> QED BY <1>1, <1>2, <1>3, <1>4, <1>5 DEF Next

\* A parent stays the parent of its rows when rows are added, and when a
\* wallet is deleted that the row does not refer to.
LEMMA LinkSurvivesCommit ==
  ASSUME NEW t, LinkedToParent(t), ledger \subseteq ledger'
  PROVE  LinkedToParent(t)'
  BY DEF LinkedToParent

LEMMA LinkSurvivesDelete ==
  ASSUME TypeInv, NEW w \in Wallet, NEW t \in Tx, LinkedToParent(t),
         ledger' = {Detach(e, w) : e \in ledger}
  PROVE  /\ t.from /= w => LinkedToParent(t)'
         /\ \E p \in ledger' : /\ p.id = t.parent /\ p.id < t.id
                               /\ p.reason \in ReceivedReason /\ t.depth = p.depth + 1
                               /\ p.to = Detach(t, w).from
<1>1. PICK p \in ledger : /\ p.id = t.parent /\ p.id < t.id
                          /\ p.reason \in ReceivedReason /\ t.depth = p.depth + 1
                          /\ p.to = t.from
  BY DEF LinkedToParent
<1>2. p \in Tx
  BY DEF TypeInv, TypeOK
<1>3. /\ Detach(p, w).id = p.id /\ Detach(p, w).reason = p.reason
      /\ Detach(p, w).depth = p.depth
      /\ Detach(p, w).to = IF p.to = w THEN NoWallet ELSE p.to
      /\ Detach(t, w).from = IF t.from = w THEN NoWallet ELSE t.from
  BY <1>2 DEF Detach, Tx
<1>4. Detach(p, w) \in ledger'
  OBVIOUS
<1> QED BY <1>1, <1>3, <1>4 DEF LinkedToParent

LEMMA ChainAlways == Spec => []ChainInv
<1>1. Init => ChainInv
  BY DEF Init, ChainInv, IdsHandedOut, PendingLinked, ChainSound
<1>2. TypeInv /\ TypeInv' /\ ChainInv /\ [Next]_vars => ChainInv'
  <2> SUFFICES ASSUME TypeInv, TypeInv', ChainInv, [Next]_vars PROVE ChainInv'
    OBVIOUS
  <2>1. \A t \in ledger : t \in Tx /\ t.id \in Nat
    BY DEF TypeInv, TypeOK, Tx
  <2>2. \A r \in Requests : pend[r] \in Tx /\ pend[r].id \in Nat
    BY DEF TypeInv, TypeOK, Tx
  <2>3. ASSUME NEW r \in Requests, Insert(r)
        PROVE /\ pend'[r].id = clock' /\ ledger' = ledger
              /\ pend'[r].parent > 0 => LinkedToParent(pend'[r])
    <3>1. PICK parent \in LatestReceived(seen[r].wallet) :
            pend' = [pend EXCEPT ![r] = NewTx(r, parent)]
      BY <2>3 DEF Insert
    <3>2. pend'[r] = NewTx(r, parent)
      BY <3>1 DEF TypeInv, TypeOK
    <3>3. job[r].op \in {"issue", "grant", "donate", "contribute"}
      BY <2>3 DEF Insert, TypeInv, OpAtStep, ReasonOf
    <3>4. ASSUME pend'[r].parent > 0 PROVE LinkedToParent(pend'[r])
      <4>1. job[r].op \in {"donate", "contribute"}
        BY <3>2, <3>3, <3>4 DEF NewTx, Link
      <4>2. pend'[r].parent = parent.id /\ parent.id > 0
        BY <3>2, <3>4, <4>1 DEF NewTx, Link, Linked
      <4>3. parent /= NoTx
        BY <4>2 DEF NoTx
      <4>4. parent \in ledger /\ parent.to = seen[r].wallet /\ parent.reason \in ReceivedReason
        BY <4>3 DEF LatestReceived, ReceivedTx
      <4>5. pend'[r].depth = parent.depth + 1 /\ pend'[r].from = seen[r].wallet
        BY <3>2, <4>1, <4>3 DEF NewTx, Link, Linked
      <4>6. parent.id < pend'[r].id
        BY <3>2, <4>4, <2>1 DEF NewTx, ChainInv, IdsHandedOut, TypeInv, TypeOK
      <4> QED BY <4>2, <4>4, <4>5, <4>6 DEF LinkedToParent
    <3>5. pend'[r].id = clock' /\ ledger' = ledger
      BY <2>3, <3>2 DEF Insert, NewTx
    <3> QED BY <3>4, <3>5
  <2>4. IdsHandedOut'
    <3>1. ASSUME NEW r \in Requests, pc'[r] = "commit" PROVE pend'[r].id <= clock'
      <4>1. pend'[r].id \in Nat /\ clock \in Nat /\ clock' \in Nat
        BY DEF TypeInv, TypeOK, Tx
      <4> QED BY <2>3, <3>1, <4>1, CommittingRequest, ClockGrows DEF ChainInv, IdsHandedOut
    <3>2. ASSUME NEW t \in ledger' PROVE t.id <= clock'
      <4>1. clock \in Nat /\ clock' \in Nat
        BY DEF TypeInv, TypeOK
      <4>2. CASE UNCHANGED ledger
        BY <2>1, <3>2, <4>1, <4>2, ClockGrows DEF ChainInv, IdsHandedOut
      <4>3. ASSUME NEW r \in Requests, Commit(r) PROVE t.id <= clock'
        <5>1. t \in ledger \/ t = pend[r]
          BY <3>2, <4>3 DEF Commit
        <5>2. pc[r] = "commit"
          BY <4>3 DEF Commit
        <5> QED BY <2>1, <2>2, <4>1, <5>1, <5>2, ClockGrows DEF ChainInv, IdsHandedOut
      <4>4. ASSUME NEW r \in Requests, DeleteWallet(r) PROVE t.id <= clock'
        <5>1. PICK e \in ledger : t = Detach(e, seen[r].wallet)
          BY <3>2, <4>4 DEF DeleteWallet
        <5>2. t.id = e.id
          BY <2>1, <5>1 DEF Detach, Tx
        <5> QED BY <2>1, <4>1, <5>2, ClockGrows DEF ChainInv, IdsHandedOut
      <4> QED BY <4>2, <4>3, <4>4, LedgerChange
    <3> QED BY <3>1, <3>2 DEF IdsHandedOut
  <2>5. ASSUME UNCHANGED ledger PROVE PendingLinked' /\ ChainSound'
    <3>1. \A t : LinkedToParent(t) => LinkedToParent(t)'
      BY <2>5 DEF LinkedToParent
    <3>2. ChainSound'
      BY <2>5, <3>1 DEF ChainInv, ChainSound
    <3>3. ASSUME NEW r \in Requests, pc'[r] = "commit", pend'[r].parent > 0
          PROVE LinkedToParent(pend[r])'
      <4>1. CASE Insert(r)
        BY <2>3, <3>1, <3>3, <4>1 DEF LinkedToParent
      <4>2. CASE pc[r] = "commit" /\ pend'[r] = pend[r]
        BY <3>1, <3>3, <4>2 DEF ChainInv, PendingLinked, LinkedToParent
      <4> QED BY <3>3, <4>1, <4>2, CommittingRequest
    <3> QED BY <3>2, <3>3 DEF PendingLinked
  <2>6. ASSUME NEW r \in Requests, Commit(r) PROVE PendingLinked' /\ ChainSound'
    <3>1. ledger' = ledger \cup {pend[r]} /\ pc[r] = "commit"
      BY <2>6 DEF Commit
    <3>2. \A t : LinkedToParent(t) => LinkedToParent(t)'
      BY <3>1 DEF LinkedToParent
    <3>3. ChainSound'
      BY <3>1, <3>2 DEF ChainInv, ChainSound, PendingLinked
    <3>4. ASSUME NEW q \in Requests, pc'[q] = "commit", pend'[q].parent > 0
          PROVE LinkedToParent(pend[q])'
      <4>1. pend' = pend /\ pc[q] = "commit"
        BY <2>6, <3>4 DEF Commit, Goto, TypeInv, TypeOK
      <4> QED BY <3>2, <3>4, <4>1 DEF ChainInv, PendingLinked, LinkedToParent
    <3> QED BY <3>3, <3>4 DEF PendingLinked
  <2>7. ASSUME NEW r \in Requests, DeleteWallet(r) PROVE PendingLinked' /\ ChainSound'
    <3> DEFINE w == seen[r].wallet
    <3>1. /\ ledger' = {Detach(e, w) : e \in ledger} /\ w \in Wallet
          /\ ~Referenced(w) /\ Finish(r)
      BY <2>7 DEF DeleteWallet, TypeInv, TypeOK
    <3> HIDE DEF w
    <3>2. ASSUME NEW t \in ledger', t.parent > 0 PROVE LinkedToParent(t)'
      <4>1. PICK e \in ledger : t = Detach(e, w)
        BY <3>1, <3>2
      <4>2. t.parent = e.parent /\ t.id = e.id /\ t.depth = e.depth /\ e \in Tx
        BY <2>1, <4>1 DEF Detach, Tx
      <4>3. LinkedToParent(e)
        BY <3>2, <4>2 DEF ChainInv, ChainSound
      <4> QED BY <3>1, <4>1, <4>2, <4>3, LinkSurvivesDelete DEF LinkedToParent
    <3>3. ASSUME NEW q \in Requests, pc'[q] = "commit", pend'[q].parent > 0
          PROVE LinkedToParent(pend[q])'
      <4>1. pc[q] = "commit" /\ pend'[q] = pend[q]
        BY <3>1, <3>3 DEF Finish, Goto, TypeInv, TypeOK
      <4>2. pend[q].from /= w
        BY <3>1, <4>1 DEF Referenced
      <4>3. LinkedToParent(pend[q])
        BY <3>3, <4>1 DEF ChainInv, PendingLinked
      <4> QED BY <2>2, <3>1, <4>1, <4>2, <4>3, LinkSurvivesDelete DEF LinkedToParent
    <3> QED BY <3>2, <3>3 DEF PendingLinked, ChainSound
  <2> QED BY <2>4, <2>5, <2>6, <2>7, LedgerChange DEF ChainInv
<1> QED BY <1>1, <1>2, TypeAlways, PTL DEF Spec

\* The chain links stay sound, however inserts, commits and deletions interleave.
THEOREM ChainSoundAlways == Spec => []ChainSound
<1>1. ChainInv => ChainSound
  BY DEF ChainInv
<1> QED BY <1>1, ChainAlways, PTL

-----------------------------------------------------------------------------
(* Wallets that grants have inserted and not yet committed: nobody else has *)
(* the same id, though several may be for one user.                        *)

NewWallet(r) == dest[r].new
NewWalletsApart ==
  \A r \in Requests : NewWallet(r) =>
    /\ dest[r].wallet \notin wallets
    /\ \A q \in Requests \ {r} : NewWallet(q) => dest[q].wallet /= dest[r].wallet

\* The three ways in which a step touches wallets or wallets to be.
LEMMA WalletChange ==
  ASSUME TypeInv, [Next]_vars
  PROVE  \/ /\ wallets' \subseteq wallets
            /\ \A r \in Requests : NewWallet(r)' =>
                 NewWallet(r) /\ dest'[r] = dest[r] /\ job'[r] = job[r]
         \/ \E r \in Requests : GrantWallet(r)
         \/ \E r \in Requests : Commit(r)
<1> DEFINE Keep == /\ wallets' \subseteq wallets
                   /\ \A r \in Requests : NewWallet(r)' =>
                        NewWallet(r) /\ dest'[r] = dest[r] /\ job'[r] = job[r]
<1> USE DEF NewWallet
<1>1. ASSUME UNCHANGED <<wallets, job, dest>> PROVE Keep
  BY <1>1
<1>2. ASSUME NEW r \in Requests, Finish(r), wallets' \subseteq wallets PROVE Keep
  BY <1>2 DEF Finish, TypeInv, TypeOK, NoDest
<1>3. ASSUME NEW r \in Requests, NewCall(r) PROVE Keep
  <2>1. pc[r] = "idle" /\ wallets' = wallets /\ \E j : job' = [job EXCEPT ![r] = j]
    BY <1>3 DEF NewCall, CallIssue, CallGrant, CallDonate, CallContribute, CallWithdraw, Call, database
  <2>2. dest' = dest \/ dest' = [dest EXCEPT ![r].wallet = CommunityWallet]
    BY <1>3 DEF NewCall, CallIssue, CallGrant, CallDonate, CallContribute, CallWithdraw
  <2>3. ~dest[r].new
    BY <2>1 DEF TypeInv, OpAtStep
  <2>4. dest'[r].new = dest[r].new /\ \A q \in Requests \ {r} : dest'[q] = dest[q] /\ job'[q] = job[q]
    BY <2>1, <2>2 DEF TypeInv, TypeOK, Dest
  <2> QED BY <2>1, <2>3, <2>4
<1>4. ASSUME NEW r \in Requests, NEW w \in wallets, DonateTo(r, w) PROVE Keep
  <2>1. ~dest[r].new
    BY <1>4 DEF DonateTo, TypeInv, OpAtStep
  <2>2. dest'[r].new = dest[r].new /\ \A q \in Requests \ {r} : dest'[q] = dest[q]
    BY <1>4 DEF DonateTo, TypeInv, TypeOK, Dest
  <2> QED BY <1>4, <2>1, <2>2 DEF DonateTo, database
<1>5. ASSUME NEW r \in Requests, NEW w \in wallets,
             DonateFrom(r, w) \/ ContributeFrom(r, w) \/ WithdrawFrom(r, w)
      PROVE Keep
  BY <1>1, <1>5 DEF DonateFrom, ContributeFrom, WithdrawFrom, database
<1>6. ASSUME NEW r \in Requests, LookupRefreshes(r) \/ JoinIfNeeded(r) \/ Insert(r) PROVE Keep
  <2>1. ASSUME JoinIfNeeded(r) PROVE Keep
    <3>1. ~dest'[r].new /\ \A q \in Requests \ {r} : dest'[q] = dest[q]
      BY <2>1, DestOfJoin
    <3> QED BY <2>1, <3>1 DEF JoinIfNeeded, database
  <2> QED BY <1>1, <1>6, <2>1 DEF LookupRefreshes, Insert, database
<1>7. ASSUME NEW r \in Requests, Refresh(r) PROVE Keep
  BY <1>1, <1>2, <1>7 DEF Refresh, database
<1>8. ASSUME NEW r \in Requests, Progress(r) PROVE Keep \/ GrantWallet(r) \/ Commit(r)
  <2> HIDE DEF Keep
  <2> QED BY <1>2, <1>4, <1>5, <1>6, <1>7, <1>8 DEF Progress, LookupFails, TransferRejected,
             GrantRejected, InsertFails, Notify, DeleteWallet, DeleteFails, database
<1>9. ASSUME UNCHANGED vars PROVE Keep
  BY <1>1, <1>9 DEF vars
<1>10. ASSUME RefreshBatch PROVE Keep
  BY <1>1, <1>10 DEF RefreshBatch, database
<1>11. ASSUME NEW r \in Requests, Crash(r) PROVE Keep
  BY <1>2, <1>11 DEF Crash, database
<1> HIDE DEF Keep
<1>12. Keep \/ (\E r \in Requests : GrantWallet(r)) \/ (\E r \in Requests : Commit(r))
  <2>1. CASE \E r \in Requests : NewCall(r) \/ Progress(r) \/ Crash(r)
    <3>1. PICK r \in Requests : NewCall(r) \/ Progress(r) \/ Crash(r)
      BY <2>1
    <3> QED BY <1>3, <1>8, <1>11, <3>1
  <2> QED BY <1>9, <1>10, <2>1 DEF Next
<1> QED BY <1>12 DEF Keep

-----------------------------------------------------------------------------
(* What a call has established about itself, step by step.                 *)

\* The steps of the ledger, sorted by what they leave alone.
LEMMA StepKinds ==
  ASSUME [Next]_vars
  PROVE  \/ UNCHANGED vars
         \/ RefreshBatch
         \/ \E r \in Requests :
              \/ NewCall(r)
              \/ Finish(r) /\ UNCHANGED <<database, view>>
              \/ LookupRefreshes(r) \/ JoinIfNeeded(r)
              \/ \E w \in wallets : \/ DonateFrom(r, w) \/ DonateTo(r, w)
                                    \/ ContributeFrom(r, w) \/ WithdrawFrom(r, w)
              \/ GrantWallet(r) \/ Insert(r) \/ Commit(r) \/ Refresh(r) \/ DeleteWallet(r)
  BY DEF Next, Progress, LookupFails, TransferRejected, GrantRejected, InsertFails, Notify,
     DeleteFails, Crash

CallSound(r) ==
  /\ pc[r] = "idle" => seen[r] = NoSight
  /\ job[r].op \in DOMAIN ReasonOf => job[r].points \in Amounts
  /\ job[r].op = "withdraw" => job[r].user \in Users
  /\ job[r].op = "issue" => seen[r] = NoSight
  /\ job[r].op \in {"issue", "contribute"} => dest[r].wallet = CommunityWallet
  /\ pc[r] = "to" => seen[r].wallet \in Wallet
  /\ pc[r] = "delete" => seen[r].wallet \in Wallet \ {CommunityWallet}
  /\ pc[r] = "insert" /\ job[r].op /= "issue" =>
       /\ seen[r].wallet \in Wallet /\ dest[r].wallet \in Wallet /\ job[r].points > 0
       /\ dest[r].new => seen[r].wallet = CommunityWallet
CallsSound == \A r \in Requests : CallSound(r)

\* Only the request that takes a step changes what it knows.
Same(r) ==
  /\ pc'[r] = pc[r] /\ job'[r] = job[r] /\ seen'[r] = seen[r] /\ dest'[r] = dest[r]
  /\ pend'[r] = pend[r]

LEMMA SameCall == \A r : Same(r) /\ CallSound(r) => CallSound(r)'
  BY DEF Same, CallSound

LEMMA OthersSame ==
  ASSUME TypeInv, NEW r \in Requests, NEW q \in Requests \ {r},
         \/ NewCall(r) \/ Finish(r) \/ LookupRefreshes(r) \/ JoinIfNeeded(r)
         \/ \E w \in wallets : \/ DonateFrom(r, w) \/ DonateTo(r, w)
                               \/ ContributeFrom(r, w) \/ WithdrawFrom(r, w)
         \/ GrantWallet(r) \/ Insert(r) \/ Commit(r) \/ Refresh(r) \/ DeleteWallet(r)
  PROVE  Same(q)
<1> USE DEF Same, TypeInv, TypeOK
<1>1. ASSUME Finish(r) PROVE Same(q)
  BY <1>1 DEF Finish, Goto
<1>2. ASSUME NewCall(r) PROVE Same(q)
  <2>1. UNCHANGED <<seen, pend>> /\ \E j, label : pc' = [pc EXCEPT ![r] = label] /\ job' = [job EXCEPT ![r] = j]
    BY <1>2 DEF NewCall, CallIssue, CallGrant, CallDonate, CallContribute, CallWithdraw, Call, Goto
  <2>2. dest' = dest \/ dest' = [dest EXCEPT ![r].wallet = CommunityWallet]
    BY <1>2 DEF NewCall, CallIssue, CallGrant, CallDonate, CallContribute, CallWithdraw
  <2> QED BY <2>1, <2>2
<1>3. ASSUME NEW w \in wallets, DonateFrom(r, w) \/ DonateTo(r, w) \/ ContributeFrom(r, w) \/ WithdrawFrom(r, w)
      PROVE Same(q)
  BY <1>3 DEF DonateFrom, DonateTo, ContributeFrom, WithdrawFrom, Goto
<1>4. ASSUME LookupRefreshes(r) \/ JoinIfNeeded(r) PROVE Same(q)
  BY <1>4 DEF LookupRefreshes, JoinIfNeeded, Goto
<1>5. ASSUME GrantWallet(r) PROVE Same(q)
  BY <1>5 DEF GrantWallet, Goto
<1>6. ASSUME Insert(r) \/ Commit(r) PROVE Same(q)
  BY <1>6 DEF Insert, Commit, Goto
<1>7. ASSUME Refresh(r) PROVE Same(q)
  BY <1>1, <1>7 DEF Refresh, Goto
<1>8. ASSUME DeleteWallet(r) PROVE Same(q)
  BY <1>1, <1>8 DEF DeleteWallet
<1> QED BY <1>1, <1>2, <1>3, <1>4, <1>5, <1>6, <1>7, <1>8

LEMMA CallAlways == Spec => []CallsSound
<1>1. Init => CallsSound
  BY DEF Init, CallsSound, CallSound, NoJob, ReasonOf
<1>2. TypeInv /\ CallsSound /\ [Next]_vars => CallsSound'
  <2> SUFFICES ASSUME TypeInv, CallsSound, [Next]_vars PROVE CallsSound'
    OBVIOUS
  <2>1. ASSUME NEW r \in Requests, Finish(r) PROVE CallSound(r)'
    BY <2>1 DEF Finish, Goto, CallSound, TypeInv, TypeOK, NoJob, ReasonOf
  <2>2. ASSUME NEW r \in Requests, NewCall(r) PROVE CallSound(r)'
    <3>1. seen'[r] = NoSight /\ pc[r] = "idle"
      BY <2>2 DEF NewCall, CallIssue, CallGrant, CallDonate, CallContribute, CallWithdraw, Call,
         CallsSound, CallSound
    <3>2. ASSUME NEW op, NEW u, NEW v, NEW n, NEW label,
                 Call(r, Request(op, u, v, n), label)
          PROVE  /\ job'[r].op = op /\ job'[r].user = u /\ job'[r].points = n
                 /\ pc'[r] = label
      BY <3>2 DEF Call, Goto, Request, TypeInv, TypeOK
    <3>3. ASSUME NEW n \in Amounts, CallIssue(r, n) PROVE CallSound(r)'
      <4>1. dest'[r].wallet = CommunityWallet
        BY <3>3 DEF CallIssue, TypeInv, TypeOK, Dest
      <4>2. pc'[r] = "insert" /\ job'[r].op = "issue" /\ job'[r].points = n
        BY <3>2, <3>3 DEF CallIssue
      <4> QED BY <3>1, <4>1, <4>2 DEF CallSound
    <3>4. ASSUME NEW v \in Users, NEW n \in Amounts, CallGrant(r, v, n) PROVE CallSound(r)'
      <4>1. pc'[r] = "join" /\ job'[r].op = "grant" /\ job'[r].points = n
        BY <3>2, <3>4 DEF CallGrant
      <4> QED BY <3>1, <4>1 DEF CallSound
    <3>5. ASSUME NEW u \in Users, NEW v \in Users, NEW n \in Amounts, CallDonate(r, u, v, n)
          PROVE CallSound(r)'
      <4>1. pc'[r] = "from" /\ job'[r].op = "donate" /\ job'[r].points = n
        BY <3>2, <3>5 DEF CallDonate
      <4> QED BY <3>1, <4>1 DEF CallSound
    <3>6. ASSUME NEW u \in Users, NEW n \in Amounts, CallContribute(r, u, n) PROVE CallSound(r)'
      <4>1. pc'[r] = "from" /\ job'[r].op = "contribute" /\ job'[r].points = n
        BY <3>2, <3>6 DEF CallContribute
      <4>2. dest'[r].wallet = CommunityWallet
        BY <3>6 DEF CallContribute, TypeInv, TypeOK, Dest
      <4> QED BY <3>1, <4>1, <4>2 DEF CallSound
    <3>7. ASSUME NEW u \in Users, CallWithdraw(r, u) PROVE CallSound(r)'
      <4>1. pc'[r] = "from" /\ job'[r].op = "withdraw" /\ job'[r].user = u
        BY <3>2, <3>7 DEF CallWithdraw
      <4> QED BY <3>1, <4>1 DEF CallSound, ReasonOf
    <3> QED BY <2>2, <3>3, <3>4, <3>5, <3>6, <3>7 DEF NewCall
  <2>3. ASSUME NEW r \in Requests, NEW w \in wallets,
               DonateFrom(r, w) \/ DonateTo(r, w) \/ ContributeFrom(r, w) \/ WithdrawFrom(r, w)
        PROVE CallSound(r)'
    <3>1. CallSound(r) /\ w \in Wallet /\ job'[r] = job[r] /\ Look(w).wallet = w
      BY <2>3 DEF CallsSound, TypeInv, TypeOK, DonateFrom, DonateTo, ContributeFrom, WithdrawFrom, Look
    <3>2. CASE DonateFrom(r, w)
      BY <3>1, <3>2 DEF DonateFrom, Goto, CallSound, TypeInv, TypeOK
    <3>3. CASE DonateTo(r, w)
      <4>1. job[r].op = "donate" /\ ~dest[r].new
        BY <3>3 DEF DonateTo, TypeInv, OpAtStep
      <4>2. /\ dest'[r].wallet = w /\ ~dest'[r].new /\ pc'[r] = "insert" /\ seen'[r] = seen[r]
            /\ job[r].points > 0 /\ pc[r] = "to"
        BY <3>3, <4>1 DEF DonateTo, Goto, ValidTransfer, TypeInv, TypeOK, Dest
      <4> QED BY <3>1, <4>1, <4>2 DEF CallSound
    <3>4. CASE ContributeFrom(r, w)
      <4>1. /\ seen'[r].wallet = w /\ pc'[r] = "insert" /\ dest'[r] = dest[r]
            /\ job[r].op = "contribute" /\ job[r].points > 0
        BY <3>1, <3>4 DEF ContributeFrom, Goto, ValidTransfer, TypeInv, TypeOK
      <4>2. ~dest[r].new
        BY <4>1 DEF TypeInv, OpAtStep
      <4>3. dest[r].wallet \in Wallet
        BY <3>1, <4>1, WalletEnds DEF CallSound
      <4> QED BY <3>1, <4>1, <4>2, <4>3 DEF CallSound
    <3>5. CASE WithdrawFrom(r, w)
      <4>1. w[1] = job[r].user /\ job[r].op = "withdraw" /\ pc'[r] = "delete" /\ seen'[r].wallet = w
        BY <3>1, <3>5 DEF WithdrawFrom, LookupReturns, Target, WalletsOf, Goto, TypeInv, TypeOK
      <4>2. w /= CommunityWallet
        BY <3>1, <4>1, UsersAssumption DEF CallSound, CommunityWallet
      <4> QED BY <3>1, <4>1, <4>2 DEF CallSound
    <3> QED BY <2>3, <3>2, <3>3, <3>4, <3>5
  <2>4. ASSUME NEW r \in Requests, LookupRefreshes(r) \/ JoinIfNeeded(r) PROVE CallSound(r)'
    <3>1. CASE LookupRefreshes(r)
      BY <3>1, SameCall DEF LookupRefreshes, Same, CallsSound
    <3>2. CASE JoinIfNeeded(r)
      BY <3>2, DestOfJoin DEF JoinIfNeeded, Goto, CallSound, CallsSound, TypeInv, TypeOK
    <3> QED BY <2>4, <3>1, <3>2
  <2>5. ASSUME NEW r \in Requests, GrantWallet(r) PROVE CallSound(r)'
    <3>1. job[r].op = "grant" /\ job[r].other \in Users
      BY <2>5 DEF GrantWallet, TypeInv, OpAtStep
    <3>2. /\ job' = job /\ pc'[r] = "insert" /\ seen'[r].wallet = CommunityWallet
          /\ job[r].points > 0
      BY <2>5 DEF GrantWallet, Goto, Look, ValidTransfer, TypeInv, TypeOK
    <3>3. dest'[r].wallet \in Wallet
      <4>1. \A w \in WalletsOf(job[r].other) : w \in Wallet
        BY DEF WalletsOf, TypeInv, TypeOK
      <4>2. CASE Makes(r, job[r].other)
        BY <3>1, <2>5, <4>2, DestOfGrant DEF Makes, Wallet
      <4> QED BY <2>5, <4>1, <4>2, DestOfGrant DEF Finds
    <3> QED BY <3>1, <3>2, <3>3, WalletEnds DEF CallSound, CallsSound
  <2>6. ASSUME NEW r \in Requests, Insert(r) \/ Commit(r) PROVE CallSound(r)'
    BY <2>6, DestOfCommit DEF Insert, Commit, Goto, CallSound, CallsSound, TypeInv, TypeOK
  <2>7. ASSUME NEW r \in Requests, Refresh(r) PROVE CallSound(r)'
    <3>1. CASE Goto(r, "notify") /\ UNCHANGED <<job, seen, dest, retried, pend>>
      BY <3>1 DEF Goto, CallSound, CallsSound, TypeInv, TypeOK
    <3> QED BY <2>1, <2>7, <3>1 DEF Refresh
  <2>8. CASE UNCHANGED vars \/ RefreshBatch
    BY <2>8, SameCall DEF vars, RefreshBatch, Same, CallsSound
  <2>9. ASSUME NEW r \in Requests,
               \/ NewCall(r) \/ Finish(r) \/ LookupRefreshes(r) \/ JoinIfNeeded(r)
               \/ \E w \in wallets : \/ DonateFrom(r, w) \/ DonateTo(r, w)
                                     \/ ContributeFrom(r, w) \/ WithdrawFrom(r, w)
               \/ GrantWallet(r) \/ Insert(r) \/ Commit(r) \/ Refresh(r) \/ DeleteWallet(r)
        PROVE CallsSound'
    <3>1. \A q \in Requests \ {r} : CallSound(q)'
      BY <2>9, OthersSame, SameCall DEF CallsSound
    <3>2. CallSound(r)'
      BY <2>1, <2>2, <2>3, <2>4, <2>5, <2>6, <2>7, <2>9 DEF DeleteWallet
    <3> QED BY <3>1, <3>2 DEF CallsSound
  <2> QED BY <2>8, <2>9, StepKinds
<1> QED BY <1>1, <1>2, TypeAlways, PTL DEF Spec

-----------------------------------------------------------------------------
(* Wallet ids are handed out upwards, and no row that a request has read is *)
(* of a wallet that is still to be inserted.                                *)

GivenOut(w) == w[1] \in Users => w[2] <= minted[w[1]]
WalletsNumbered ==
  /\ CommunityWallet \in wallets
  /\ \A w \in wallets : GivenOut(w)
  /\ \A r \in Requests : GivenOut(seen[r].wallet)
  /\ \A q \in Requests : NewWallet(q) =>
       /\ dest[q].wallet \in Users \X (1..MaxGen)
       /\ GivenOut(dest[q].wallet)
       /\ \A r \in Requests : seen[r].wallet /= dest[q].wallet

LEMMA SeenChange ==
  ASSUME TypeInv, CommunityWallet \in wallets, [Next]_vars, NEW r \in Requests
  PROVE  \/ seen'[r] \in {seen[r], NoSight}
         \/ \E w \in wallets : seen'[r] = Look(w)
<1> USE DEF TypeInv, TypeOK
<1>1. CASE UNCHANGED vars \/ RefreshBatch
  BY <1>1 DEF vars, RefreshBatch
<1>2. ASSUME NEW q \in Requests, Finish(q) PROVE seen'[r] \in {seen[r], NoSight}
  BY <1>2 DEF Finish
<1>3. ASSUME NEW q \in Requests, NewCall(q) PROVE seen' = seen
  BY <1>3 DEF NewCall, CallIssue, CallGrant, CallDonate, CallContribute, CallWithdraw, Call
<1>4. ASSUME NEW q \in Requests, NEW w \in wallets,
             DonateFrom(q, w) \/ DonateTo(q, w) \/ ContributeFrom(q, w) \/ WithdrawFrom(q, w)
      PROVE  seen'[r] \in {seen[r], Look(w)}
  BY <1>4 DEF DonateFrom, DonateTo, ContributeFrom, WithdrawFrom
<1>5. ASSUME NEW q \in Requests, GrantWallet(q) PROVE seen'[r] \in {seen[r], Look(CommunityWallet)}
  BY <1>5 DEF GrantWallet
<1>6. ASSUME NEW q \in Requests, LookupRefreshes(q) \/ JoinIfNeeded(q) \/ Insert(q) \/ Commit(q) PROVE seen' = seen
  BY <1>6 DEF LookupRefreshes, JoinIfNeeded, Insert, Commit
<1>7. ASSUME NEW q \in Requests, Refresh(q) \/ DeleteWallet(q)
      PROVE seen'[r] \in {seen[r], NoSight}
  BY <1>2, <1>7 DEF Refresh, DeleteWallet
<1> QED BY <1>1, <1>2, <1>3, <1>4, <1>5, <1>6, <1>7, StepKinds

LEMMA MintedChange ==
  ASSUME [Next]_vars PROVE UNCHANGED minted \/ \E r \in Requests : GrantWallet(r)
<1>1. CASE UNCHANGED vars \/ RefreshBatch
  BY <1>1 DEF vars, RefreshBatch, database
<1>2. ASSUME NEW r \in Requests, NewCall(r) PROVE UNCHANGED minted
  BY <1>2 DEF NewCall, CallIssue, CallGrant, CallDonate, CallContribute, CallWithdraw, Call, database
<1>3. ASSUME NEW r \in Requests, NEW w \in wallets,
             DonateFrom(r, w) \/ DonateTo(r, w) \/ ContributeFrom(r, w) \/ WithdrawFrom(r, w)
      PROVE UNCHANGED minted
  BY <1>3 DEF DonateFrom, DonateTo, ContributeFrom, WithdrawFrom, database
<1>4. ASSUME NEW r \in Requests,
             LookupRefreshes(r) \/ JoinIfNeeded(r) \/ Insert(r) \/ Commit(r) \/ Refresh(r) \/ DeleteWallet(r)
      PROVE UNCHANGED minted
  BY <1>4 DEF LookupRefreshes, JoinIfNeeded, Insert, Commit, Refresh, DeleteWallet, database
<1> QED BY <1>1, <1>2, <1>3, <1>4, StepKinds DEF database

\* A step that does not commit a wallet leaves the others, but for the one it deletes.
LEMMA WalletsChange ==
  ASSUME [Next]_vars
  PROVE  \/ UNCHANGED wallets
         \/ \E r \in Requests : Commit(r)
         \/ \E r \in Requests : DeleteWallet(r)
<1>1. CASE UNCHANGED vars \/ RefreshBatch
  BY <1>1 DEF vars, RefreshBatch, database
<1>2. ASSUME NEW r \in Requests, NewCall(r) PROVE UNCHANGED wallets
  BY <1>2 DEF NewCall, CallIssue, CallGrant, CallDonate, CallContribute, CallWithdraw, Call, database
<1>3. ASSUME NEW r \in Requests, NEW w \in wallets,
             DonateFrom(r, w) \/ DonateTo(r, w) \/ ContributeFrom(r, w) \/ WithdrawFrom(r, w)
      PROVE UNCHANGED wallets
  BY <1>3 DEF DonateFrom, DonateTo, ContributeFrom, WithdrawFrom, database
<1>4. ASSUME NEW r \in Requests, LookupRefreshes(r) \/ JoinIfNeeded(r) \/ Insert(r) \/ Refresh(r) \/ GrantWallet(r)
      PROVE UNCHANGED wallets
  BY <1>4 DEF LookupRefreshes, JoinIfNeeded, Insert, Refresh, GrantWallet, database
<1> QED BY <1>1, <1>2, <1>3, <1>4, StepKinds DEF database

LEMMA CommunityWalletStays ==
  ASSUME TypeInv, CallsSound, CommunityWallet \in wallets, [Next]_vars
  PROVE  CommunityWallet \in wallets'
<1>1. ASSUME NEW r \in Requests, DeleteWallet(r) PROVE CommunityWallet \in wallets'
  BY <1>1 DEF DeleteWallet, CallsSound, CallSound
<1>2. ASSUME NEW r \in Requests, Commit(r) PROVE CommunityWallet \in wallets'
  BY <1>2 DEF Commit
<1> QED BY <1>1, <1>2, WalletsChange

LEMMA CommunityIsNoUser == CommunityWallet[1] \notin Users /\ NoWallet[1] \notin Users
  BY UsersAssumption DEF CommunityWallet, NoWallet

LEMMA NumberedInit == Init => NewWalletsApart /\ WalletsNumbered
<1> SUFFICES ASSUME Init PROVE NewWalletsApart /\ WalletsNumbered
  OBVIOUS
<1>1. \A w \in wallets : GivenOut(w)
  BY CommunityIsNoUser DEF Init, GivenOut
<1>2. \A r \in Requests : seen[r].wallet = NoWallet /\ ~dest[r].new
  BY DEF Init, NoSight, NoDest
<1> QED BY <1>1, <1>2, CommunityIsNoUser
        DEF Init, WalletsNumbered, GivenOut, NewWallet, NewWalletsApart

\* A grant gives its wallet the next id there is for the user.
LEMMA NumberedStep ==
  TypeInv /\ CallsSound /\ NewWalletsApart /\ WalletsNumbered /\ [Next]_vars => WalletsNumbered'
<1> SUFFICES ASSUME TypeInv, CallsSound, NewWalletsApart, WalletsNumbered, [Next]_vars
             PROVE  WalletsNumbered'
  OBVIOUS
<1> USE DEF NewWallet
<1>1. CommunityWallet \in wallets'
  BY CommunityWalletStays DEF WalletsNumbered
<1>2. \A r \in Requests : \/ seen'[r].wallet = seen[r].wallet
                          \/ seen'[r].wallet \in wallets \cup {NoWallet}
  <2> TAKE r \in Requests
  <2>1. CommunityWallet \in wallets
    BY DEF WalletsNumbered
  <2>2. \/ seen'[r] \in {seen[r], NoSight}
        \/ \E w \in wallets : seen'[r] = Look(w)
    BY <2>1, SeenChange
  <2>3. NoSight.wallet = NoWallet /\ \A w : Look(w).wallet = w
    BY DEF Look, NoSight
  <2> QED BY <2>2, <2>3
<1>3. CASE UNCHANGED minted
  <2>1. \A w : GivenOut(w)' <=> GivenOut(w)
    BY <1>3 DEF GivenOut
  <2>2. \A r \in Requests : GivenOut(seen'[r].wallet)
    BY <1>2, CommunityIsNoUser DEF WalletsNumbered, GivenOut
  <2>3. ASSUME NEW q \in Requests, NewWallet(q)
        PROVE  /\ dest[q].wallet \notin wallets /\ dest[q].wallet /= NoWallet
               /\ \A r \in Requests : seen'[r].wallet /= dest[q].wallet
    <3>1. dest[q].wallet \notin wallets
      BY <2>3 DEF NewWalletsApart
    <3>2. dest[q].wallet /= NoWallet
      BY <2>3, CommunityIsNoUser DEF WalletsNumbered
    <3> QED BY <1>2, <2>3, <3>1, <3>2 DEF WalletsNumbered
  <2>4. CASE /\ wallets' \subseteq wallets
             /\ \A r \in Requests : NewWallet(r)' =>
                  NewWallet(r) /\ dest'[r] = dest[r] /\ job'[r] = job[r]
    BY <1>1, <2>1, <2>2, <2>3, <2>4 DEF WalletsNumbered, GivenOut
  <2>5. ASSUME NEW r \in Requests, Commit(r) PROVE WalletsNumbered'
    <3>1. wallets' \subseteq wallets \cup (IF NewWallet(r) THEN {dest[r].wallet} ELSE {})
      BY <2>5 DEF Commit
    <3>2. \A q \in Requests : NewWallet(q)' => NewWallet(q) /\ dest'[q].wallet = dest[q].wallet
      BY <2>5, DestOfCommit
    <3> QED BY <1>1, <2>1, <2>2, <2>3, <3>1, <3>2 DEF WalletsNumbered, GivenOut
  <2>6. ASSUME NEW r \in Requests, GrantWallet(r) PROVE WalletsNumbered'
    <3>1. wallets' = wallets
      BY <2>6 DEF GrantWallet
    <3>2. \A q \in Requests : NewWallet(q)' => NewWallet(q) /\ dest'[q] = dest[q]
      <4>1. minted[job[r].other] + 1 /= minted[job[r].other]
        BY <2>6, DestOfGrant
      <4>2. ~Makes(r, job[r].other)
        BY <1>3, <2>6, <4>1, DestOfGrant DEF Makes, TypeInv, TypeOK
      <4> QED BY <2>6, <4>2, DestOfGrant DEF Finds
    <3> QED BY <1>1, <2>1, <2>2, <2>3, <3>1, <3>2 DEF WalletsNumbered, GivenOut
  <2> QED BY <2>4, <2>5, <2>6, WalletChange
<1>4. ASSUME NEW r \in Requests, GrantWallet(r), ~UNCHANGED minted PROVE WalletsNumbered'
  <2> DEFINE u == job[r].other
             new == <<u, minted[u] + 1>>
  <2>1. u \in Users /\ Makes(r, u)
    BY <1>4, DestOfGrant DEF Finds
  <2>2. minted[u] \in Nat /\ minted[u] < MaxGen
    BY <1>4, <2>1, DestOfGrant DEF Makes
  <2>3. minted' = [minted EXCEPT ![u] = @ + 1] /\ wallets' = wallets
    BY <1>4, <2>1 DEF GrantWallet, Makes
  <2>4. dest'[r].wallet = new /\ \A q \in Requests \ {r} : dest'[q] = dest[q]
    BY <1>4, <2>1, DestOfGrant DEF Makes
  <2>5. ASSUME NEW w \in End, GivenOut(w) PROVE GivenOut(w)' /\ w /= new
    <3>1. \A v \in Users : minted[v] \in Nat /\ minted'[v] = IF v = u THEN minted[v] + 1 ELSE minted[v]
      BY <2>1, <2>3 DEF TypeInv, TypeOK
    <3>2. w[1] \in Users => w[2] \in Nat
      BY <2>5, CommunityIsNoUser DEF End, Wallet
    <3> QED BY <2>1, <2>5, <3>1, <3>2 DEF GivenOut
  <2>6. \A w \in wallets : w \in End /\ GivenOut(w)
    BY WalletEnds DEF WalletsNumbered, TypeInv, TypeOK
  <2>7. \A q \in Requests : seen'[q].wallet \in End /\ GivenOut(seen'[q].wallet)
    <3>1. NoWallet \in End /\ GivenOut(NoWallet)
      BY WalletEnds, CommunityIsNoUser DEF GivenOut
    <3>2. \A q \in Requests : seen[q].wallet \in End /\ GivenOut(seen[q].wallet)
      BY DEF WalletsNumbered, TypeInv, TypeOK, Sight
    <3> QED BY <1>2, <2>6, <3>1, <3>2
  <2>8. ASSUME NEW q \in Requests \ {r}, NewWallet(q)
        PROVE  /\ dest[q].wallet \in Users \X (1..MaxGen) /\ GivenOut(dest[q].wallet)'
               /\ \A p \in Requests : seen'[p].wallet /= dest[q].wallet
    <3>1. dest[q].wallet \in End /\ GivenOut(dest[q].wallet)
          /\ dest[q].wallet \in Users \X (1..MaxGen)
      BY <2>8 DEF WalletsNumbered, TypeInv, TypeOK, Dest
    <3>2. dest[q].wallet \notin wallets /\ dest[q].wallet /= NoWallet
      BY <2>8, <3>1, CommunityIsNoUser DEF NewWalletsApart
    <3>3. GivenOut(dest[q].wallet)'
      <4> DEFINE w == dest[q].wallet
      <4>1. w \in End /\ GivenOut(w)
        BY <3>1
      <4> HIDE DEF w
      <4>2. w[1] \in Users => w[2] <= minted'[w[1]]
        BY <2>5, <4>1 DEF GivenOut
      <4>3. w = dest'[q].wallet
        BY <2>4, <2>8 DEF w, TypeInv, TypeOK
      <4> QED BY <4>2, <4>3 DEF GivenOut
    <3> QED BY <1>2, <2>8, <3>1, <3>2, <3>3 DEF WalletsNumbered
  <2>9. new \in Users \X (1..MaxGen) /\ new[1] = u /\ new[2] = minted'[u]
    BY <2>1, <2>2, <2>3, BoundAssumption DEF TypeInv, TypeOK
  <2> HIDE DEF new, u
  <2>11. GivenOut(dest[r].wallet)'
    BY <2>9, <2>4, <2>2, <2>3, <2>1 DEF GivenOut, TypeInv, TypeOK
  <2>12. (\A w \in wallets : GivenOut(w))' /\ (\A q \in Requests : GivenOut(seen[q].wallet))'
    BY <2>3, <2>5, <2>6, <2>7 DEF GivenOut
  <2> QED BY <1>1, <2>5, <2>7, <2>8, <2>4, <2>9, <2>11, <2>12 DEF WalletsNumbered
<1> QED BY <1>3, <1>4, MintedChange

\* No wallet has that id, neither one that is committed nor one that waits to be.
LEMMA ApartStep ==
  TypeInv /\ NewWalletsApart /\ WalletsNumbered /\ [Next]_vars => NewWalletsApart'
<1> SUFFICES ASSUME TypeInv, NewWalletsApart, WalletsNumbered, [Next]_vars PROVE NewWalletsApart'
  OBVIOUS
<1> USE DEF NewWallet
<1>1. CASE /\ wallets' \subseteq wallets
           /\ \A r \in Requests : NewWallet(r)' =>
                NewWallet(r) /\ dest'[r] = dest[r] /\ job'[r] = job[r]
  BY <1>1 DEF NewWalletsApart
<1>2. ASSUME NEW r \in Requests, GrantWallet(r) PROVE NewWalletsApart'
  <2> DEFINE u == job[r].other
             new == <<u, minted[u] + 1>>
  <2>1. wallets' = wallets /\ \A q \in Requests \ {r} : dest'[q] = dest[q]
    BY <1>2, DestOfGrant DEF GrantWallet
  <2>2. u \in Users /\ minted[u] \in Nat
    BY <1>2, DestOfGrant
  <2>3. NewWallet(r)' => dest'[r].wallet = new
    BY <1>2, DestOfGrant DEF Finds, Makes
  <2>4. \A w \in End : GivenOut(w) => w /= new
    BY <2>2 DEF GivenOut
  <2> HIDE DEF new
  <2>5. new \notin wallets
    BY <2>4, WalletEnds DEF WalletsNumbered, TypeInv, TypeOK
  <2>6. \A q \in Requests : NewWallet(q) => dest[q].wallet /= new
    BY <2>4 DEF WalletsNumbered, TypeInv, TypeOK, Dest
  <2> QED BY <2>1, <2>3, <2>5, <2>6 DEF NewWalletsApart
<1>3. ASSUME NEW r \in Requests, Commit(r) PROVE NewWalletsApart'
  <2>1. ~NewWallet(r)' /\ \A q \in Requests \ {r} : dest'[q] = dest[q]
    BY <1>3, DestOfCommit
  <2>3. wallets' = wallets \/ (NewWallet(r) /\ wallets' = wallets \cup {dest[r].wallet})
    BY <1>3 DEF Commit
  <2> QED BY <2>1, <2>3 DEF NewWalletsApart
<1> QED BY <1>1, <1>2, <1>3, WalletChange

LEMMA NumberedAlways == Spec => [](NewWalletsApart /\ WalletsNumbered)
  BY NumberedInit, NumberedStep, ApartStep, TypeAlways, CallAlways, PTL DEF Spec

-----------------------------------------------------------------------------
(* The rows of the ledger and those that wait for their commit: no id is   *)
(* used twice, and both ends of a row are live wallets or NULL.            *)

IdsApart ==
  /\ \A t, e \in ledger : t.id = e.id => t = e
  /\ \A r \in Requests : pc[r] = "commit" =>
       /\ pend[r].id \notin Ids(ledger)
       /\ \A q \in Requests \ {r} : pc[q] = "commit" => pend[q].id /= pend[r].id
FiniteTables == IsFiniteSet(ledger) /\ IsFiniteSet(wallets)
EndsLive == \A t \in ledger : {t.from, t.to} \subseteq wallets \cup {NoWallet}
ReadCommitted ==
  /\ view \subseteq Ids(ledger)
  /\ \A r \in Requests : seen[r].basis \subseteq Ids(ledger)
PendingSound(r) ==
  pc[r] = "commit" =>
    /\ pend[r].points \in Amounts
    /\ pend[r].from \in wallets \cup {NoWallet}
    /\ IF NewWallet(r) THEN pend[r].to = dest[r].wallet /\ pend[r].from = CommunityWallet
       ELSE pend[r].to \in wallets
    /\ pend[r].from = NoWallet <=> pend[r].reason = "POINT_ISSUED"
    /\ IF pend[r].from = NoWallet THEN pend[r].to = CommunityWallet ELSE pend[r].points > 0

RowInv ==
  IdsApart /\ FiniteTables /\ EndsLive /\ ReadCommitted /\ \A r \in Requests : PendingSound(r)

LEMMA CommittingSame ==
  ASSUME TypeInv, [Next]_vars, NEW r \in Requests, pc'[r] = "commit"
  PROVE  (Same(r) /\ pc[r] = "commit") \/ Insert(r)
<1>1. CASE UNCHANGED vars \/ RefreshBatch
  BY <1>1 DEF vars, RefreshBatch, Same
<1>2. ASSUME NEW q \in Requests,
             \/ NewCall(q) \/ Finish(q) \/ LookupRefreshes(q) \/ JoinIfNeeded(q)
             \/ \E w \in wallets : \/ DonateFrom(q, w) \/ DonateTo(q, w)
                                   \/ ContributeFrom(q, w) \/ WithdrawFrom(q, w)
             \/ GrantWallet(q) \/ Insert(q) \/ Commit(q) \/ Refresh(q) \/ DeleteWallet(q),
             q /= r
      PROVE  Same(r) /\ pc[r] = "commit"
  <2>1. Same(r)
    BY <1>2, OthersSame
  <2> QED BY <2>1 DEF Same
<1>3. (pc[r] = "commit" /\ pend'[r] = pend[r]) \/ Insert(r)
  BY CommittingRequest
<1>4. CASE pc[r] = "commit"
  <2>1. ~NewCall(r) /\ ~DeleteWallet(r) /\ ~GrantWallet(r) /\ ~Insert(r) /\ ~Refresh(r) /\ ~LookupRefreshes(r)
        /\ ~JoinIfNeeded(r)
    BY <1>4 DEF NewCall, CallIssue, CallGrant, CallDonate, CallContribute, CallWithdraw, Call,
       DeleteWallet, GrantWallet, Insert, Refresh, LookupRefreshes, JoinIfNeeded, LookingUp
  <2>2. \A w \in wallets : ~DonateFrom(r, w) /\ ~DonateTo(r, w) /\ ~ContributeFrom(r, w) /\ ~WithdrawFrom(r, w)
    BY <1>4 DEF DonateFrom, DonateTo, ContributeFrom, WithdrawFrom
  <2>3. ~Finish(r) /\ ~Commit(r)
    BY DEF Finish, Commit, Goto, TypeInv, TypeOK
  <2> QED BY <1>1, <1>2, <2>1, <2>2, <2>3, StepKinds
<1> QED BY <1>3, <1>4

LEMMA DetachFields ==
  ASSUME NEW t \in Tx, NEW w
  PROVE  /\ Detach(t, w).id = t.id /\ Detach(t, w).reason = t.reason
         /\ Detach(t, w).points = t.points /\ Detach(t, w).counted = t.counted
         /\ Detach(t, w).from = IF t.from = w THEN NoWallet ELSE t.from
         /\ Detach(t, w).to = IF t.to = w THEN NoWallet ELSE t.to
  BY DEF Detach, Tx

LEMMA InsertedRow ==
  ASSUME TypeInv, CallsSound, NEW r \in Requests, Insert(r)
  PROVE  /\ pend'[r].id = clock + 1 /\ \A q \in Requests \ {r} : pend'[q] = pend[q]
         /\ pend'[r].counted = Ids(Outgoing(seen[r].basis, seen[r].wallet))
         /\ pend'[r].from = seen[r].wallet /\ pend'[r].points = job[r].points
         /\ PendingSound(r)'
<1>1. PICK parent \in LatestReceived(seen[r].wallet) :
        pend' = [pend EXCEPT ![r] = NewTx(r, parent)]
  BY DEF Insert
<1>2. pend'[r] = NewTx(r, parent) /\ \A q \in Requests \ {r} : pend'[q] = pend[q]
  BY <1>1 DEF TypeInv, TypeOK
<1>3. /\ pend'[r].id = clock + 1 /\ pend'[r].reason = ReasonOf[job[r].op]
      /\ pend'[r].from = seen[r].wallet /\ pend'[r].to = dest[r].wallet
      /\ pend'[r].points = job[r].points
      /\ pend'[r].counted = Ids(Outgoing(seen[r].basis, seen[r].wallet))
  BY <1>2 DEF NewTx
<1>4. pc[r] = "insert" /\ job[r].op \in DOMAIN ReasonOf /\ CallSound(r) /\ EndsExist(r)
      /\ UNCHANGED <<wallets, dest>>
  BY DEF Insert, TypeInv, OpAtStep, CallsSound
<1>5. NoWallet \notin Wallet /\ NoWallet /= CommunityWallet
  BY UsersAssumption DEF NoWallet, Wallet, CommunityWallet
<1>6. CASE job[r].op = "issue"
  <2>1. pend'[r].from = NoWallet /\ pend'[r].reason = "POINT_ISSUED" /\ pend'[r].to = CommunityWallet
    BY <1>3, <1>4, <1>6 DEF CallSound, NoSight, ReasonOf
  <2>2. ~dest[r].new
    BY <1>6 DEF TypeInv, OpAtStep
  <2>3. pend'[r].to \in wallets
    BY <1>3, <1>4, <2>2 DEF EndsExist
  <2>4. pend'[r].points \in Amounts
    BY <1>3, <1>4 DEF CallSound
  <2> QED BY <1>2, <1>3, <1>4, <2>1, <2>2, <2>3, <2>4 DEF PendingSound, NewWallet
<1>7. CASE job[r].op /= "issue"
  <2>1. pend'[r].from \in Wallet /\ pend'[r].points > 0 /\ pend'[r].points \in Amounts
    BY <1>3, <1>4, <1>7 DEF CallSound
  <2>2. pend'[r].reason /= "POINT_ISSUED"
    BY <1>3, <1>4, <1>7 DEF ReasonOf
  <2>3. pend'[r].from \in wallets \cup {NoWallet}
    BY <1>3, <1>4 DEF EndsExist
  <2>4. IF dest[r].new THEN pend'[r].to = dest[r].wallet /\ pend'[r].from = CommunityWallet
        ELSE pend'[r].to \in wallets
    BY <1>3, <1>4, <1>7 DEF EndsExist, CallSound
  <2> QED BY <1>2, <1>3, <1>4, <1>5, <2>1, <2>2, <2>3, <2>4 DEF PendingSound, NewWallet
<1> QED BY <1>6, <1>7

LEMMA RowAlways == Spec => []RowInv
<1>1. Init => RowInv
  <2> SUFFICES ASSUME Init PROVE RowInv
    OBVIOUS
  <2>1. IsFiniteSet(wallets)
    <3>1. IsFiniteSet({[v \in Members |-> <<v, 1>>][u] : u \in Members})
      BY MemberAssumption, FiniteImage
    <3>2. {[v \in Members |-> <<v, 1>>][u] : u \in Members} = {<<u, 1>> : u \in Members}
      OBVIOUS
    <3>3. IsFiniteSet({<<u, 1>> : u \in Members} \cup {CommunityWallet})
      BY <3>1, <3>2, FS_AddElement
    <3>4. wallets = {<<u, 1>> : u \in Members} \cup {CommunityWallet}
      BY DEF Init
    <3> QED BY <3>3, <3>4
  <2> QED BY <2>1, FS_EmptySet DEF Init, RowInv, IdsApart, FiniteTables, EndsLive, ReadCommitted,
             PendingSound, NoSight
<1>2. TypeInv /\ TypeInv' /\ CallsSound /\ ChainInv /\ WalletsNumbered /\ RowInv /\ [Next]_vars => RowInv'
  <2> SUFFICES ASSUME TypeInv, TypeInv', CallsSound, ChainInv, WalletsNumbered, RowInv, [Next]_vars
               PROVE  RowInv'
    OBVIOUS
  <2>1. \A t \in ledger : t \in Tx /\ t.id \in Nat /\ t.id <= clock
    BY DEF TypeInv, TypeOK, Tx, ChainInv, IdsHandedOut
  <2>2. \A r \in Requests : pend[r].id \in Nat /\ (pc[r] = "commit" => pend[r].id <= clock)
    BY DEF TypeInv, TypeOK, Tx, ChainInv, IdsHandedOut
  <2>3. ReadCommitted'
    <3>1. Ids(ledger) \subseteq Ids(ledger')
      BY IdsGrow
    <3>2. view' \subseteq Ids(ledger')
      BY <3>1, ViewChange DEF RowInv, ReadCommitted
    <3>3. ASSUME NEW r \in Requests PROVE seen'[r].basis \subseteq Ids(ledger')
      <4>1. NoSight.basis = {} /\ \A w : Look(w).basis = RowOf(w)
        BY DEF NoSight, Look
      <4>2. \A w : RowOf(w) \subseteq Ids(ledger)
        BY DEF RowOf, Ids, Incoming, Outgoing
      <4>3. seen[r].basis \subseteq Ids(ledger)
        BY DEF RowInv, ReadCommitted
      <4>4. \/ seen'[r] \in {seen[r], NoSight}
            \/ \E w \in wallets : seen'[r] = Look(w)
        BY SeenChange DEF WalletsNumbered
      <4> QED BY <3>1, <4>1, <4>2, <4>3, <4>4
    <3> QED BY <3>2, <3>3 DEF ReadCommitted, Ids
  <2>4. ASSUME NEW r \in Requests, pc'[r] = "commit",
               pend'[r].id \notin Ids(ledger) \/ Same(r)
        PROVE  \A q \in Requests \ {r} : pc'[q] = "commit" => pend'[q].id /= pend'[r].id
    <3> TAKE q \in Requests \ {r}
    <3> HAVE pc'[q] = "commit"
    <3>1. ASSUME NEW p \in Requests, Insert(p), NEW o \in Requests \ {p}, pc[o] = "commit"
          PROVE  pend'[p].id /= pend'[o].id
      BY <2>2, <3>1, InsertedRow DEF TypeInv, TypeOK
    <3>2. ~(Insert(r) /\ Insert(q))
      BY <2>4 DEF Insert, Goto, TypeInv, TypeOK
    <3>3. CASE Same(r) /\ pc[r] = "commit" /\ Same(q) /\ pc[q] = "commit"
      BY <3>3 DEF Same, RowInv, IdsApart
    <3> QED BY <2>4, <3>1, <3>2, <3>3, CommittingSame
  <2>5. ASSUME NEW r \in Requests, Insert(r) PROVE pend'[r].id \notin Ids(ledger)
    <3>1. pend'[r].id = clock + 1
      BY <2>5, InsertedRow
    <3> QED BY <2>1, <3>1 DEF Ids, TypeInv, TypeOK
  <2>6. ASSUME NEW r \in Requests, pc'[r] = "commit", ~Insert(r)
        PROVE  /\ Same(r) /\ pc[r] = "commit" /\ PendingSound(r)
               /\ pend[r].id \notin Ids(ledger)
    BY <2>6, CommittingSame DEF RowInv, IdsApart
  <2>7. CASE UNCHANGED <<ledger, wallets>>
    <3>1. IdsApart'
      <4>1. \A r \in Requests : pc'[r] = "commit" => pend'[r].id \notin Ids(ledger)
        BY <2>5, <2>6 DEF Same
      <4> QED BY <2>4, <2>7, <4>1 DEF RowInv, IdsApart, Ids
    <3>2. FiniteTables' /\ EndsLive'
      BY <2>7 DEF RowInv, FiniteTables, EndsLive
    <3>3. \A r \in Requests : PendingSound(r)'
      BY <2>6, <2>7, InsertedRow DEF Same, PendingSound, NewWallet
    <3> QED BY <2>3, <3>1, <3>2, <3>3 DEF RowInv
  <2>8. ASSUME NEW r \in Requests, Commit(r) PROVE RowInv'
    <3>1. /\ pc[r] = "commit" /\ ledger' = ledger \cup {pend[r]} /\ pend' = pend
          /\ wallets' = IF NewWallet(r) THEN wallets \cup {dest[r].wallet} ELSE wallets
      BY <2>8 DEF Commit, NewWallet
    <3>2. PendingSound(r) /\ pend[r].id \notin Ids(ledger)
      BY <3>1 DEF RowInv, IdsApart
    <3>3. ASSUME NEW q \in Requests, pc'[q] = "commit"
          PROVE  q /= r /\ pc[q] = "commit" /\ dest'[q] = dest[q]
      BY <2>8, <3>3 DEF Commit, Goto, TypeInv, TypeOK
    <3>4. IdsApart'
      <4>1. \A t, e \in ledger' : t.id = e.id => t = e
        BY <3>1, <3>2 DEF RowInv, IdsApart, Ids
      <4>2. \A q \in Requests : pc'[q] = "commit" =>
              /\ pend'[q].id \notin Ids(ledger')
              /\ \A p \in Requests \ {q} : pc'[p] = "commit" => pend'[p].id /= pend'[q].id
        BY <3>1, <3>3 DEF RowInv, IdsApart, Ids
      <4> QED BY <4>1, <4>2 DEF IdsApart, Ids
    <3>5. FiniteTables'
      BY <3>1, FS_AddElement DEF RowInv, FiniteTables
    <3>6. EndsLive'
      BY <3>1, <3>2 DEF RowInv, EndsLive, PendingSound
    <3>7. \A q \in Requests : PendingSound(q)'
      BY <3>1, <3>3 DEF RowInv, PendingSound, NewWallet
    <3> QED BY <2>3, <3>4, <3>5, <3>6, <3>7 DEF RowInv
  <2>9. ASSUME NEW r \in Requests, DeleteWallet(r) PROVE RowInv'
    <3> DEFINE w == seen[r].wallet
    <3>1. /\ ledger' = {Detach(t, w) : t \in ledger} /\ wallets' = wallets \ {w}
          /\ ~Referenced(w) /\ w \in wallets
      BY <2>9 DEF DeleteWallet
    <3> HIDE DEF w
    <3>2. Ids(ledger') = Ids(ledger)
      BY <3>1, DetachIds
    <3>3. \A q \in Requests : ~Insert(q)
      BY <2>9 DEF DeleteWallet, Insert, Finish, Goto, TypeInv, TypeOK
    <3>4. IdsApart'
      <4>1. ASSUME NEW t \in ledger', NEW e \in ledger', t.id = e.id PROVE t = e
        <5>1. PICK t0 \in ledger : t = Detach(t0, w)
          BY <3>1
        <5>2. PICK e0 \in ledger : e = Detach(e0, w)
          BY <3>1
        <5>3. t0.id = e0.id
          BY <2>1, <4>1, <5>1, <5>2, DetachFields
        <5> QED BY <5>1, <5>2, <5>3 DEF RowInv, IdsApart
      <4>2. \A q \in Requests : pc'[q] = "commit" => pend'[q].id \notin Ids(ledger')
        BY <2>6, <3>2, <3>3 DEF Same
      <4>3. \A q \in Requests : pc'[q] = "commit" =>
              \A p \in Requests \ {q} : pc'[p] = "commit" => pend'[p].id /= pend'[q].id
        BY <2>4, <2>6, <3>3
      <4> QED BY <4>1, <4>2, <4>3 DEF IdsApart, Ids
    <3>5. FiniteTables'
      <4>1. IsFiniteSet({[e \in ledger |-> Detach(e, w)][t] : t \in ledger})
        BY FiniteImage DEF RowInv, FiniteTables
      <4>2. {[e \in ledger |-> Detach(e, w)][t] : t \in ledger} = ledger'
        BY <3>1
      <4> QED BY <3>1, <4>1, <4>2, FS_RemoveElement DEF RowInv, FiniteTables
    <3>6. EndsLive'
      <4> SUFFICES ASSUME NEW t \in ledger' PROVE {t.from, t.to} \subseteq wallets' \cup {NoWallet}
        BY DEF EndsLive
      <4>1. PICK e \in ledger : t = Detach(e, w)
        BY <3>1
      <4>2. {e.from, e.to} \subseteq wallets \cup {NoWallet}
        BY DEF RowInv, EndsLive
      <4>3. /\ t.from = IF e.from = w THEN NoWallet ELSE e.from
            /\ t.to = IF e.to = w THEN NoWallet ELSE e.to
        BY <2>1, <4>1, DetachFields
      <4> QED BY <3>1, <4>2, <4>3
    <3>7. ASSUME NEW q \in Requests PROVE PendingSound(q)'
      <4>1. SUFFICES ASSUME pc'[q] = "commit" PROVE PendingSound(q)'
        BY DEF PendingSound
      <4>2. Same(q) /\ pc[q] = "commit" /\ PendingSound(q)
        BY <2>6, <3>3, <4>1
      <4>3. pend[q].from /= w /\ pend[q].to /= w
        BY <3>1, <4>2 DEF Referenced
      <4> QED BY <3>1, <4>2, <4>3 DEF Same, PendingSound, NewWallet
    <3> QED BY <2>3, <3>4, <3>5, <3>6, <3>7 DEF RowInv
  <2> QED BY <2>7, <2>8, <2>9, LedgerChange, WalletsChange
<1> QED BY <1>1, <1>2, TypeAlways, CallAlways, ChainAlways, NumberedAlways, PTL DEF Spec

-----------------------------------------------------------------------------
(* Sums of points over rows.                                               *)

Held(S) == Total([t \in S |-> t.points], S)

LEMMA PointsTotal ==
  ASSUME NEW S, IsFiniteSet(S)
  PROVE  MapThenSumSet(Points, S) = Total([t \in S |-> t.points], S)
<1> DEFINE f == [t \in S |-> t.points]
           Q(g) == g = [s \in SUBSET S |->
                          IF s = {} THEN 0
                          ELSE Points(CHOOSE x \in s : TRUE) + g[s \ {CHOOSE x \in s : TRUE}]]
           h == CHOOSE g : Q(g)
<1>1. \A g : Q(g) <=> PartialSums(g, f, S)
  BY FirstIn DEF PartialSums, Points, First
<1>2. MapThenSumSet(Points, S) = h[S]
  BY DEF MapThenSumSet, MapThenFoldSet
<1> HIDE DEF f, Q
<1>3. Q(h)
  BY <1>1, PartialSumsExist
<1> HIDE DEF h
<1> QED BY <1>1, <1>2, <1>3, PartialSumsGiveTotal DEF f

LEMMA HeldNone == Held({}) = 0
  BY TotalOfNone DEF Held

LEMMA HeldInt ==
  ASSUME NEW S \in SUBSET Tx, IsFiniteSet(S)
  PROVE  Held(S) \in Int
<1> DEFINE f == [t \in S |-> t.points]
<1>1. \A t \in S : f[t] \in Int
  BY DEF Tx
<1> HIDE DEF f
<1>2. Total(f, S) \in Int
  BY <1>1, TotalInt
<1> QED BY <1>2 DEF Held, f

LEMMA HeldAdd ==
  ASSUME NEW S \in SUBSET Tx, IsFiniteSet(S), NEW t \in Tx, t \notin S
  PROVE  Held(S \cup {t}) = Held(S) + t.points
<1> DEFINE T == S \cup {t}
           f == [e \in T |-> e.points]
           g == [e \in S |-> e.points]
<1>1. /\ \A e \in T : f[e] \in Int
      /\ \A e \in S : f[e] = g[e]
      /\ f[t] = t.points
  BY DEF Tx
<1> HIDE DEF f, g
<1>2. Total(f, T) = f[t] + Total(f, S)
  BY <1>1, TotalAdd
<1>3. Total(f, S) = Total(g, S) /\ Total(f, S) \in Int
  BY <1>1, TotalAgree, TotalInt
<1>4. Held(T) = Total(f, T) /\ Held(S) = Total(g, S) /\ t.points \in Int
  BY DEF Held, f, g, Tx
<1> QED BY <1>1, <1>2, <1>3, <1>4

LEMMA HeldMonotone ==
  ASSUME NEW S \in SUBSET Tx, IsFiniteSet(S), NEW T \in SUBSET S, \A t \in S \ T : t.points >= 0
  PROVE  Held(T) <= Held(S)
<1> DEFINE f == [e \in S |-> e.points]
           g == [e \in T |-> e.points]
<1>1. /\ \A e \in S : f[e] \in Int
      /\ \A e \in T : f[e] = g[e]
      /\ \A e \in S \ T : f[e] >= 0
  BY DEF Tx
<1>2. IsFiniteSet(T)
  BY FS_Subset
<1> HIDE DEF f, g
<1>3. Total(f, T) <= Total(f, S) /\ Total(f, T) = Total(g, T)
  BY <1>1, <1>2, TotalMonotone, TotalAgree
<1> QED BY <1>3 DEF Held, f, g

LEMMA HeldImage ==
  ASSUME NEW S \in SUBSET Tx, IsFiniteSet(S), NEW h,
         \A t \in S : h[t].points = t.points, \A t, e \in S : h[t] = h[e] => t = e
  PROVE  Held({h[t] : t \in S}) = Held(S)
<1> DEFINE T == {h[t] : t \in S}
           f == [e \in T |-> e.points]
           g == [e \in S |-> e.points]
<1>1. \A t \in S : g[t] \in Int /\ f[h[t]] = g[t]
  BY DEF Tx
<1> HIDE DEF f, g
<1>2. Total(f, T) = Total(g, S)
  BY <1>1, TotalImage
<1> QED BY <1>2 DEF Held, f, g

-----------------------------------------------------------------------------
(* What each step does to the balances.                                    *)

Owns(w) == Held({t \in ledger : t.to = w}) - Held({t \in ledger : t.from = w})
Account == [w \in wallets |-> Owns(w)]

LEMMA BalanceIsOwns ==
  ASSUME FiniteTables
  PROVE  \A w : Balance(Ids(ledger), w) = Owns(w)
<1> TAKE w
<1>1. /\ Incoming(Ids(ledger), w) = {t \in ledger : t.to = w}
      /\ Outgoing(Ids(ledger), w) = {t \in ledger : t.from = w}
  BY DEF Incoming, Outgoing, Ids
<1>2. /\ IsFiniteSet({t \in ledger : t.to = w}) /\ IsFiniteSet({t \in ledger : t.from = w})
  <2>1. {t \in ledger : t.to = w} \in SUBSET ledger /\ {t \in ledger : t.from = w} \in SUBSET ledger
    OBVIOUS
  <2> QED BY <2>1, FS_Subset DEF FiniteTables
<1>3. /\ MapThenSumSet(Points, {t \in ledger : t.to = w}) = Held({t \in ledger : t.to = w})
      /\ MapThenSumSet(Points, {t \in ledger : t.from = w}) = Held({t \in ledger : t.from = w})
  BY <1>2, PointsTotal DEF Held
<1> QED BY <1>1, <1>3 DEF Balance, Owns

LEMMA SomeRows ==
  ASSUME TypeInv, FiniteTables, NEW S \in SUBSET ledger
  PROVE  IsFiniteSet(S) /\ S \in SUBSET Tx /\ Held(S) \in Int
<1>1. IsFiniteSet(S) /\ S \in SUBSET Tx
  BY FS_Subset DEF FiniteTables, TypeInv, TypeOK
<1> QED BY <1>1, HeldInt

LEMMA OwnsInt == ASSUME TypeInv, FiniteTables PROVE \A w : Owns(w) \in Int
<1> TAKE w
<1>1. Held({t \in ledger : t.to = w}) \in Int /\ Held({t \in ledger : t.from = w}) \in Int
  BY SomeRows
<1> QED BY <1>1 DEF Owns

\* A committed row adds to one side of the sums of its two ends.
LEMMA OwnsAfterCommit ==
  ASSUME TypeInv, RowInv, NEW r \in Requests, Commit(r), NEW w
  PROVE  Owns(w)' = Owns(w) + (IF pend[r].to = w THEN pend[r].points ELSE 0)
                            - (IF pend[r].from = w THEN pend[r].points ELSE 0)
<1> DEFINE p == pend[r]
           I == {t \in ledger : t.to = w}
           O == {t \in ledger : t.from = w}
<1>1. ledger' = ledger \cup {p} /\ p \notin ledger /\ p \in Tx /\ p.points \in Int
  BY DEF Commit, RowInv, IdsApart, Ids, TypeInv, TypeOK, Tx
<1>2. /\ {t \in ledger' : t.to = w} = IF p.to = w THEN I \cup {p} ELSE I
      /\ {t \in ledger' : t.from = w} = IF p.from = w THEN O \cup {p} ELSE O
      /\ p \notin I /\ p \notin O
  BY <1>1
<1>3. /\ IsFiniteSet(I) /\ I \in SUBSET Tx /\ Held(I) \in Int
      /\ IsFiniteSet(O) /\ O \in SUBSET Tx /\ Held(O) \in Int
  BY SomeRows DEF RowInv
<1>4. Owns(w) = Held(I) - Held(O)
  BY DEF Owns
<1>5. Owns(w)' = Held({t \in ledger' : t.to = w}) - Held({t \in ledger' : t.from = w})
  BY DEF Owns
<1> HIDE DEF p, I, O
<1>6. Held(I \cup {p}) = Held(I) + p.points /\ Held(O \cup {p}) = Held(O) + p.points
  BY <1>1, <1>2, <1>3, HeldAdd
<1>7. /\ Held({t \in ledger' : t.to = w}) = Held(I) + (IF p.to = w THEN p.points ELSE 0)
      /\ Held({t \in ledger' : t.from = w}) = Held(O) + (IF p.from = w THEN p.points ELSE 0)
  <2> DEFINE I1 == {t \in ledger' : t.to = w}
             O1 == {t \in ledger' : t.from = w}
  <2>1. I1 = (IF p.to = w THEN I \cup {p} ELSE I) /\ O1 = (IF p.from = w THEN O \cup {p} ELSE O)
    BY <1>2
  <2> HIDE DEF I1, O1
  <2>2. Held(I1) = Held(I) + (IF p.to = w THEN p.points ELSE 0)
    BY <1>3, <1>6, <2>1
  <2>3. Held(O1) = Held(O) + (IF p.from = w THEN p.points ELSE 0)
    BY <1>3, <1>6, <2>1
  <2> QED BY <2>2, <2>3 DEF I1, O1
<1>8. Owns(w)' = Owns(w) + (IF p.to = w THEN p.points ELSE 0) - (IF p.from = w THEN p.points ELSE 0)
  <2>1. \A a, b, c, d \in Int : (a + c) - (b + d) = (a - b) + c - d
    OBVIOUS
  <2>2. (IF p.to = w THEN p.points ELSE 0) \in Int /\ (IF p.from = w THEN p.points ELSE 0) \in Int
    BY <1>1
  <2> QED BY <1>3, <1>4, <1>5, <1>7, <2>1, <2>2
<1> QED BY <1>8 DEF p

\* Detaching the rows of one wallet keeps the sums over any of the others.
LEMMA DetachKeepsHeld ==
  ASSUME TypeInv, RowInv, NEW w, NEW S \in SUBSET ledger
  PROVE  Held({Detach(t, w) : t \in S}) = Held(S)
<1> DEFINE h == [t \in S |-> Detach(t, w)]
<1>1. \A t \in S : t \in Tx /\ h[t].id = t.id /\ h[t].points = t.points
  BY DetachFields DEF TypeInv, TypeOK
<1>2. \A t, e \in S : h[t] = h[e] => t = e
  BY <1>1 DEF RowInv, IdsApart
<1>3. IsFiniteSet(S) /\ S \in SUBSET Tx
  BY SomeRows DEF RowInv
<1>4. {Detach(t, w) : t \in S} = {h[t] : t \in S}
  OBVIOUS
<1> HIDE DEF h
<1>5. Held({h[t] : t \in S}) = Held(S)
  BY <1>1, <1>2, <1>3, HeldImage
<1> QED BY <1>4, <1>5

LEMMA OwnsAfterDelete ==
  ASSUME TypeInv, RowInv, NEW r \in Requests, DeleteWallet(r),
         NEW v, v /= seen[r].wallet, v /= NoWallet
  PROVE  Owns(v)' = Owns(v)
<1> DEFINE w == seen[r].wallet
           I == {t \in ledger : t.to = v}
           O == {t \in ledger : t.from = v}
<1>1. ledger' = {Detach(t, w) : t \in ledger}
  BY DEF DeleteWallet
<1>2. \A t \in ledger : /\ Detach(t, w).to = v <=> t.to = v
                        /\ Detach(t, w).from = v <=> t.from = v
  BY DetachFields DEF TypeInv, TypeOK
<1>3. /\ {t \in ledger' : t.to = v} = {Detach(t, w) : t \in I}
      /\ {t \in ledger' : t.from = v} = {Detach(t, w) : t \in O}
  BY <1>1, <1>2
<1>4. Held({Detach(t, w) : t \in I}) = Held(I) /\ Held({Detach(t, w) : t \in O}) = Held(O)
  BY DetachKeepsHeld
<1> QED BY <1>3, <1>4 DEF Owns

\* A wallet that is inserted with the row has no rows yet.
LEMMA NewOwnsNothing ==
  ASSUME RowInv, NEW w, w \notin wallets, w /= NoWallet
  PROVE  Owns(w) = 0
<1>1. {t \in ledger : t.to = w} = {} /\ {t \in ledger : t.from = w} = {}
  BY DEF RowInv, EndsLive
<1>2. Owns(w) = Held({}) - Held({})
  BY <1>1 DEF Owns
<1> QED BY <1>2, HeldNone

NewWalletRow(r) ==
  /\ dest[r].wallet \notin wallets
  /\ wallets' = wallets \cup {dest[r].wallet}
  /\ dest[r].wallet \in Users \X (1..MaxGen)
  /\ pend[r].points > 0 /\ pend[r].points \in Amounts
  /\ Account' = [w \in wallets \cup {dest[r].wallet} |->
                   IF w \in wallets THEN [Account EXCEPT ![CommunityWallet] = @ - pend[r].points][w]
                   ELSE pend[r].points]
  /\ pend[r].from /= NoWallet

IssueRow(r) ==
  /\ wallets' = wallets /\ pend[r].from = NoWallet /\ pend[r].points \in Amounts
  /\ Account' = [Account EXCEPT ![CommunityWallet] = @ + pend[r].points]

TransferRow(r) ==
  /\ wallets' = wallets /\ {pend[r].from, pend[r].to} \subseteq wallets
  /\ pend[r].from /= NoWallet
  /\ pend[r].points > 0 /\ pend[r].points \in Amounts
  /\ Account' = [[Account EXCEPT ![pend[r].from] = @ - pend[r].points]
                         EXCEPT ![pend[r].to] = @ + pend[r].points]

\* A commit is an issue, a transfer between two live wallets, or a grant that
\* opens a wallet.
LEMMA AccountAfterCommit ==
  ASSUME TypeInv, NewWalletsApart, WalletsNumbered, RowInv, NEW r \in Requests, Commit(r)
  PROVE  IssueRow(r) \/ TransferRow(r) \/ NewWalletRow(r)
<1> DEFINE p == pend[r]
<1>1. /\ PendingSound(r) /\ pc[r] = "commit" /\ p.points \in Int
      /\ wallets' = IF NewWallet(r) THEN wallets \cup {dest[r].wallet} ELSE wallets
  BY DEF Commit, RowInv, NewWallet, TypeInv, TypeOK, Tx
<1>2. \A w : Owns(w) \in Int
  BY OwnsInt DEF RowInv
<1>3. \A w : Owns(w)' = Owns(w) + (IF p.to = w THEN p.points ELSE 0)
                                - (IF p.from = w THEN p.points ELSE 0)
  BY OwnsAfterCommit
<1>4. Account' = [w \in wallets' |-> Owns(w)'] /\ Account = [w \in wallets |-> Owns(w)]
  BY DEF Account
<1>5. NoWallet \notin wallets /\ CommunityWallet \in wallets
  <2>1. NoWallet \notin Wallet
    BY UsersAssumption DEF NoWallet, Wallet, CommunityWallet
  <2> QED BY <2>1 DEF TypeInv, TypeOK, WalletsNumbered
<1>6. CASE p.from = NoWallet
  <2>1. p.to = CommunityWallet /\ ~NewWallet(r) /\ p.points \in Amounts
    BY <1>1, <1>5, <1>6 DEF PendingSound
  <2>2. \A w \in wallets : Owns(w)' = IF w = CommunityWallet THEN Owns(w) + p.points ELSE Owns(w)
    BY <1>1, <1>2, <1>3, <1>5, <1>6, <2>1
  <2>3. Account' = [Account EXCEPT ![CommunityWallet] = @ + p.points]
    BY <1>1, <1>4, <1>5, <2>1, <2>2
  <2> QED BY <1>1, <1>6, <2>1, <2>3 DEF IssueRow
<1>7. CASE p.from /= NoWallet /\ ~NewWallet(r)
  <2>1. p.from \in wallets /\ p.to \in wallets /\ p.points > 0 /\ p.points \in Amounts
    BY <1>1, <1>7 DEF PendingSound
  <2> DEFINE A == [Account EXCEPT ![p.from] = @ - p.points]
  <2>2. A = [w \in wallets |-> IF w = p.from THEN Owns(w) - p.points ELSE Owns(w)]
    BY <1>4, <2>1
  <2>3. [A EXCEPT ![p.to] = @ + p.points]
          = [w \in wallets |-> IF w = p.to THEN A[w] + p.points ELSE A[w]]
    BY <2>1, <2>2
  <2>4. \A w \in wallets : Owns(w)' = IF w = p.to THEN A[w] + p.points ELSE A[w]
    BY <1>1, <1>2, <1>3, <2>2
  <2>5. Account' = [A EXCEPT ![p.to] = @ + p.points]
    BY <1>1, <1>4, <1>7, <2>3, <2>4
  <2> QED BY <1>1, <1>7, <2>1, <2>5 DEF TransferRow
<1>8. CASE p.from /= NoWallet /\ NewWallet(r)
  <2> DEFINE new == dest[r].wallet
             A == [Account EXCEPT ![CommunityWallet] = @ - p.points]
  <2>1. p.to = new /\ p.from = CommunityWallet /\ p.points > 0 /\ p.points \in Amounts
    BY <1>1, <1>8 DEF PendingSound
  <2>2. new \notin wallets /\ new \in Users \X (1..MaxGen)
    BY <1>8 DEF NewWalletsApart, WalletsNumbered
  <2>3. Owns(new) = 0
    BY <2>2, CommunityIsNoUser, NewOwnsNothing
  <2>4. A = [w \in wallets |-> IF w = CommunityWallet THEN Owns(w) - p.points ELSE Owns(w)]
    BY <1>4, <1>5
  <2>5. \A w \in wallets : Owns(w)' = A[w]
    BY <1>1, <1>2, <1>3, <2>1, <2>2, <2>4
  <2>6. ASSUME NEW w, w = new PROVE Owns(w)' = p.points
    <3>1. Owns(w) = 0 /\ p.to = w /\ p.from /= w
      BY <1>5, <2>1, <2>2, <2>3, <2>6
    <3> QED BY <1>1, <1>3, <3>1
  <2>7. wallets' = wallets \cup {new}
    BY <1>1, <1>8
  <2>8. Account' = [w \in wallets \cup {new} |-> IF w \in wallets THEN A[w] ELSE p.points]
    <3> HIDE DEF A, new, p
    <3> QED BY <1>4, <2>2, <2>5, <2>6, <2>7
  <2> QED BY <1>8, <2>1, <2>2, <2>7, <2>8 DEF NewWalletRow
<1> QED BY <1>6, <1>7, <1>8

LEMMA AccountAfterDelete ==
  ASSUME TypeInv, CallsSound, RowInv, NEW r \in Requests, DeleteWallet(r)
  PROVE  /\ seen[r].wallet \in wallets \ {CommunityWallet}
         /\ wallets' = wallets \ {seen[r].wallet}
         /\ Account' = [v \in wallets \ {seen[r].wallet} |-> Account[v]]
         /\ burned' = burned + Account[seen[r].wallet]
<1> DEFINE w == seen[r].wallet
<1>1. w \in wallets \ {CommunityWallet} /\ wallets' = wallets \ {w}
  BY DEF DeleteWallet, CallsSound, CallSound
<1>2. \A v \in wallets \ {w} : Owns(v)' = Owns(v)
  <2>1. NoWallet \notin wallets
    BY UsersAssumption DEF TypeInv, TypeOK, NoWallet, Wallet, CommunityWallet
  <2> QED BY <2>1, OwnsAfterDelete
<1>3. Account' = [v \in wallets \ {w} |-> Account[v]]
  BY <1>1, <1>2 DEF Account
<1>4. burned' = burned + Account[w]
  BY <1>1, BalanceIsOwns DEF DeleteWallet, Account, RowInv
<1> QED BY <1>1, <1>3, <1>4

LEMMA AccountOtherwise ==
  ASSUME UNCHANGED <<ledger, wallets>> PROVE UNCHANGED Account
  BY DEF Account, Owns

-----------------------------------------------------------------------------
(* Conservation.  Inductive as it stands, once the steps are known to act  *)
(* on the balances as above.                                               *)

Kept == burned \in Int /\ Total(Account, wallets) + burned = Held(Issued)

LEMMA AccountTotal ==
  ASSUME FiniteTables
  PROVE  MapThenSumSet(LAMBDA w : Balance(Ids(ledger), w), wallets) = Total(Account, wallets)
<1> DEFINE f == Account
           Q(g) == g = [s \in SUBSET wallets |->
                          IF s = {} THEN 0
                          ELSE Balance(Ids(ledger), CHOOSE x \in s : TRUE)
                                 + g[s \ {CHOOSE x \in s : TRUE}]]
           h == CHOOSE g : Q(g)
<1>1. \A g : Q(g) <=> PartialSums(g, f, wallets)
  <2>1. \A w \in wallets : Balance(Ids(ledger), w) = f[w]
    BY BalanceIsOwns DEF Account
  <2>2. \A s \in SUBSET wallets : s /= {} =>
          Balance(Ids(ledger), CHOOSE x \in s : TRUE) = f[CHOOSE x \in s : TRUE]
    BY <2>1, FirstIn DEF First
  <2> HIDE DEF f
  <2> QED BY <2>2 DEF PartialSums, First
<1>2. MapThenSumSet(LAMBDA w : Balance(Ids(ledger), w), wallets) = h[wallets]
  BY DEF MapThenSumSet, MapThenFoldSet
<1> HIDE DEF f, Q
<1>3. Q(h)
  BY <1>1, PartialSumsExist DEF FiniteTables
<1> HIDE DEF h
<1> QED BY <1>1, <1>2, <1>3, PartialSumsGiveTotal DEF f, FiniteTables

LEMMA IssuedAfterCommit ==
  ASSUME TypeInv, RowInv, NEW r \in Requests, Commit(r)
  PROVE  Held(Issued)' = Held(Issued) + (IF pend[r].from = NoWallet THEN pend[r].points ELSE 0)
<1> DEFINE p == pend[r]
           S == Issued
<1>1. /\ ledger' = ledger \cup {p} /\ p \notin ledger /\ p \in Tx /\ p.points \in Int
      /\ p.from = NoWallet <=> p.reason = "POINT_ISSUED"
  BY DEF Commit, RowInv, IdsApart, Ids, TypeInv, TypeOK, Tx, PendingSound
<1>2. Issued' = (IF p.from = NoWallet THEN S \cup {p} ELSE S) /\ p \notin S
  BY <1>1 DEF Issued
<1>3. IsFiniteSet(S) /\ S \in SUBSET Tx /\ Held(S) \in Int
  BY SomeRows DEF RowInv, Issued
<1> HIDE DEF p, S
<1>4. Held(S \cup {p}) = Held(S) + p.points
  BY <1>1, <1>2, <1>3, HeldAdd
<1>5. Held(Issued') = Held(S) + (IF p.from = NoWallet THEN p.points ELSE 0)
  BY <1>2, <1>3, <1>4
<1> QED BY <1>5 DEF p, S

LEMMA IssuedAfterDelete ==
  ASSUME TypeInv, RowInv, NEW r \in Requests, DeleteWallet(r)
  PROVE  Held(Issued)' = Held(Issued)
<1> DEFINE w == seen[r].wallet
<1>1. ledger' = {Detach(t, w) : t \in ledger}
  BY DEF DeleteWallet
<1>2. \A t \in ledger : Detach(t, w).reason = t.reason
  BY DetachFields DEF TypeInv, TypeOK
<1>3. Issued' = {Detach(t, w) : t \in Issued} /\ Issued \in SUBSET ledger
  BY <1>1, <1>2 DEF Issued
<1>4. Held({Detach(t, w) : t \in Issued}) = Held(Issued)
  BY <1>3, DetachKeepsHeld
<1> QED BY <1>3, <1>4

LEMMA KeptStep ==
  ASSUME TypeInv, CallsSound, NewWalletsApart, WalletsNumbered, RowInv, Kept, [Next]_vars
  PROVE  Kept'
<1>1. /\ IsFiniteSet(wallets) /\ Account \in [wallets -> Int]
      /\ CommunityWallet \in wallets /\ Held(Issued) \in Int
  <2>1. Account \in [wallets -> Int]
    BY OwnsInt DEF Account, RowInv
  <2>2. Held(Issued) \in Int
    BY SomeRows DEF RowInv, Issued
  <2> QED BY <2>1, <2>2 DEF RowInv, FiniteTables, WalletsNumbered
<1>2. Total(Account, wallets) \in Int /\ burned \in Int
      /\ Total(Account, wallets) + burned = Held(Issued)
  BY <1>1, TotalInt DEF Kept
<1>3. CASE UNCHANGED <<ledger, wallets, burned>>
  <2>1. Account' = Account /\ Issued' = Issued
    BY <1>3, AccountOtherwise DEF Issued
  <2> QED BY <1>3, <2>1 DEF Kept
<1>4. ASSUME NEW r \in Requests, Commit(r) PROVE Kept'
  <2> DEFINE n == pend[r].points
  <2>1. n \in Int /\ 0 - n \in Int /\ burned' = burned
    BY <1>4 DEF Commit, TypeInv, TypeOK, Tx
  <2>2. Held(Issued') = Held(Issued) + (IF pend[r].from = NoWallet THEN n ELSE 0)
    BY <1>4, IssuedAfterCommit
  <2> HIDE DEF n
  <2>3. CASE IssueRow(r)
    <3>1. wallets' = wallets /\ pend[r].from = NoWallet
          /\ Account' = [Account EXCEPT ![CommunityWallet] = @ + n]
      BY <2>3 DEF IssueRow, n
    <3> DEFINE B == [Account EXCEPT ![CommunityWallet] = @ + n]
    <3>2. /\ B \in [wallets -> Int] /\ B[CommunityWallet] = Account[CommunityWallet] + n
          /\ \A w \in wallets \ {CommunityWallet} : B[w] = Account[w]
      BY <1>1, <2>1
    <3>3. Account' = B /\ wallets' = wallets
      BY <3>1
    <3> HIDE DEF B
    <3>4. Total(B, wallets) = Total(Account, wallets) + n
      BY <1>1, <2>1, <3>2, TotalBump
    <3>5. Total(Account', wallets') = Total(Account, wallets) + n
      BY <3>3, <3>4
    <3> QED BY <1>1, <1>2, <2>1, <2>2, <3>1, <3>5 DEF Kept
  <2>4. CASE TransferRow(r)
    <3> DEFINE v == pend[r].from
               w == pend[r].to
               A == [Account EXCEPT ![v] = @ - n]
               B == [A EXCEPT ![w] = @ + n]
    <3>1. /\ wallets' = wallets /\ v /= NoWallet /\ v \in wallets /\ w \in wallets
          /\ Account' = B
      BY <2>4 DEF TransferRow, n
    <3> HIDE DEF v, w
    <3>2. /\ A \in [wallets -> Int] /\ A[v] = Account[v] + (0 - n)
          /\ \A x \in wallets \ {v} : A[x] = Account[x]
      BY <1>1, <2>1, <3>1
    <3> HIDE DEF A
    <3>3. /\ B \in [wallets -> Int] /\ B[w] = A[w] + n
          /\ \A x \in wallets \ {w} : B[x] = A[x]
      BY <2>1, <3>1, <3>2
    <3> HIDE DEF B
    <3>4. Total(A, wallets) = Total(Account, wallets) + (0 - n)
      BY <1>1, <2>1, <3>1, <3>2, TotalBump
    <3>5. Total(B, wallets) = Total(A, wallets) + n
      BY <1>1, <2>1, <3>1, <3>2, <3>3, TotalBump
    <3> QED BY <1>1, <1>2, <2>1, <2>2, <3>1, <3>4, <3>5 DEF Kept, v
  <2>5. CASE NewWalletRow(r)
    <3> DEFINE A == [Account EXCEPT ![CommunityWallet] = @ - n]
               new == dest[r].wallet
    <3>1. /\ wallets' = wallets \cup {new} /\ pend[r].from /= NoWallet /\ new \notin wallets
          /\ Account' = [w \in wallets \cup {new} |-> IF w \in wallets THEN A[w] ELSE n]
      BY <2>5 DEF NewWalletRow, n
    <3>2. /\ A \in [wallets -> Int] /\ A[CommunityWallet] = Account[CommunityWallet] + (0 - n)
          /\ \A x \in wallets \ {CommunityWallet} : A[x] = Account[x]
      BY <1>1, <2>1
    <3> HIDE DEF A, new
    <3>4. A \in [wallets -> Int] /\ Total(A, wallets) = Total(Account, wallets) + (0 - n)
      BY <1>1, <2>1, <3>2, TotalBump
    <3>5. /\ Account'[new] = n /\ \A w \in wallets : Account'[w] = A[w]
          /\ \A w \in wallets \cup {new} : Account'[w] \in Int
      BY <2>1, <3>1, <3>4
    <3> DEFINE B == Account'
    <3> HIDE DEF B
    <3>6. Total(B, wallets \cup {new}) = B[new] + Total(B, wallets)
      BY <1>1, <3>1, <3>5, TotalAdd DEF B
    <3>7. Total(B, wallets) = Total(A, wallets)
      BY <1>1, <3>5, TotalAgree DEF B
    <3>8. Total(Account', wallets') = Total(Account, wallets)
      BY <1>2, <2>1, <3>1, <3>4, <3>5, <3>6, <3>7 DEF B
    <3> QED BY <1>1, <1>2, <2>1, <2>2, <3>1, <3>8 DEF Kept
  <2> QED BY <1>4, <2>3, <2>4, <2>5, AccountAfterCommit
<1>5. ASSUME NEW r \in Requests, DeleteWallet(r) PROVE Kept'
  <2> DEFINE w == seen[r].wallet
             T == wallets \ {w}
             B == [v \in T |-> Account[v]]
  <2>1. w \in wallets /\ wallets' = T /\ Account' = B /\ burned' = burned + Account[w]
    BY <1>5, AccountAfterDelete
  <2>2. Held(Issued') = Held(Issued)
    BY <1>5, IssuedAfterDelete
  <2>3. IsFiniteSet(T) /\ \A v \in T : B[v] = Account[v]
    BY <1>1, FS_RemoveElement
  <2> HIDE DEF B, w, T
  <2>4. Total(B, T) = Total(Account, T)
    BY <2>3, TotalAgree
  <2>5. Total(Account, wallets) = Account[w] + Total(Account, T)
    BY <1>1, <2>1, TotalRemove DEF T
  <2>6. Account[w] \in Int /\ Total(Account, T) \in Int
    <3>1. \A v \in T : Account[v] \in Int
      BY <1>1 DEF T
    <3> QED BY <1>1, <2>1, <2>3, <3>1, TotalInt
  <2> QED BY <1>2, <2>1, <2>2, <2>4, <2>5, <2>6 DEF Kept
<1>6. UNCHANGED burned \/ \E r \in Requests : DeleteWallet(r)
  <2>1. CASE UNCHANGED vars \/ RefreshBatch
    BY <2>1 DEF vars, RefreshBatch, database
  <2>2. ASSUME NEW r \in Requests, NewCall(r) PROVE UNCHANGED burned
    BY <2>2 DEF NewCall, CallIssue, CallGrant, CallDonate, CallContribute, CallWithdraw, Call, database
  <2>3. ASSUME NEW r \in Requests, NEW w \in wallets,
               DonateFrom(r, w) \/ DonateTo(r, w) \/ ContributeFrom(r, w) \/ WithdrawFrom(r, w)
        PROVE UNCHANGED burned
    BY <2>3 DEF DonateFrom, DonateTo, ContributeFrom, WithdrawFrom, database
  <2>4. ASSUME NEW r \in Requests, LookupRefreshes(r) \/ JoinIfNeeded(r) \/ Insert(r) \/ Commit(r) \/ Refresh(r) \/ GrantWallet(r)
        PROVE UNCHANGED burned
    BY <2>4 DEF LookupRefreshes, JoinIfNeeded, Insert, Commit, Refresh, GrantWallet, database
  <2> QED BY <2>1, <2>2, <2>3, <2>4, StepKinds DEF database
<1> QED BY <1>3, <1>4, <1>5, <1>6, LedgerChange, WalletsChange

\* Whatever transfers, grants and withdrawals interleave, the live wallets and
\* the deleted ones together account for exactly the points that were issued.
THEOREM ConservationAlways == Spec => []Conservation
<1>1. Init /\ RowInv => Kept
  <2> SUFFICES ASSUME Init, RowInv PROVE Kept
    OBVIOUS
  <2>1. Issued = {} /\ burned = 0
    BY DEF Init, Issued
  <2>2. \A w : Owns(w) = 0
    <3> TAKE w
    <3>1. Owns(w) = Held({}) - Held({})
      BY DEF Init, Owns
    <3> QED BY <3>1, HeldNone
  <2>3. Total(Account, wallets) = 0
    <3>1. \A w \in wallets : Account[w] = 0
      BY <2>2 DEF Account
    <3> QED BY <3>1, TotalOfZeros DEF RowInv, FiniteTables
  <2> QED BY <2>1, <2>3, HeldNone DEF Kept
<1>2. TypeInv /\ CallsSound /\ NewWalletsApart /\ WalletsNumbered /\ RowInv /\ Kept /\ [Next]_vars => Kept'
  BY KeptStep
<1>3. RowInv /\ Kept => Conservation
  <2> SUFFICES ASSUME RowInv, Kept PROVE Conservation
    OBVIOUS
  <2>1. MapThenSumSet(Points, Issued) = Held(Issued)
    <3>1. IsFiniteSet(Issued)
      BY FS_Subset DEF RowInv, FiniteTables, Issued
    <3> QED BY <3>1, PointsTotal DEF Held
  <2>2. MapThenSumSet(LAMBDA w : Balance(Ids(ledger), w), wallets) = Total(Account, wallets)
    BY AccountTotal DEF RowInv
  <2> QED BY <2>1, <2>2 DEF Kept, Conservation
<1> QED BY <1>1, <1>2, <1>3, TypeAlways, CallAlways, NumberedAlways, RowAlways, PTL
    DEF Spec

-----------------------------------------------------------------------------
(* Refinement: the commits and the deletion of a wallet are the steps of   *)
(* the accounts, and nothing else changes them.                            *)

\* The account that the refinement mapping gives to the accounts.
LEMMA MappedAccount ==
  FiniteTables => [w \in wallets |-> Balance(Ids(ledger), w)] = Account
  BY BalanceIsOwns DEF Account

\* However calls, crashes and refreshes interleave, the ledger implements the
\* accounts: points move between live wallets in one indivisible step.
THEOREM LedgerImplementsAccounts == Spec => ImplementsAccounts
<1>1. Init => Accounts!Init
  <2> SUFFICES ASSUME Init PROVE Accounts!Init
    OBVIOUS
  <2>1. \A w : Balance(Ids(ledger), w) = 0
    <3> TAKE w
    <3>1. Incoming(Ids(ledger), w) = {} /\ Outgoing(Ids(ledger), w) = {}
      BY DEF Init, Incoming, Outgoing
    <3>2. MapThenSumSet(Points, {}) = 0
      BY PointsTotal, TotalOfNone, FS_EmptySet
    <3> QED BY <3>1, <3>2 DEF Balance
  <2>2. wallets = {<<u, 1>> : u \in Members} \cup {CommunityWallet}
    BY DEF Init
  <2> QED BY <2>1, <2>2 DEF Accounts!Init
<1>2. TypeInv /\ CallsSound /\ NewWalletsApart /\ WalletsNumbered /\ RowInv /\ RowInv' /\ [Next]_vars
        => [Accounts!Next]_([w \in wallets |-> Balance(Ids(ledger), w)])
  <2> DEFINE account == [w \in wallets |-> Balance(Ids(ledger), w)]
  <2> SUFFICES ASSUME TypeInv, CallsSound, NewWalletsApart, WalletsNumbered, RowInv, RowInv', [Next]_vars
               PROVE  [Accounts!Next]_account
    OBVIOUS
  <2>1. account = Account /\ account' = Account'
    <3>1. (FiniteTables => account = Account)'
      BY MappedAccount, PTL
    <3> QED BY <3>1, MappedAccount DEF RowInv
  <2>2. CASE UNCHANGED <<ledger, wallets>>
    BY <2>1, <2>2, AccountOtherwise
  <2>3. ASSUME NEW r \in Requests, DeleteWallet(r), account' /= account PROVE Accounts!Next
    <3>1. /\ seen[r].wallet \in wallets \ {CommunityWallet}
          /\ Account' = [v \in wallets \ {seen[r].wallet} |-> Account[v]]
      BY <2>3, AccountAfterDelete
    <3>2. DOMAIN account = wallets
      OBVIOUS
    <3> HIDE DEF account
    <3>3. Accounts!Close(seen[r].wallet) /\ seen[r].wallet \in Accounts!Live
      BY <2>1, <3>1, <3>2 DEF Accounts!Close, Accounts!Live, account
    <3> QED BY <2>3, <3>3 DEF Accounts!Next, account
  <2>4. ASSUME NEW r \in Requests, Commit(r), account' /= account PROVE Accounts!Next
    <3> DEFINE n == pend[r].points
    <3>1. /\ DOMAIN account = wallets /\ \A w \in wallets : account[w] \in Int
          /\ CommunityWallet \in wallets
      BY <2>1, OwnsInt DEF Account, RowInv, WalletsNumbered
    <3> HIDE DEF account
    <3>2. CASE IssueRow(r)
      <4>1. n \in Amounts /\ Accounts!Issue(n)
        BY <2>1, <3>2 DEF IssueRow, Accounts!Issue, account
      <4> HIDE DEF n
      <4> QED BY <2>4, <4>1 DEF Accounts!Next, account
    <3>3. CASE TransferRow(r)
      <4> DEFINE v == pend[r].from
                 w == pend[r].to
      <4>1. /\ v \in wallets /\ w \in wallets /\ n > 0 /\ n \in Amounts
            /\ account' = [[account EXCEPT ![v] = @ - n] EXCEPT ![w] = @ + n]
        BY <2>1, <3>3 DEF TransferRow
      <4> HIDE DEF n, v, w
      <4>2. n \in Int
        BY <4>1, AmountAssumption
      <4>3. v /= w
        <5> SUFFICES ASSUME v = w PROVE FALSE
          OBVIOUS
        <5>1. account = [x \in wallets |-> account[x]]
          BY <3>1 DEF account
        <5>2. account' = [account EXCEPT ![v] = (@ - n) + n]
          BY <4>1
        <5>3. (account[v] - n) + n = account[v]
          BY <3>1, <4>1, <4>2
        <5> QED BY <2>4, <5>1, <5>2, <5>3
      <4>4. Accounts!Transfer(v, w, n) /\ v \in Accounts!Live /\ w \in Accounts!Live
        BY <3>1, <4>1, <4>3 DEF Accounts!Transfer, Accounts!Live, account
      <4> QED BY <2>4, <4>1, <4>4 DEF Accounts!Next, account
    <3>4. CASE NewWalletRow(r)
      <4> DEFINE w == dest[r].wallet
                 A == [account EXCEPT ![CommunityWallet] = @ - n]
      <4>1. /\ w \notin wallets /\ w \in Users \X (1..MaxGen) /\ n > 0 /\ n \in Amounts
            /\ account' = [x \in wallets \cup {w} |-> IF x \in wallets THEN A[x] ELSE n]
        BY <2>1, <3>4 DEF NewWalletRow
      <4> HIDE DEF n, w
      <4>2. account' = [x \in wallets \cup {w} |-> IF x = w THEN n ELSE A[x]]
        BY <4>1
      <4>3. Accounts!GrantOpens(w, n)
        BY <3>1, <4>1, <4>2 DEF Accounts!GrantOpens, Accounts!Live, account
      <4> QED BY <2>4, <4>1, <4>3 DEF Accounts!Next, account
    <3> QED BY <2>4, <3>2, <3>3, <3>4, AccountAfterCommit
  <2> QED BY <2>2, <2>3, <2>4, LedgerChange, WalletsChange
<1> QED BY <1>1, <1>2, TypeAlways, CallAlways, NumberedAlways, RowAlways, PTL
    DEF Spec, ImplementsAccounts, Accounts!Spec

-----------------------------------------------------------------------------
(* OverdraftNeedsStaleView.  Inductive with: what was received in some     *)
(* committed rows covers each debit together with the debits that its      *)
(* check counted; later commits and deletions of others do not change that.*)

Covers(w, basis, counted, n) ==
  Held(Incoming(basis, w)) - Held(Outgoing(counted, w)) >= n
RowCovered(t) ==
  /\ t.counted \subseteq Ids(ledger)
  /\ t.from /= NoWallet =>
       \E basis \in SUBSET Ids(ledger) : Covers(t.from, basis, t.counted, t.points)
CoverInv ==
  /\ \A t \in ledger : RowCovered(t) /\ t.id \notin t.counted
  /\ \A r \in Requests : pc[r] = "commit" => RowCovered(pend[r])
  /\ \A r \in Requests : pc[r] = "insert" /\ seen[r].wallet \in wallets =>
       Covers(seen[r].wallet, seen[r].basis, seen[r].basis, job[r].points)

LEMMA ValidCovers ==
  ASSUME FiniteTables, NEW s, NEW n, ValidTransfer(s, n)
  PROVE  Covers(s.wallet, s.basis, s.basis, n)
<1>1. IsFiniteSet(Incoming(s.basis, s.wallet)) /\ IsFiniteSet(Outgoing(s.basis, s.wallet))
  <2>1. Incoming(s.basis, s.wallet) \in SUBSET ledger /\ Outgoing(s.basis, s.wallet) \in SUBSET ledger
    BY DEF Incoming, Outgoing
  <2> QED BY <2>1, FS_Subset DEF FiniteTables
<1>2. /\ MapThenSumSet(Points, Incoming(s.basis, s.wallet)) = Held(Incoming(s.basis, s.wallet))
      /\ MapThenSumSet(Points, Outgoing(s.basis, s.wallet)) = Held(Outgoing(s.basis, s.wallet))
  BY <1>1, PointsTotal DEF Held
<1> QED BY <1>2 DEF ValidTransfer, Balance, Covers

LEMMA CoverStays ==
  ASSUME TypeInv, RowInv, [Next]_vars,
         NEW w, w /= NoWallet, \A r \in Requests : DeleteWallet(r) => w /= seen[r].wallet,
         NEW basis \in SUBSET Ids(ledger), NEW counted \in SUBSET Ids(ledger), NEW n,
         Covers(w, basis, counted, n)
  PROVE  Covers(w, basis, counted, n)'
<1> DEFINE I == Incoming(basis, w)
           O == Outgoing(counted, w)
<1>1. Held(I) - Held(O) >= n
  BY DEF Covers
<1>2. I' = {t \in ledger' : t.id \in basis /\ t.to = w} /\ O' = {t \in ledger' : t.id \in counted /\ t.from = w}
  BY DEF Incoming, Outgoing
<1>3. SUFFICES Held(I') = Held(I) /\ Held(O') = Held(O)
  BY <1>1 DEF Covers
<1>4. CASE UNCHANGED ledger
  BY <1>2, <1>4 DEF Incoming, Outgoing
<1>5. ASSUME NEW r \in Requests, Commit(r) PROVE I' = I /\ O' = O
  <2>1. ledger' = ledger \cup {pend[r]} /\ pend[r].id \notin Ids(ledger)
    BY <1>5 DEF Commit, RowInv, IdsApart
  <2> QED BY <1>2, <2>1 DEF Incoming, Outgoing
<1>6. ASSUME NEW r \in Requests, DeleteWallet(r) PROVE Held(I') = Held(I) /\ Held(O') = Held(O)
  <2> DEFINE v == seen[r].wallet
  <2>1. ledger' = {Detach(t, v) : t \in ledger} /\ v /= w
    BY <1>6 DEF DeleteWallet
  <2>2. \A t \in ledger : /\ Detach(t, v).id = t.id
                          /\ Detach(t, v).to = w <=> t.to = w
                          /\ Detach(t, v).from = w <=> t.from = w
    BY <2>1, DetachFields DEF TypeInv, TypeOK
  <2> HIDE DEF v
  <2>3. I' = {Detach(t, v) : t \in I} /\ O' = {Detach(t, v) : t \in O}
    BY <1>2, <2>1, <2>2 DEF Incoming, Outgoing
  <2>4. Held({Detach(t, v) : t \in I}) = Held(I) /\ Held({Detach(t, v) : t \in O}) = Held(O)
    BY DetachKeepsHeld DEF Incoming, Outgoing
  <2> QED BY <2>3, <2>4
<1> QED BY <1>4, <1>5, <1>6, LedgerChange

LEMMA RowCoverStays ==
  ASSUME TypeInv, RowInv, [Next]_vars, NEW t, RowCovered(t),
         \A r \in Requests : DeleteWallet(r) => t.from /= seen[r].wallet
  PROVE  RowCovered(t)'
<1>1. t.counted \subseteq Ids(ledger) /\ Ids(ledger) \subseteq Ids(ledger')
  BY IdsGrow DEF RowCovered
<1>2. CASE t.from = NoWallet
  BY <1>1, <1>2 DEF RowCovered, Ids
<1>3. CASE t.from /= NoWallet
  <2>1. PICK basis \in SUBSET Ids(ledger) : Covers(t.from, basis, t.counted, t.points)
    BY <1>3 DEF RowCovered
  <2>2. Covers(t.from, basis, t.counted, t.points)'
    BY <1>1, <1>3, <2>1, CoverStays
  <2> QED BY <1>1, <2>1, <2>2 DEF RowCovered, Ids
<1> QED BY <1>2, <1>3

\* What a request that is about to insert its row has validated.
LEMMA InsertingRequest ==
  ASSUME TypeInv, CallsSound, [Next]_vars, NEW r \in Requests, pc'[r] = "insert"
  PROVE  \/ Same(r) /\ pc[r] = "insert"
         \/ seen'[r].wallet = NoWallet
         \/ ValidTransfer(seen'[r], job'[r].points) /\ UNCHANGED <<ledger, wallets>>
<1>1. CASE UNCHANGED vars \/ RefreshBatch
  BY <1>1 DEF vars, RefreshBatch, Same
<1>2. ASSUME NEW q \in Requests,
             \/ NewCall(q) \/ Finish(q) \/ LookupRefreshes(q) \/ JoinIfNeeded(q)
             \/ \E w \in wallets : \/ DonateFrom(q, w) \/ DonateTo(q, w)
                                   \/ ContributeFrom(q, w) \/ WithdrawFrom(q, w)
             \/ GrantWallet(q) \/ Insert(q) \/ Commit(q) \/ Refresh(q) \/ DeleteWallet(q),
             q /= r
      PROVE  Same(r) /\ pc[r] = "insert"
  <2>1. Same(r)
    BY <1>2, OthersSame
  <2> QED BY <2>1 DEF Same
<1>3. ASSUME NewCall(r) PROVE seen'[r].wallet = NoWallet
  <2>1. pc[r] = "idle" /\ seen' = seen
    BY <1>3 DEF NewCall, CallIssue, CallGrant, CallDonate, CallContribute, CallWithdraw, Call
  <2> QED BY <2>1 DEF CallsSound, CallSound, NoSight
<1>4. ASSUME NEW w \in wallets,
             DonateFrom(r, w) \/ DonateTo(r, w) \/ ContributeFrom(r, w) \/ WithdrawFrom(r, w)
      PROVE  ValidTransfer(seen'[r], job'[r].points) /\ UNCHANGED <<ledger, wallets>>
  <2>1. ~DonateFrom(r, w) /\ ~WithdrawFrom(r, w)
    BY DEF DonateFrom, WithdrawFrom, Goto, TypeInv, TypeOK
  <2>2. CASE DonateTo(r, w)
    <3>1. seen' = seen /\ job' = job /\ ValidTransfer(seen[r], job[r].points) /\ UNCHANGED database
      BY <2>2 DEF DonateTo
    <3> QED BY <3>1 DEF database
  <2>3. CASE ContributeFrom(r, w)
    <3>1. seen'[r] = Look(w) /\ job' = job /\ ValidTransfer(Look(w), job[r].points) /\ UNCHANGED database
      BY <2>3 DEF ContributeFrom, TypeInv, TypeOK
    <3> QED BY <3>1 DEF database
  <2> QED BY <1>4, <2>1, <2>2, <2>3
<1>5. ASSUME GrantWallet(r) PROVE ValidTransfer(seen'[r], job'[r].points) /\ UNCHANGED <<ledger, wallets>>
  <2>1. /\ seen'[r] = Look(CommunityWallet) /\ job' = job
        /\ ValidTransfer(Look(CommunityWallet), job[r].points) /\ UNCHANGED <<ledger, wallets>>
    BY <1>5 DEF GrantWallet, TypeInv, TypeOK
  <2> QED BY <2>1
<1>6. ASSUME LookupRefreshes(r) PROVE Same(r) /\ pc[r] = "insert"
  BY <1>6 DEF LookupRefreshes, Same
<1>7. ~JoinIfNeeded(r) /\ ~Finish(r) /\ ~Insert(r) /\ ~Commit(r) /\ ~Refresh(r) /\ ~DeleteWallet(r)
  BY DEF JoinIfNeeded, Finish, Insert, Commit, Refresh, DeleteWallet, Goto, TypeInv, TypeOK
<1> QED BY <1>1, <1>2, <1>3, <1>4, <1>5, <1>6, <1>7, StepKinds

LEMMA NoWalletIsNone == TypeInv => NoWallet \notin wallets
  BY UsersAssumption DEF TypeInv, TypeOK, NoWallet, Wallet, CommunityWallet

LEMMA CoverStep ==
  ASSUME TypeInv, TypeInv', CallsSound, WalletsNumbered, RowInv, RowInv', CoverInv, [Next]_vars
  PROVE  CoverInv'
<1>1. \A t \in ledger : t \in Tx
  BY DEF TypeInv, TypeOK
<1>2. ASSUME NEW r \in Requests, pc'[r] = "commit", ~Insert(r)
      PROVE  /\ RowCovered(pend[r])' /\ pc[r] = "commit"
             /\ pend'[r] = pend[r]
  <2>1. Same(r) /\ pc[r] = "commit"
    BY <1>2, CommittingSame
  <2>2. pend'[r] = pend[r] /\ RowCovered(pend[r])
    BY <2>1 DEF Same, CoverInv
  <2>3. ASSUME NEW q \in Requests, DeleteWallet(q) PROVE pend[r].from /= seen[q].wallet
    BY <2>1, <2>3 DEF DeleteWallet, Referenced
  <2> DEFINE t == pend[r]
  <2>4. ASSUME NEW p, p = t PROVE RowCovered(p)'
    BY <2>2, <2>3, <2>4, RowCoverStays
  <2>5. RowCovered(t)'
    BY <2>2, <2>4 DEF RowCovered, Covers, Incoming, Outgoing, Ids
  <2> QED BY <2>1, <2>2, <2>5
<1>3. ASSUME NEW r \in Requests, Insert(r) PROVE RowCovered(pend[r])'
  <2> DEFINE w == seen[r].wallet
             b == seen[r].basis
             C == Ids(Outgoing(b, w))
  <2>1. /\ pend'[r].from = w /\ pend'[r].counted = C /\ pend'[r].points = job[r].points
        /\ PendingSound(r)'
    BY <1>3, InsertedRow
  <2>2. pc[r] = "insert" /\ ledger' = ledger /\ wallets' = wallets /\ pc'[r] = "commit" /\ EndsExist(r)
    BY <1>3 DEF Insert, Goto, TypeInv, TypeOK
  <2>3. C \subseteq Ids(ledger)
    BY DEF Ids, Outgoing
  <2>4. w /= NoWallet => Covers(w, b, C, job[r].points)
    <3> SUFFICES ASSUME w /= NoWallet PROVE Covers(w, b, C, job[r].points)
      OBVIOUS
    <3>1. w \in wallets
      BY <2>2 DEF EndsExist
    <3>2. Covers(w, b, b, job[r].points)
      BY <2>2, <3>1 DEF CoverInv
    <3>3. Outgoing(C, w) = Outgoing(b, w)
      BY DEF Outgoing, Ids, RowInv, IdsApart
    <3> QED BY <3>2, <3>3 DEF Covers
  <2>5. b \in SUBSET Ids(ledger)
    BY DEF RowInv, ReadCommitted
  <2> HIDE DEF w, b, C
  <2> QED BY <2>1, <2>2, <2>3, <2>4, <2>5 DEF RowCovered, Covers, Incoming, Outgoing, Ids
<1>4. \A r \in Requests : pc'[r] = "commit" => RowCovered(pend[r])'
  BY <1>2, <1>3
<1>5. ASSUME NEW r \in Requests, pc'[r] = "insert", seen'[r].wallet \in wallets'
      PROVE Covers(seen[r].wallet, seen[r].basis, seen[r].basis, job[r].points)'
  <2> DEFINE w == seen[r].wallet
             b == seen[r].basis
             n == job[r].points
  <2>1. NoWallet \notin wallets /\ NoWallet \notin wallets'
    <3>1. (TypeInv => NoWallet \notin wallets)'
      BY NoWalletIsNone, PTL
    <3> QED BY <3>1, NoWalletIsNone
  <2>2. CASE Same(r) /\ pc[r] = "insert"
    <3>1. w \in wallets'
      BY <1>5, <2>2 DEF Same
    <3>2. w \in wallets
      <4>1. ASSUME NEW q \in Requests, Commit(q) PROVE w \in wallets
        BY <3>1, <4>1 DEF Commit, WalletsNumbered, NewWallet
      <4>2. ASSUME NEW q \in Requests, DeleteWallet(q) PROVE w \in wallets
        BY <3>1, <4>2 DEF DeleteWallet
      <4> QED BY <3>1, <4>1, <4>2, WalletsChange
    <3>3. \A q \in Requests : DeleteWallet(q) => w /= seen[q].wallet
      BY <3>1 DEF DeleteWallet
    <3>4. Covers(w, b, b, n) /\ b \in SUBSET Ids(ledger)
      BY <2>2, <3>2 DEF CoverInv, RowInv, ReadCommitted
    <3>5. ASSUME NEW v, v = w, NEW c, c = b, NEW m, m = n PROVE Covers(v, c, c, m)'
      BY <2>1, <3>2, <3>3, <3>4, <3>5, CoverStays
    <3> QED BY <2>2, <3>5 DEF Same, Covers, Incoming, Outgoing
  <2>3. CASE ValidTransfer(seen'[r], job'[r].points) /\ UNCHANGED <<ledger, wallets>>
    <3>1. Covers(seen'[r].wallet, seen'[r].basis, seen'[r].basis, job'[r].points)
      BY <2>3, ValidCovers DEF RowInv
    <3> QED BY <2>3, <3>1 DEF Covers, Incoming, Outgoing
  <2> QED BY <1>5, <2>1, <2>2, <2>3, InsertingRequest
<1>6. ASSUME NEW t \in ledger' PROVE RowCovered(t)' /\ t.id \notin t.counted
  <2>1. ASSUME NEW e \in ledger, \A q \in Requests : DeleteWallet(q) => e.from /= seen[q].wallet
        PROVE  RowCovered(e)' /\ e.id \notin e.counted
    BY <2>1, RowCoverStays DEF CoverInv
  <2>2. CASE UNCHANGED ledger
    <3>1. t.from \in wallets' \cup {NoWallet}
      BY DEF RowInv, EndsLive
    <3>2. \A q \in Requests : DeleteWallet(q) => t.from /= seen[q].wallet
      BY <3>1, NoWalletIsNone DEF DeleteWallet
    <3> QED BY <2>1, <2>2, <3>2
  <2>3. ASSUME NEW r \in Requests, Commit(r) PROVE RowCovered(t)' /\ t.id \notin t.counted
    <3>1. ledger' = ledger \cup {pend[r]} /\ pc[r] = "commit" /\ \A q \in Requests : ~DeleteWallet(q)
      BY <2>3 DEF Commit, DeleteWallet, Finish, Goto, TypeInv, TypeOK
    <3>2. CASE t = pend[r]
      <4>1. RowCovered(pend[r]) /\ pend[r].id \notin Ids(ledger)
        BY <3>1 DEF CoverInv, RowInv, IdsApart
      <4> QED BY <3>1, <3>2, <4>1, RowCoverStays DEF RowCovered
    <3> QED BY <2>1, <3>1, <3>2
  <2>4. ASSUME NEW r \in Requests, DeleteWallet(r) PROVE RowCovered(t)' /\ t.id \notin t.counted
    <3> DEFINE w == seen[r].wallet
    <3>1. /\ ledger' = {Detach(e, w) : e \in ledger}
          /\ \A q \in Requests : DeleteWallet(q) => seen[q].wallet = w
      BY <2>4 DEF DeleteWallet
    <3> HIDE DEF w
    <3>2. PICK e \in ledger : t = Detach(e, w)
      BY <3>1
    <3>3. /\ t.id = e.id /\ t.counted = e.counted /\ t.points = e.points
          /\ t.from = IF e.from = w THEN NoWallet ELSE e.from
      BY <1>1, <3>2, DetachFields
    <3>4. CASE e.from = w
      <4>1. e.counted \subseteq Ids(ledger) /\ e.id \notin e.counted
        BY DEF CoverInv, RowCovered
      <4>2. Ids(ledger) \subseteq Ids(ledger')
        BY IdsGrow
      <4> QED BY <3>3, <3>4, <4>1, <4>2 DEF RowCovered, Ids
    <3>5. CASE e.from /= w
      <4>1. RowCovered(e)' /\ e.id \notin e.counted
        BY <2>1, <3>1, <3>5
      <4> QED BY <3>3, <3>5, <4>1 DEF RowCovered
    <3> QED BY <3>4, <3>5
  <2> QED BY <2>2, <2>3, <2>4, LedgerChange
<1> QED BY <1>4, <1>5, <1>6 DEF CoverInv

\* A finite set of rows, if it is not empty, has one that was inserted last.
LEMMA LastRow ==
  ASSUME NEW D \in SUBSET Tx, IsFiniteSet(D), D /= {}
  PROVE  \E t \in D : \A e \in D : e.id <= t.id
<1> DEFINE Later(t) == {e \in D : e.id > t.id}
           F == {Later(t) : t \in D}
<1>1. PICK U \in F : \A V \in F : V \subseteq U => V = U
  <2>1. F \in SUBSET SUBSET D /\ F /= {}
    OBVIOUS
  <2> HIDE DEF F
  <2> QED BY <2>1, MinimalSubset
<1>2. PICK t \in D : U = Later(t)
  OBVIOUS
<1>3. \A e \in D : e.id \in Nat
  BY DEF Tx
<1>4. ASSUME NEW e \in D, e.id > t.id PROVE FALSE
  <2>1. Later(e) \subseteq U /\ Later(e) \in F
    BY <1>2, <1>3, <1>4
  <2>2. e \in Later(t) /\ e \notin Later(e)
    BY <1>3, <1>4
  <2>3. Later(e) = Later(t)
    BY <1>1, <1>2, <2>1
  <2> HIDE DEF Later
  <2> QED BY <2>2, <2>3
<1> QED BY <1>3, <1>4

\* The debit checked last counted all the others, so what covered it covers all.
LEMMA NotOverdrawn ==
  ASSUME TypeInv, RowInv, CoverInv, NEW w \in wallets, ValidatedInOrder(w)
  PROVE  Owns(w) >= 0
<1> DEFINE I == {t \in ledger : t.to = w}
           O == {t \in ledger : t.from = w}
<1>1. /\ I \in SUBSET Tx /\ IsFiniteSet(I) /\ Held(I) \in Int
      /\ O \in SUBSET Tx /\ IsFiniteSet(O) /\ Held(O) \in Int
  BY SomeRows DEF RowInv
<1>2. Owns(w) = Held(I) - Held(O)
  BY DEF Owns
<1>3. \A t \in I : t.points \in Int /\ t.points >= 0
  BY <1>1 DEF ValidatedInOrder, Tx
<1>4. CASE O = {}
  <2>1. Held({}) <= Held(I)
    BY <1>1, <1>3, HeldMonotone
  <2> HIDE DEF I, O
  <2> QED BY <1>1, <1>2, <1>4, <2>1, HeldNone
<1>5. CASE O /= {}
  <2>1. PICK t \in O : \A e \in O : e.id <= t.id
    BY <1>1, <1>5, LastRow
  <2> DEFINE C == Outgoing(t.counted, w)
  <2>2. t \in ledger /\ t.from = w /\ w /= NoWallet
    BY <2>1, NoWalletIsNone
  <2>3. PICK basis \in SUBSET Ids(ledger) : Held(Incoming(basis, w)) - Held(C) >= t.points
    BY <2>2 DEF CoverInv, RowCovered, Covers
  <2>4. O = C \cup {t} /\ t \notin C
    <3>1. ASSUME NEW e \in O, e /= t PROVE e \in C
      <4>1. e.id < t.id
        BY <1>1, <2>1, <2>2, <3>1 DEF RowInv, IdsApart, Tx
      <4>2. e.id \in t.counted
        BY <2>2, <4>1 DEF ValidatedInOrder
      <4> QED BY <4>2 DEF Outgoing
    <3>2. C \subseteq O
      BY DEF Outgoing
    <3>3. t \notin C
      BY <2>2 DEF CoverInv, Outgoing
    <3> QED BY <2>1, <3>1, <3>2, <3>3
  <2>5. IsFiniteSet(C) /\ C \in SUBSET Tx /\ Held(C) \in Int
    BY SomeRows DEF RowInv, Outgoing
  <2>6. Incoming(basis, w) \in SUBSET I /\ Held(Incoming(basis, w)) \in Int
    BY SomeRows DEF RowInv, Incoming
  <2>7. Held(Incoming(basis, w)) <= Held(I)
    BY <1>1, <1>3, <2>6, HeldMonotone
  <2> HIDE DEF I, O, C
  <2>8. t \in Tx /\ t.points \in Int
    BY <1>1, <2>1 DEF Tx
  <2>9. Held(O) = Held(C) + t.points
    BY <2>4, <2>5, <2>8, HeldAdd
  <2> QED BY <1>1, <1>2, <2>3, <2>5, <2>6, <2>7, <2>8, <2>9
<1> QED BY <1>4, <1>5

\* A wallet is overdrawn only through a view that some debit was checked against
\* too early, however the calls interleave.
THEOREM OverdraftAlwaysNeedsStaleView == Spec => []OverdraftNeedsStaleView
<1>1. Init => CoverInv
  BY DEF Init, CoverInv
<1>2. TypeInv /\ TypeInv' /\ CallsSound /\ WalletsNumbered /\ RowInv /\ RowInv' /\ CoverInv
        /\ [Next]_vars => CoverInv'
  BY CoverStep
<1>3. TypeInv /\ RowInv /\ CoverInv => OverdraftNeedsStaleView
  <2> SUFFICES ASSUME TypeInv, RowInv, CoverInv, NEW w \in wallets, ValidatedInOrder(w)
               PROVE  Balance(Ids(ledger), w) >= 0
    BY DEF OverdraftNeedsStaleView
  <2> QED BY NotOverdrawn, BalanceIsOwns DEF RowInv
<1> QED BY <1>1, <1>2, <1>3, TypeAlways, CallAlways, NumberedAlways, RowAlways, PTL
    DEF Spec

\* Balances account for what was issued, and are negative only through a stale view.
THEOREM BalancesSoundAlways == Spec => []BalancesSound
<1>1. Conservation /\ OverdraftNeedsStaleView => BalancesSound
  BY DEF BalancesSound
<1> QED BY <1>1, ConservationAlways, OverdraftAlwaysNeedsStaleView, PTL

=============================================================================
