----------------------------- MODULE PointLedger -----------------------------
(***************************************************************************)
(* The community point ledger: t_wallets, t_transactions and the           *)
(* materialized view mv_current_points, driven by the GraphQL mutations    *)
(* that issue, grant, donate and contribute points and by the mutations    *)
(* with which a member leaves a community.                                 *)
(*                                                                         *)
(* One community is modelled.  A request is one in-flight GraphQL call.    *)
(* It reads, validates, inserts and commits in separate steps, because     *)
(* PostgreSQL runs these interactive transactions at READ COMMITTED: every *)
(* statement sees what others have committed before it.  The balance that  *)
(* a transfer is validated against is a row of the materialized view, which*)
(* a later and separate database transaction refreshes.                    *)
(*                                                                         *)
(* Abstracted: comments, images, creators, authorisation, notification     *)
(* texts.  A transaction id doubles as its createdAt: both are fixed when  *)
(* the row is inserted, before it is committed.  Memberships are JOINED or *)
(* not; Membership has what else can be done with them.                    *)
(***************************************************************************)
EXTENDS Integers, FiniteSets, FiniteSetsExt

CONSTANTS
  Users,         \* users who can be members of the community
  Members,       \* users who joined, and so got a wallet, before any points moved
  Assigned,      \* users JOINED without a wallet: they were invited, then given a role
  Community,     \* the owner of the community wallet
  Requests,      \* slots for API calls that are in flight at the same time
  Amounts,       \* the transferPoints that clients send
  MaxTx,         \* bound: rows ever inserted into t_transactions
  MaxGen         \* bound: wallets ever created for one user

ASSUME UsersAssumption  == Community \notin Users
ASSUME MemberAssumption == Members \subseteq Users /\ IsFiniteSet(Members) /\ Assigned \subseteq Users
ASSUME AmountAssumption == Amounts \subseteq Int
ASSUME BoundAssumption  == MaxTx \in Nat /\ MaxGen \in Nat

VARIABLES
  wallets,   \* committed rows of t_wallets
  joined,    \* users whose committed membership is JOINED
  minted,    \* minted[u]: number of wallet rows ever inserted for user u
  ledger,    \* committed rows of t_transactions
  view,      \* ids of the rows the last refresh of mv_current_points summed up
  clock,     \* ids handed out so far
  pc,        \* pc[r]: next step of request r
  job,       \* job[r]: the call that request r serves
  seen,      \* seen[r]: the sender row read for validation
  dest,      \* dest[r]: the receiver's wallet, and whether r has inserted it or the membership
  retried,   \* retried[r]: the view was already refreshed for the pending lookup
  pend,      \* pend[r]: the transaction row request r has inserted
  burned     \* history variable: points held by wallets when they were deleted

vars == <<wallets, joined, minted, ledger, view, clock, pc, job, seen, dest, retried, pend, burned>>
database == <<wallets, joined, minted, ledger, clock, burned>>

-----------------------------------------------------------------------------
(* Rows and what is computed from them *)

\* A wallet id names its owner and tells apart the wallets the owner has had.
CommunityWallet == <<Community, 1>>
Wallet == (Users \X (Nat \ {0})) \cup {CommunityWallet}
NoWallet == <<Community, 0>>     \* a NULL "from" or "to"
End == Wallet \cup {NoWallet}

Op == {"none", "issue", "grant", "donate", "contribute", "withdraw"}
Reason == {"NONE", "POINT_ISSUED", "GRANT", "DONATION", "CONTRIBUTION"}

\* The reasons findLatestReceivedTx accepts for the parent of a new row.
ReceivedReason == {"GRANT", "DONATION"}

\* parent = 0 and depth = 0 stand for NULL.  counted is a history field: the
\* debits of the sender that the balance check of this transfer counted.
Tx == [id: Nat, reason: Reason, from: End, to: End, points: Int,
       parent: Nat, depth: Nat, counted: SUBSET Nat]
NoTx == [id |-> 0, reason |-> "NONE", from |-> NoWallet, to |-> NoWallet,
         points |-> 0, parent |-> 0, depth |-> 0, counted |-> {}]

Ids(S) == {t.id : t \in S}

\* The sums of mv_current_points over the rows with the given ids.
Points(t) == t.points
Incoming(ids, w) == {t \in ledger : t.id \in ids /\ t.to = w}
Outgoing(ids, w) == {t \in ledger : t.id \in ids /\ t.from = w}
Balance(ids, w) ==
  MapThenSumSet(Points, Incoming(ids, w)) - MapThenSumSet(Points, Outgoing(ids, w))

\* The view has a row for exactly the wallets that occur in the rows it summed.
RowOf(w) == Ids(Incoming(view, w) \cup Outgoing(view, w))
HasRow(w) == RowOf(w) /= {}

\* What a wallet query returns with its currentPointView: basis says which
\* transactions its balance adds up, and is empty when that view is null.
Sight == [wallet: End, basis: SUBSET Nat]
NoSight == [wallet |-> NoWallet, basis |-> {}]
Look(w) == [wallet |-> w, basis |-> RowOf(w)]

\* new: the wallet is inserted; joins: so is the membership, or it is updated.
Dest == [wallet: End, new: BOOLEAN, joins: BOOLEAN]
NoDest == [wallet |-> NoWallet, new |-> FALSE, joins |-> FALSE]

Job == [op: Op, user: Users \cup {Community}, other: Users \cup {Community}, points: Int]
NoJob == [op |-> "none", user |-> Community, other |-> Community, points |-> 0]

\* findFirstExistingMemberWallet
WalletsOf(u) == {w \in wallets : w[1] = u}

\* Faulty: validates the amount but not the balance.
AmountOnly(s, n) == n > 0 /\ s.basis /= {}

\* validateTransfer: the amount is positive and the balance in the view covers it.
ValidTransfer(s, n) == n > 0 /\ s.basis /= {} /\ Balance(s.basis, s.wallet) >= n

\* findLatestReceivedTx, over committed rows: the one with the latest createdAt,
\* or NoTx when there is none.
ReceivedTx(w) == {t \in ledger : t.to = w /\ t.reason \in ReceivedReason}
LatestReceived(w) ==
  IF ReceivedTx(w) = {} THEN {NoTx}
  ELSE {t \in ReceivedTx(w) : \A o \in ReceivedTx(w) : o.id <= t.id}

\* The row that the service and its converter write for a request, given the
\* parent that donations and contributions are linked to.
ReasonOf == [issue |-> "POINT_ISSUED", grant |-> "GRANT",
             donate |-> "DONATION", contribute |-> "CONTRIBUTION"]
\* Faulty: counts down the chain.
LinkedDown(parent) == [parent |-> parent.id,
                       depth  |-> IF parent = NoTx THEN 0 ELSE parent.depth - 1]

Linked(parent) == [parent |-> parent.id,
                   depth  |-> IF parent = NoTx THEN 0 ELSE parent.depth + 1]
Link(op, parent) ==
  CASE op = "grant" -> [parent |-> 0, depth |-> 1]
    [] op \in {"donate", "contribute"} -> Linked(parent)
    [] OTHER -> [parent |-> 0, depth |-> 0]
NewTx(r, parent) ==
  [id |-> clock + 1, reason |-> ReasonOf[job[r].op],
   from |-> seen[r].wallet, to |-> dest[r].wallet, points |-> job[r].points,
   parent |-> Link(job[r].op, parent).parent, depth |-> Link(job[r].op, parent).depth,
   counted |-> Ids(Outgoing(seen[r].basis, seen[r].wallet))]

-----------------------------------------------------------------------------
(* Requests *)

Init ==
  /\ wallets = {CommunityWallet} \cup {<<u, 1>> : u \in Members}
  /\ joined = Members \cup Assigned
  /\ minted = [u \in Users |-> IF u \in Members THEN 1 ELSE 0]
  /\ ledger = {} /\ view = {} /\ clock = 0 /\ burned = 0
  /\ pc = [r \in Requests |-> "idle"]
  /\ job = [r \in Requests |-> NoJob]
  /\ seen = [r \in Requests |-> NoSight]
  /\ dest = [r \in Requests |-> NoDest]
  /\ retried = [r \in Requests |-> FALSE]
  /\ pend = [r \in Requests |-> NoTx]

Goto(r, label) == pc' = [pc EXCEPT ![r] = label]

\* The call returns or throws; a database transaction still open rolls back.
Finish(r) ==
  /\ Goto(r, "idle")
  /\ job' = [job EXCEPT ![r] = NoJob]
  /\ seen' = [seen EXCEPT ![r] = NoSight]
  /\ dest' = [dest EXCEPT ![r] = NoDest]
  /\ retried' = [retried EXCEPT ![r] = FALSE]
  /\ pend' = [pend EXCEPT ![r] = NoTx]

\* A client calls one of the mutations.  transactionIssueCommunityPoint and
\* transactionGrantCommunityPoint look the community wallet up first; it exists
\* as long as the community does.
Call(r, j, label) ==
  /\ pc[r] = "idle"
  /\ job' = [job EXCEPT ![r] = j]
  /\ Goto(r, label)
  /\ UNCHANGED <<database, view, seen, retried, pend>>

Request(op, u, v, n) == [op |-> op, user |-> u, other |-> v, points |-> n]

CallIssue(r, n) ==
  /\ Call(r, Request("issue", Community, Community, n), "insert")
  /\ dest' = [dest EXCEPT ![r].wallet = CommunityWallet]

CallGrant(r, v, n) ==
  Call(r, Request("grant", Community, v, n), "join") /\ UNCHANGED dest

CallDonate(r, u, v, n) ==
  Call(r, Request("donate", u, v, n), "from") /\ UNCHANGED dest

CallContribute(r, u, n) ==
  /\ Call(r, Request("contribute", u, Community, n), "from")
  /\ dest' = [dest EXCEPT ![r].wallet = CommunityWallet]

CallWithdraw(r, u) ==
  Call(r, Request("withdraw", u, Community, 0), "from") /\ UNCHANGED dest

-----------------------------------------------------------------------------
(* Looking wallets up *)

\* The user whose wallet request r looks up next.
Target(r) == IF pc[r] = "from" THEN job[r].user ELSE job[r].other

LookingUp(r) == pc[r] \in {"from", "to"}

\* findMemberWalletOrThrow: no such wallet.
LookupFails(r) ==
  /\ LookingUp(r)
  /\ WalletsOf(Target(r)) = {}
  /\ Finish(r)
  /\ UNCHANGED <<database, view>>

\* Faulty: looks the wallet up again for as long as the view has no row for it.
RefreshesForever(r) ==
  /\ LookingUp(r)
  /\ \E w \in WalletsOf(Target(r)) : ~HasRow(w)
  /\ view' = Ids(ledger)
  /\ UNCHANGED <<database, pc, job, seen, dest, pend, retried>>

\* refreshCurrentPointViewIfNotExist: the wallet has no row in the view, so the
\* view is refreshed in a database transaction of its own, and the wallet is
\* looked up once more.
LookupRefreshes(r) ==
  /\ LookingUp(r)
  /\ \E w \in WalletsOf(Target(r)) : ~HasRow(w)
  /\ ~retried[r]
  /\ view' = Ids(ledger)
  /\ retried' = [retried EXCEPT ![r] = TRUE]
  /\ UNCHANGED <<database, pc, job, seen, dest, pend>>

LookupReturns(r, w) ==
  /\ LookingUp(r)
  /\ w \in WalletsOf(Target(r))
  /\ HasRow(w) \/ retried[r]
  /\ retried' = [retried EXCEPT ![r] = FALSE]

\* The sender of a donation is read before the database transaction opens.
DonateFrom(r, w) ==
  /\ job[r].op = "donate" /\ pc[r] = "from"
  /\ LookupReturns(r, w)
  /\ seen' = [seen EXCEPT ![r] = Look(w)]
  /\ Goto(r, "to")
  /\ UNCHANGED <<database, view, job, dest, pend>>

DonateTo(r, w) ==
  /\ pc[r] = "to"
  /\ LookupReturns(r, w)
  /\ ValidTransfer(seen[r], job[r].points)
  /\ dest' = [dest EXCEPT ![r].wallet = w]
  /\ Goto(r, "insert")
  /\ UNCHANGED <<database, view, job, seen, pend>>

ContributeFrom(r, w) ==
  /\ job[r].op = "contribute" /\ pc[r] = "from"
  /\ LookupReturns(r, w)
  /\ ValidTransfer(Look(w), job[r].points)
  /\ seen' = [seen EXCEPT ![r] = Look(w)]
  /\ Goto(r, "insert")
  /\ UNCHANGED <<database, view, job, dest, pend>>

WithdrawFrom(r, w) ==
  /\ job[r].op = "withdraw" /\ pc[r] = "from"
  /\ LookupReturns(r, w)
  /\ seen' = [seen EXCEPT ![r] = Look(w)]
  /\ Goto(r, "delete")
  /\ UNCHANGED <<database, view, job, dest, pend>>

\* validateTransfer throws once the wallets are found.
TransferRejected(r, w) ==
  /\ w \in WalletsOf(Target(r))
  /\ HasRow(w) \/ retried[r]
  /\ \/ pc[r] = "to" /\ ~ValidTransfer(seen[r], job[r].points)
     \/ /\ pc[r] = "from" /\ job[r].op = "contribute"
        /\ ~ValidTransfer(Look(w), job[r].points)
  /\ Finish(r)
  /\ UNCHANGED <<database, view>>

\* Another grant has written, but not committed, the membership of the same user:
\* whoever writes it as well waits, and then fails on its unique key, or goes on
\* when it was there to be updated.
JoiningElsewhere(r) ==
  \E q \in Requests \ {r} : dest[q].joins /\ job[q].other = job[r].other

\* joinIfNeeded: who is JOINED already is read, and no row is locked.
JoinIfNeeded(r) ==
  /\ pc[r] = "join"
  /\ \/ job[r].other \in joined /\ UNCHANGED dest
     \/ /\ job[r].other \notin joined /\ ~JoiningElsewhere(r)
        /\ dest' = [dest EXCEPT ![r].joins = TRUE]
  /\ Goto(r, "wallet")
  /\ UNCHANGED <<database, view, job, seen, retried, pend>>

\* createMemberWalletIfNeeded and validateTransfer of a grant: two grants may both
\* find no wallet.
GrantWallet(r) ==
  /\ pc[r] = "wallet"
  /\ ValidTransfer(Look(CommunityWallet), job[r].points)
  /\ seen' = [seen EXCEPT ![r] = Look(CommunityWallet)]
  /\ Goto(r, "insert")
  /\ LET u == job[r].other IN
     \/ /\ \E w \in WalletsOf(u) : dest' = [dest EXCEPT ![r].wallet = w]
        /\ UNCHANGED minted
     \/ /\ WalletsOf(u) = {} /\ minted[u] < MaxGen
        /\ minted' = [minted EXCEPT ![u] = @ + 1]
        /\ dest' = [dest EXCEPT ![r] = [@ EXCEPT !.wallet = <<u, minted'[u]>>, !.new = TRUE]]
  /\ UNCHANGED <<wallets, joined, ledger, view, clock, burned, job, retried, pend>>

\* A grant fails validation, or on the membership another grant has just made.
GrantRejected(r) ==
  /\ \/ /\ pc[r] = "join"
        /\ job[r].other \notin joined /\ JoiningElsewhere(r)
     \/ /\ pc[r] = "wallet"
        /\ \/ ~ValidTransfer(Look(CommunityWallet), job[r].points)
           \/ WalletsOf(job[r].other) = {} /\ minted[job[r].other] = MaxGen
  /\ Finish(r)
  /\ UNCHANGED <<database, view>>

-----------------------------------------------------------------------------
(* Writing *)

\* The foreign keys of the row that r is about to insert.
EndsExist(r) ==
  /\ seen[r].wallet \in wallets \cup {NoWallet}
  /\ dest[r].wallet \in wallets \/ dest[r].new

Insert(r) ==
  /\ pc[r] = "insert"
  /\ EndsExist(r) /\ clock < MaxTx
  /\ \E parent \in LatestReceived(seen[r].wallet) :
       pend' = [pend EXCEPT ![r] = NewTx(r, parent)]
  /\ clock' = clock + 1
  /\ Goto(r, "commit")
  /\ UNCHANGED <<wallets, joined, minted, ledger, burned, view, job, seen, dest, retried>>

\* A foreign key fails: a wallet was deleted since it was read.
InsertFails(r) ==
  /\ pc[r] = "insert"
  /\ ~EndsExist(r) \/ clock = MaxTx
  /\ Finish(r)
  /\ UNCHANGED <<database, view>>

Commit(r) ==
  /\ pc[r] = "commit"
  /\ ledger' = ledger \cup {pend[r]}
  /\ wallets' = IF dest[r].new THEN wallets \cup {dest[r].wallet} ELSE wallets
  /\ joined' = IF dest[r].joins THEN joined \cup {job[r].other} ELSE joined
  /\ dest' = [dest EXCEPT ![r] = [@ EXCEPT !.new = FALSE, !.joins = FALSE]]
  /\ Goto(r, "refresh")
  /\ UNCHANGED <<minted, clock, burned, view, job, seen, retried, pend>>

\* Faulty: notifies before the view is refreshed.
NotifyFirst(r) ==
  /\ pc[r] = "refresh"
  /\ IF job[r].op \in {"grant", "donate"}
     THEN Goto(r, "notify") /\ UNCHANGED <<job, seen, dest, retried, pend>>
     ELSE Finish(r)
  /\ UNCHANGED <<database, view>>

\* refreshCurrentPoint, in a database transaction of its own
Refresh(r) ==
  /\ pc[r] = "refresh"
  /\ view' = Ids(ledger)
  /\ IF job[r].op \in {"grant", "donate"}
     THEN Goto(r, "notify") /\ UNCHANGED <<job, seen, dest, retried, pend>>
     ELSE Finish(r)
  /\ UNCHANGED database

\* The receiver is told, and may open the wallet at once.
Notify(r) == pc[r] = "notify" /\ Finish(r) /\ UNCHANGED <<database, view>>

\* Faulty: the rows of a deleted wallet lose their other end as well.
DetachBoth(t, w) ==
  IF w \in {t.from, t.to} THEN [t EXCEPT !.from = NoWallet, !.to = NoWallet] ELSE t

\* ON DELETE SET NULL of the two ends of a transaction
Detach(t, w) ==
  [t EXCEPT !.from = IF @ = w THEN NoWallet ELSE @, !.to = IF @ = w THEN NoWallet ELSE @]

\* Rows that others have inserted lock the wallets they refer to.
Referenced(w) == \E q \in Requests : pc[q] = "commit" /\ w \in {pend[q].from, pend[q].to}

\* deleteMembership and deleteMemberWallet, committed together
DeleteWallet(r) ==
  LET w == seen[r].wallet IN
  /\ pc[r] = "delete"
  /\ w \in wallets /\ job[r].user \in joined /\ ~Referenced(w)
  /\ wallets' = wallets \ {w}
  /\ joined' = joined \ {job[r].user}
  /\ ledger' = {Detach(t, w) : t \in ledger}
  /\ burned' = burned + Balance(Ids(ledger), w)
  /\ Finish(r)
  /\ UNCHANGED <<minted, clock, view>>

DeleteFails(r) ==
  /\ pc[r] = "delete"
  /\ seen[r].wallet \notin wallets \/ job[r].user \notin joined
  /\ Finish(r)
  /\ UNCHANGED <<database, view>>

\* The API process dies or a database transaction exceeds its ten seconds: what
\* is not committed is rolled back, what follows the commit is not done.
Crash(r) == pc[r] /= "idle" /\ Finish(r) /\ UNCHANGED <<database, view>>

\* The batch process refresh-point-views
RefreshBatch ==
  /\ view' = Ids(ledger)
  /\ UNCHANGED <<database, pc, job, seen, dest, retried, pend>>

-----------------------------------------------------------------------------
(* Specification *)

NewCall(r) ==
  \/ \E n \in Amounts : CallIssue(r, n)
  \/ \E v \in Users, n \in Amounts : CallGrant(r, v, n)
  \/ \E u, v \in Users, n \in Amounts : CallDonate(r, u, v, n)
  \/ \E u \in Users, n \in Amounts : CallContribute(r, u, n)
  \/ \E u \in Users : CallWithdraw(r, u)

\* What the server does next for a request it has accepted
Progress(r) ==
  \/ LookupFails(r) \/ LookupRefreshes(r)
  \/ \E w \in wallets : \/ DonateFrom(r, w) \/ DonateTo(r, w) \/ ContributeFrom(r, w)
                        \/ WithdrawFrom(r, w) \/ TransferRejected(r, w)
  \/ JoinIfNeeded(r) \/ GrantWallet(r) \/ GrantRejected(r)
  \/ Insert(r) \/ InsertFails(r) \/ Commit(r) \/ Refresh(r) \/ Notify(r)
  \/ DeleteWallet(r) \/ DeleteFails(r)

Next == (\E r \in Requests : NewCall(r) \/ Progress(r) \/ Crash(r)) \/ RefreshBatch

Spec == Init /\ [][Next]_vars

\* The event loop keeps serving every request it has accepted.
Fairness == \A r \in Requests : WF_vars(Progress(r))
FairSpec == Spec /\ Fairness

-----------------------------------------------------------------------------
(* Properties *)

Label == {"idle", "join", "wallet", "from", "to", "insert", "commit", "refresh", "notify", "delete"}

\* Every variable holds a value of its kind.
TypeOK ==
  /\ wallets \subseteq Wallet
  /\ joined \subseteq Users
  /\ minted \in [Users -> Nat]
  /\ ledger \subseteq Tx
  /\ view \subseteq Nat
  /\ clock \in Nat
  /\ pc \in [Requests -> Label]
  /\ job \in [Requests -> Job]
  /\ seen \in [Requests -> Sight]
  /\ dest \in [Requests -> Dest]
  /\ retried \in [Requests -> BOOLEAN]
  /\ pend \in [Requests -> Tx]

\* Points are neither made nor lost by transfers, however the requests
\* interleave: what the live wallets hold, with what deleted wallets held when
\* they were deleted, is what was issued.
Issued == {t \in ledger : t.reason = "POINT_ISSUED"}
Conservation ==
  MapThenSumSet(LAMBDA w : Balance(Ids(ledger), w), wallets) + burned
    = MapThenSumSet(Points, Issued)

\* A receiver who opens the wallet on a notification finds the transfer in the
\* balance: the view was refreshed after that transfer was committed.
NotifiedSeesPoints == \A r \in Requests : pc[r] = "notify" => pend[r].id \in view

\* A wallet is overdrawn only through a stale view: if every debit of a wallet
\* was validated against all earlier debits of it, and nothing but positive
\* amounts came in, its balance is not negative.
ValidatedInOrder(w) ==
  /\ \A t, e \in ledger : t.from = w /\ e.from = w /\ e.id < t.id => e.id \in t.counted
  /\ \A t \in ledger : t.to = w => t.points > 0
OverdraftNeedsStaleView ==
  \A w \in wallets : ValidatedInOrder(w) => Balance(Ids(ledger), w) >= 0

\* Both: balances account for what was issued, and are negative only through a
\* view that some debit was validated against too early.
BalancesSound == Conservation /\ OverdraftNeedsStaleView

\* parent_tx_id links rows into finite chains: a parent is an earlier row,
\* whose receiver sent the row (unless one of those wallets is gone), and
\* chain_depth counts the links.
LinkedToParent(t) ==
  \E p \in ledger :
    /\ p.id = t.parent /\ p.id < t.id
    /\ p.reason \in ReceivedReason
    /\ t.depth = p.depth + 1
    /\ p.to = t.from
ChainSound == \A t \in ledger : t.parent > 0 => LinkedToParent(t)

\* Every call ends, whatever waits for rows that others have locked.
EveryCallEnds == \A r \in Requests : pc[r] /= "idle" ~> pc[r] = "idle"

-----------------------------------------------------------------------------
(* Refinement *)

Accounts == INSTANCE PointAccounts WITH
  WalletIds <- (Users \X (1..MaxGen)) \cup {CommunityWallet},
  Opened <- {<<u, 1>> : u \in Members},
  account <- [w \in wallets |-> Balance(Ids(ledger), w)]

\* The ledger implements the accounts: each commit moves points between two
\* live wallets in one step, and every other step leaves all balances alone.
ImplementsAccounts == Accounts!Spec
=============================================================================
