---------------------------- MODULE IncentiveGrant ----------------------------
(***************************************************************************)
(* The signup bonus: t_incentive_grants, which says for each user whether  *)
(* the bonus was paid, and the calls that write it.  A user who joins the  *)
(* community is paid from the community wallet in the database transaction *)
(* that creates the membership; a payment that fails is recorded and can be*)
(* retried by an owner.                                                    *)
(*                                                                         *)
(* Every statement of a database transaction is a step of its own and sees *)
(* what others have committed (READ COMMITTED).  A transaction that wrote a*)
(* row keeps others from writing it until it commits or rolls back, and in *)
(* PostgreSQL a statement that fails leaves the transaction unusable: its  *)
(* COMMIT rolls back.                                                      *)
(*                                                                         *)
(* A member is a user with a JOINED membership and a wallet: both are made *)
(* and deleted in one transaction.  Abstracted: the amount of the bonus    *)
(* (one point), failure codes, attempt counts, messages.                   *)
(***************************************************************************)
EXTENDS Integers, FiniteSets

CONSTANTS
  Users,      \* users who may join the community
  Requests,   \* slots for API calls that are in flight at the same time
  MaxTx,      \* bound: bonus transactions ever inserted
  MaxFunds    \* bound: points ever issued to the community wallet

ASSUME BoundAssumption == MaxTx \in Nat /\ MaxFunds \in Nat

VARIABLES
  members,   \* committed members
  enabled,   \* the signup bonus is enabled for the community
  issued,    \* points issued to the community wallet
  bonuses,   \* committed bonus transactions
  grants,    \* grants[u]: the committed row of t_incentive_grants
  clock,     \* transaction ids handed out
  pc,        \* pc[r]: next step of request r
  job,       \* job[r]: the call that r serves
  joins,     \* joins[r]: r has inserted the membership and the wallet
  draft,     \* draft[r]: the grant row as r has written it, not yet committed
  paid,      \* paid[r]: id of the bonus transaction r has inserted, not yet committed
  aborted,   \* aborted[r]: a statement of r's transaction has failed
  reopened   \* history: users whose COMPLETED grant was marked FAILED

vars == <<members, enabled, issued, bonuses, grants, clock, pc, job, joins, draft,
          paid, aborted, reopened>>
community == <<members, enabled, issued>>
committed == <<members, enabled, issued, bonuses, grants, clock, reopened>>
local == <<job, joins, draft, paid, aborted>>

-----------------------------------------------------------------------------
(* Rows *)

Status == {"NONE", "PENDING", "RETRYING", "COMPLETED", "FAILED"}

\* status "NONE": there is no row.  tx = 0: transaction_id is NULL.
Grant == [status: Status, tx: Nat]
NoGrant == [status |-> "NONE", tx |-> 0]

Bonus == [id: Nat, user: Users]

\* The community wallet, summed up from the transaction table.
Funds == issued - Cardinality(bonuses)

Job == [op: {"none", "accept", "retry"}, users: SUBSET Users]
NoJob == [op |-> "none", users |-> {}]

\* The rows that request r writes are those of its user.
Serves(r, u) == u \in job[r].users

\* Some other request has written the grant row, or the membership, of u.
GrantLocked(r, u) == \E q \in Requests \ {r} : Serves(q, u) /\ draft[q] /= NoGrant
MemberLocked(r, u) == \E q \in Requests \ {r} : Serves(q, u) /\ joins[q]

\* What r sees of u's membership and wallet.
IsMember(r, u) == u \in members \/ joins[r]

-----------------------------------------------------------------------------
(* Requests *)

Init ==
  /\ members \in SUBSET Users /\ enabled \in BOOLEAN
  /\ issued = 0 /\ bonuses = {} /\ clock = 0 /\ reopened = {}
  /\ grants = [u \in Users |-> NoGrant]
  /\ pc = [r \in Requests |-> "idle"]
  /\ job = [r \in Requests |-> NoJob]
  /\ joins = [r \in Requests |-> FALSE]
  /\ draft = [r \in Requests |-> NoGrant]
  /\ paid = [r \in Requests |-> 0]
  /\ aborted = [r \in Requests |-> FALSE]

Goto(r, label) == pc' = [pc EXCEPT ![r] = label]

\* The transaction of r ends, whether it committed or rolled back.
EndTransaction(r) ==
  /\ joins' = [joins EXCEPT ![r] = FALSE]
  /\ draft' = [draft EXCEPT ![r] = NoGrant]
  /\ paid' = [paid EXCEPT ![r] = 0]
  /\ aborted' = [aborted EXCEPT ![r] = FALSE]

Finish(r) ==
  /\ Goto(r, "idle")
  /\ job' = [job EXCEPT ![r] = NoJob]
  /\ EndTransaction(r)

Write(r, g) == draft' = [draft EXCEPT ![r] = g]

\* userAcceptMyInvitation, and the sign-up and sign-in flows that let a user join
Accept(r, u) ==
  /\ pc[r] = "idle"
  /\ job' = [job EXCEPT ![r] = [op |-> "accept", users |-> {u}]]
  /\ Goto(r, "find")
  /\ UNCHANGED <<committed, joins, draft, paid, aborted>>

\* ownerRetryIncentiveGrant
Retry(r, u) ==
  /\ pc[r] = "idle"
  /\ job' = [job EXCEPT ![r] = [op |-> "retry", users |-> {u}]]
  /\ Goto(r, "load")
  /\ UNCHANGED <<committed, joins, draft, paid, aborted>>

\* The call throws.  A retry then records the failure in a second transaction,
\* unless the error is one of validation.
Throw(r) ==
  IF job[r].op = "retry" /\ pc[r] \notin {"late", "fail"}
  THEN Goto(r, "late") /\ EndTransaction(r) /\ UNCHANGED job
  ELSE Finish(r)

-----------------------------------------------------------------------------
(* Joining *)

\* joinIfNeeded finds no membership, or one to use.
FindMembership(r, u) ==
  /\ pc[r] = "find" /\ Serves(r, u)
  /\ Goto(r, IF u \in members THEN "config" ELSE "join")
  /\ UNCHANGED <<committed, local>>

\* It inserts or updates the row, and createMemberWalletIfNeeded the wallet, once
\* no other transaction holds that row.
InsertMembership(r, u) ==
  /\ pc[r] = "join" /\ Serves(r, u)
  /\ ~MemberLocked(r, u)
  /\ u \notin members
  /\ joins' = [joins EXCEPT ![r] = TRUE]
  /\ Goto(r, "config")
  /\ UNCHANGED <<committed, job, draft, paid, aborted>>

\* Another call has joined the user meanwhile: an insert fails on the primary
\* key, the update of an invitation succeeds.
AlreadyJoined(r, u) ==
  /\ pc[r] = "join" /\ Serves(r, u)
  /\ ~MemberLocked(r, u)
  /\ u \in members
  /\ \/ Finish(r)
     \/ Goto(r, "config") /\ UNCHANGED local
  /\ UNCHANGED committed

-----------------------------------------------------------------------------
(* Claiming the grant *)

\* The bonus is disabled: a call that joins commits, a retry is refused.
BonusDisabled(r) ==
  /\ pc[r] = "config" /\ ~enabled
  /\ IF job[r].op = "accept" THEN Goto(r, "commit") /\ UNCHANGED local ELSE Finish(r)
  /\ UNCHANGED committed

BonusEnabled(r) ==
  /\ pc[r] = "config" /\ enabled
  /\ Goto(r, IF job[r].op = "accept" THEN "create" ELSE "balance")
  /\ UNCHANGED <<committed, local>>

\* repository.create: the unique key of the grant makes others wait.
CreatePending(r, u) ==
  /\ pc[r] = "create" /\ Serves(r, u)
  /\ ~GrantLocked(r, u)
  /\ grants[u].status = "NONE"
  /\ Write(r, [status |-> "PENDING", tx |-> 0])
  /\ Goto(r, "balance")
  /\ UNCHANGED <<committed, job, joins, paid, aborted>>

\* P2002: the code returns "already granted"; the database has failed a statement.
GrantExists(r, u) ==
  /\ pc[r] = "create" /\ Serves(r, u)
  /\ ~GrantLocked(r, u)
  /\ grants[u].status /= "NONE"
  /\ aborted' = [aborted EXCEPT ![r] = TRUE]
  /\ Goto(r, "commit")
  /\ UNCHANGED <<committed, job, joins, draft, paid>>

\* findInTransaction: only a FAILED grant can be retried.
LoadGrant(r, u) ==
  /\ pc[r] = "load" /\ Serves(r, u)
  /\ IF grants[u].status = "FAILED" THEN Goto(r, "mark") /\ UNCHANGED local ELSE Finish(r)
  /\ UNCHANGED committed

\* Faulty: marks the row whatever its status has become.
MarkAny(r, u) ==
  /\ pc[r] = "mark" /\ Serves(r, u)
  /\ ~GrantLocked(r, u)
  /\ Write(r, [grants[u] EXCEPT !.status = "RETRYING"])
  /\ Goto(r, "config")
  /\ UNCHANGED <<committed, job, joins, paid, aborted>>

\* markAsRetrying: the row is locked and its status is compared again.
MarkRetrying(r, u) ==
  /\ pc[r] = "mark" /\ Serves(r, u)
  /\ ~GrantLocked(r, u)
  /\ grants[u].status = "FAILED"
  /\ Write(r, [grants[u] EXCEPT !.status = "RETRYING"])
  /\ Goto(r, "config")
  /\ UNCHANGED <<committed, job, joins, paid, aborted>>

\* ConcurrentRetryError, one of the validation errors
RetriedElsewhere(r, u) ==
  /\ pc[r] = "mark" /\ Serves(r, u)
  /\ ~GrantLocked(r, u)
  /\ grants[u].status /= "FAILED"
  /\ Finish(r)
  /\ UNCHANGED committed

-----------------------------------------------------------------------------
(* Paying *)

\* Faulty: a failed signup bonus stays PENDING.
GrantStaysPending(r) ==
  /\ IF job[r].op = "accept"
     THEN Goto(r, "commit") /\ UNCHANGED local
     ELSE Throw(r)
  /\ UNCHANGED committed

\* The bonus cannot be paid.  A call that joins writes FAILED into its grant and
\* commits; a retry rolls back.
GrantFails(r) ==
  /\ IF job[r].op = "accept"
     THEN Write(r, [draft[r] EXCEPT !.status = "FAILED"]) /\ Goto(r, "commit")
          /\ UNCHANGED <<job, joins, paid, aborted>>
     ELSE Throw(r)
  /\ UNCHANGED committed

\* checkCommunityWalletBalanceInTransaction
CheckBalance(r) ==
  /\ pc[r] = "balance" /\ Funds >= 1
  /\ Goto(r, "wallet")
  /\ UNCHANGED <<committed, local>>

\* Faulty: a retry waits for the wallet to be filled.
AwaitFunds(r) ==
  /\ pc[r] = "balance" /\ Funds < 1
  /\ IF job[r].op = "accept" THEN GrantFails(r)
     ELSE Goto(r, "config") /\ UNCHANGED <<committed, local>>

InsufficientFunds(r) == pc[r] = "balance" /\ Funds < 1 /\ GrantFails(r)

\* findMemberWalletOrThrow
FindWallet(r, u) ==
  /\ pc[r] = "wallet" /\ Serves(r, u)
  /\ IsMember(r, u)
  /\ Goto(r, "pay")
  /\ UNCHANGED <<committed, local>>

\* The refresh of the balance view, a transaction of its own, fails.
RefreshFails(r) == pc[r] = "wallet" /\ GrantFails(r)

\* The user has left.  A retry treats NotFoundError as one of validation.
WalletMissing(r, u) ==
  /\ pc[r] = "wallet" /\ Serves(r, u)
  /\ ~IsMember(r, u)
  /\ IF job[r].op = "accept" THEN GrantFails(r) ELSE Finish(r) /\ UNCHANGED committed

\* Faulty: no foreign key from the transaction to the wallet.
HasWallet(r, u) == TRUE

\* Faulty: the wallet is looked for outside the transaction that creates it.
WalletCommitted(r, u) == u \in members

\* The foreign key of the new transaction
WalletExists(r, u) == IsMember(r, u)

\* grantSignupBonus
Pay(r, u) ==
  /\ pc[r] = "pay" /\ Serves(r, u)
  /\ WalletExists(r, u) /\ clock < MaxTx
  /\ clock' = clock + 1
  /\ paid' = [paid EXCEPT ![r] = clock + 1]
  /\ Goto(r, "complete")
  /\ UNCHANGED <<community, bonuses, grants, reopened, job, joins, draft, aborted>>

\* markAsCompleted
Complete(r) ==
  /\ pc[r] = "complete"
  /\ Write(r, [status |-> "COMPLETED", tx |-> paid[r]])
  /\ Goto(r, "commit")
  /\ UNCHANGED <<committed, job, joins, paid, aborted>>

\* The insert fails, and with it the transaction: FAILED cannot be written.
PayFails(r, u) ==
  /\ pc[r] = "pay" /\ Serves(r, u)
  /\ ~WalletExists(r, u) \/ clock = MaxTx
  /\ IF job[r].op = "accept"
     THEN aborted' = [aborted EXCEPT ![r] = TRUE] /\ Goto(r, "commit")
          /\ UNCHANGED <<job, joins, draft, paid>>
     ELSE Throw(r)
  /\ UNCHANGED committed

\* A retry goes on to notify the user; a call that joined reports the membership.
AfterCommit(r) == Goto(r, IF job[r].op = "retry" THEN "notify" ELSE "joined")

Commit(r, u) ==
  /\ pc[r] = "commit" /\ Serves(r, u) /\ ~aborted[r]
  /\ members' = IF joins[r] THEN members \cup {u} ELSE members
  /\ grants' = IF draft[r] = NoGrant THEN grants ELSE [grants EXCEPT ![u] = draft[r]]
  /\ bonuses' = IF paid[r] = 0 THEN bonuses ELSE bonuses \cup {[id |-> paid[r], user |-> u]}
  /\ EndTransaction(r) /\ AfterCommit(r)
  /\ UNCHANGED <<enabled, issued, clock, reopened, job>>

\* PostgreSQL answers the COMMIT of a failed transaction with ROLLBACK, which is
\* no error to the caller.
CommitAborted(r) ==
  /\ pc[r] = "commit" /\ aborted[r]
  /\ EndTransaction(r) /\ AfterCommit(r)
  /\ UNCHANGED <<committed, job>>

\* The call returns.  A retry reads the community first, which may throw.
Return(r) ==
  /\ pc[r] \in {"notify", "joined"}
  /\ \/ Finish(r)
     \/ pc[r] = "notify" /\ Throw(r)
  /\ UNCHANGED committed

-----------------------------------------------------------------------------
(* Recording the failure of a retry *)

\* updateFailedGrantStatus leaves a COMPLETED grant alone ...
CheckStatus(r, u) ==
  /\ pc[r] = "late" /\ Serves(r, u)
  /\ IF grants[u].status \in {"NONE", "COMPLETED"} THEN Finish(r)
     ELSE Goto(r, "fail") /\ UNCHANGED local
  /\ UNCHANGED committed

\* ... but markAsFailed, a statement later, does not look at the status.
MarkFailed(r, u) ==
  /\ pc[r] = "fail" /\ Serves(r, u)
  /\ ~GrantLocked(r, u)
  /\ grants' = [grants EXCEPT ![u].status = "FAILED"]
  /\ reopened' = IF grants[u].status = "COMPLETED" THEN reopened \cup {u} ELSE reopened
  /\ Finish(r)
  /\ UNCHANGED <<community, bonuses, clock>>

-----------------------------------------------------------------------------
(* Failures, and what else happens to the community *)

InTransaction(r) == pc[r] \notin {"idle", "joined", "notify"}

\* The transaction exceeds its ten seconds, or the database goes away.
TimeOut(r) == InTransaction(r) /\ Throw(r) /\ UNCHANGED committed

\* The API process dies; PostgreSQL rolls back.
Crash(r) == pc[r] /= "idle" /\ Finish(r) /\ UNCHANGED committed

\* The owner issues a point.
IssuePoint ==
  /\ issued < MaxFunds
  /\ issued' = issued + 1
  /\ UNCHANGED <<members, enabled, bonuses, grants, clock, pc, local, reopened>>

\* communityUpdateSignupBonusConfig
SetEnabled ==
  /\ enabled' = ~enabled
  /\ UNCHANGED <<members, issued, bonuses, grants, clock, pc, local, reopened>>

\* A member leaves, and the wallet is deleted; a transaction that another call
\* has inserted keeps its wallet from being deleted.  The grant row stays.
Leave(u) ==
  /\ u \in members
  /\ ~\E q \in Requests : Serves(q, u) /\ paid[q] /= 0
  /\ members' = members \ {u}
  /\ UNCHANGED <<enabled, issued, bonuses, grants, clock, pc, local, reopened>>

-----------------------------------------------------------------------------
(* Specification *)

Progress(r) ==
  \/ \E u \in Users :
       \/ FindMembership(r, u) \/ InsertMembership(r, u) \/ AlreadyJoined(r, u)
       \/ CreatePending(r, u) \/ GrantExists(r, u)
       \/ LoadGrant(r, u) \/ MarkRetrying(r, u) \/ RetriedElsewhere(r, u)
       \/ FindWallet(r, u) \/ WalletMissing(r, u) \/ Pay(r, u) \/ PayFails(r, u)
       \/ Commit(r, u) \/ CheckStatus(r, u) \/ MarkFailed(r, u)
  \/ BonusDisabled(r) \/ BonusEnabled(r) \/ CheckBalance(r) \/ InsufficientFunds(r)
  \/ Complete(r) \/ RefreshFails(r) \/ CommitAborted(r) \/ Return(r)

Next ==
  \/ \E r \in Requests, u \in Users : Accept(r, u) \/ Retry(r, u)
  \/ \E r \in Requests : Progress(r) \/ TimeOut(r) \/ Crash(r)
  \/ IssuePoint \/ SetEnabled
  \/ \E u \in Users : Leave(u)

Spec == Init /\ [][Next]_vars

\* The event loop keeps serving every call it has accepted, and PostgreSQL hands
\* a row lock to the transactions that wait for it in turn.
Fairness == \A r \in Requests : SF_vars(Progress(r))
FairSpec == Spec /\ Fairness

-----------------------------------------------------------------------------
(* Properties *)

Label == {"idle", "find", "join", "config", "create", "load", "mark", "balance", "wallet",
          "pay", "complete", "commit", "joined", "notify", "late", "fail"}

\* Every variable holds a value of its kind.
TypeOK ==
  /\ members \subseteq Users /\ enabled \in BOOLEAN /\ issued \in Nat
  /\ bonuses \subseteq Bonus /\ clock \in Nat /\ reopened \subseteq Users
  /\ grants \in [Users -> Grant]
  /\ pc \in [Requests -> Label]
  /\ job \in [Requests -> Job]
  /\ joins \in [Requests -> BOOLEAN]
  /\ draft \in [Requests -> Grant]
  /\ paid \in [Requests -> Nat]
  /\ aborted \in [Requests -> BOOLEAN]

\* PENDING and RETRYING live only inside a transaction: after any failure, at any
\* step of any call, the row others see is retryable or paid.
NoGrantLeftInProgress == \A u \in Users : grants[u].status \notin {"PENDING", "RETRYING"}

\* However calls interleave, every bonus of a user is the one the grant row
\* names, so that there is one at most, unless a late failure mark reopened a
\* grant that was COMPLETED.
BonusPaidOnce ==
  \A b \in bonuses : b.user \notin reopened => grants[b.user].tx = b.id
                                               /\ grants[b.user].status = "COMPLETED"

\* A bonus is paid to a member, even when the user leaves while it is retried.
PaidToMember == [][\A b \in bonuses' \ bonuses : b.user \in members']_vars

\* Every call ends, whatever row it waits for: waiting calls never wait for each
\* other.
EveryCallEnds == \A r \in Requests : pc[r] /= "idle" ~> pc[r] = "idle"

\* A call that inserted the membership and reports it has committed it, unless a
\* grant row from an earlier membership failed the transaction (or the transactions
\* of this instance are used up).
JoinLostNeedsGrant ==
  [][\A r \in Requests, u \in Users :
       joins[r] /\ pc'[r] = "joined" /\ Serves(r, u) =>
         u \in members' \/ grants[u].status /= "NONE" \/ clock = MaxTx]_vars
=============================================================================
