# civicship-api in TLA+

civicship-api is a GraphQL server (TypeScript, Prisma, PostgreSQL) for local
communities: members earn and pass on points, take part in opportunities, hold
decentralised identifiers (DIDs) and verifiable credentials. The state is in
PostgreSQL. The process keeps nothing between two calls, so that all that is hard
happens between the *statements* of concurrent calls: transactions run at READ
COMMITTED, many checks are made before a transaction opens, and some steps happen
after it has ended. This directory models the parts where that matters, checks them
with TLC and proves their safety properties with TLAPS.

Paths of code are relative to the repository unless they start with `domain/`,
which stands for `src/application/domain/`.

- [1. The system](#1-the-system)
- [2. The modules](#2-the-modules)
- [3. The runs](#3-the-runs)
- [4. Fairness and deadlock](#4-fairness-and-deadlock)
- [5. The proofs](#5-the-proofs)
- [6. Divergences](#6-divergences)
- [7. What is left out](#7-what-is-left-out)
- [8. Plan](#8-plan)

To check a run: `tlc -workers 2 -config PointLedger.cfg MCPointLedger`; to check the
proofs of a module: `tlapm PointLedgerProofs.tla`.

## 1. The system

### How a call runs

A GraphQL resolver, an HTTP route or a batch calls a *use case*; the use case reads
through services and repositories and opens database transactions with
`ctx.issuer.public`, `onlyBelongingCommunity`, `admin` or `internal`
(`src/infrastructure/prisma/client.ts`). Each is an interactive Prisma transaction
with a timeout (10 s by default) and PostgreSQL's default isolation, READ COMMITTED.
From this follow the rules that all modules share:

- a statement sees what other transactions have committed before it began, and what
  its own transaction has written;
- a row that a transaction has written, and a unique key it has inserted, keep other
  writers waiting until it ends; readers never wait;
- the writes of a transaction become visible together, when it commits;
- after a statement has failed, the transaction is lost: PostgreSQL answers its
  COMMIT with a ROLLBACK, and reports no error;
- the process may die and the timeout may strike between any two statements.

One *request* of a model (`Requests`) is one call in flight; `pc[r]` is the statement
it runs next, `job[r]` what it has in memory. Between two requests anything can
interleave at these points.

### Components

| Component | State | Operations | What is hard about it | Module |
|---|---|---|---|---|
| Point ledger (`domain/transaction`, `domain/account/wallet`) | `t_wallets`, `t_transactions`, `mv_current_points` | issue, grant, donate, contribute; leaving a community; `refresh-point-views` | balances come from a materialized view refreshed in a later transaction; wallets are deleted under transfers in flight; parents are found by `createdAt` | `PointLedger` |
| Incentive grants (`domain/transaction/incentiveGrant`) | `t_incentive_grants` with the bonus's transaction | joining with a bonus, the owner's retry, recording its failure, the switch in the community's configuration | two retries at once; errors caught inside a transaction; a failure recorded in a second transaction | `IncentiveGrant` |
| Reservations, slots, participations, evaluations (`domain/experience`) | `t_reservations`, `t_opportunity_slots`, `t_participations`, `t_evaluations` and the payments between reserver and creator | reserve, cancel, accept, reject, join, cancel a slot, edit a slot or its opportunity, evaluate; `completeOpportunitySlots` | checks before the transaction; calls that look at no current status; refunds at the price of the moment; lock order; duplicates that are skipped; rewards in a transaction of their own | `Reservation` |
| Anchor batch and user DIDs (`domain/anchor/anchorBatch`, `domain/account/userDid`, `libs/blockfrost`) | `t_user_did_anchors`; the issuer's unspent output and its transactions on Cardano | DID create, update, deactivate; the weekly batch: read, claim, build, submit, mark, confirm, fail | overlapping runs; lost answers; confirmations after the timeout; a crash at any step | `AnchorBatch` |
| Credential issuance and status list (`domain/credential`) | `t_vc_issuance_requests`, `t_status_list_credentials` | issue, revoke, the cascade of a DID's deactivation; allocation and rollover of lists | a shared bitstring that is read and written as a whole; slots of a list; a cascade against concurrent issues | `StatusList` |
| Memberships (`domain/account/membership`) | `t_memberships`, with the wallet of the pair | invite, accept, deny, cancel, leave, remove, roles; joining on the way (signup, ticket, grant); the reward of an evaluation | statuses that are not compared; a wallet that no constraint keeps to one per member; a role that is written back as it was read | `Membership` |
| Identities and users (`domain/account/identity`, `user`) | `t_users`, `t_identities` | sign-up, the check of a phone, linking a phone, deletion of the account | the phone's uniqueness rests on looks before the insert; a signup is two transactions | `SignUp` |
| Votes (`domain/vote`) | topics, options with counts, ballots | edit and delete a topic; cast and change a vote; deletion of a voter | counters beside the ballots; edits that read the topic before it opens; lock order; cascades | `Vote` |
| Reports (`domain/report`, `generateWeeklyReports`) | `t_reports`, the community's pointer | generate (owner, batch), judge, approve, publish, reject, supersede | a status table without compare-and-set; a report is judged while it can be decided on; a derived pointer | `Report` |
| NFT mint batches (`src/presentation/batch/syncNmkr`) | `t_nft_mints`, `t_nft_instances` and the mint service | queue, request, follow a mint | a call to a service inside a transaction that times out; overlapping runs; pages that skip rows | `NftMinting` |
| Tickets (`domain/reward`) | `t_tickets`, claim links, utilities | issue, claim, purchase, use, refund | a link checked before the transaction | not modelled (section 7) |
| Consistency batch (`checkReservationParticipationConsistency`) | participations | reports and repairs | repairs while calls run | not modelled (section 7) |
| Communities, opportunities, places, articles, images | one row each | create, update, delete | nothing that spans two rows and two calls | not modelled |
| NFT wallets and tokens, notifications, rich menus, analytics, GraphQL, middleware, logging, Merkle proofs, issuer keys | mirrors of external systems, or none | upserts, queries, messages | see the notes in `PROJECT.json` | not modelled |

### How the components interact

- *Shared rows.* A wallet is made by the transaction that makes the membership
  (joining, grants, invitations) and deleted with it. Reservations, evaluations and
  tickets write the same `t_transactions`. Sign-up ends in the joining that
  `Membership` and `IncentiveGrant` look at from their sides; deleting an account
  takes ballots, logins and memberships with it by cascades.
- *Calls within a transaction.* Joining calls the incentive grant service, cancelling
  a slot calls the reservation, participation and transaction services, deactivating
  a DID calls the credential cascade: all with the caller's `tx`.
- *Separate transactions.* The view is refreshed after the commit; the reward of an
  evaluation, the failure of a retried grant and each step of a batch run are
  transactions of their own.
- *Callbacks to the outside.* LINE notifications follow the refresh of the view;
  the anchor batch talks to Cardano through Blockfrost, the mint batches to NMKR, the
  reports to two language models.

### What makes each component correct

- *Ledger:* points are neither made nor lost; who is notified finds the points;
  parents form finite chains; each commit is one atomic step between two accounts.
- *Grants:* one bonus per user, paid to a member; nothing stuck half-way after a
  failure; calls that wait for each other's rows end.
- *Reservations:* seats agree with their reservation; the points paid follow the
  history; a participation is rewarded twice only by calls that overlap; a cancelled
  slot is closed; which calls can deadlock.
- *Anchoring:* an operation gets into one transaction; what is marked confirmed is on
  the chain; hash chains are right; nothing stays claimed for ever.
- *Credentials:* no two credentials share a bit; a verifier of the published list
  rejects the revoked ones and no others; a deactivated DID leaves nothing live.
- *Memberships:* who has joined has one wallet, and who has left none; the role is the
  one last assigned.
- *Sign-up:* a person is one user in all communities, found by the phone; a signup
  that failed half-way is completed.
- *Votes:* counts and powers follow the ballots; ballots do not disappear; which
  transactions can deadlock.
- *Reports:* no transition outside the table; one live report a week; a low score
  rejects; the pointer names the newest published report.
- *Minting:* a token is requested once, followed until it is owned, and owned only when
  it is minted; no queued mint is passed over for ever.

The full list of hazards, each at its line, is in `PROJECT.json`.

## 2. The modules

```
component                                   for TLC            proofs
PointAccounts <--refines-- PointLedger      MCPointLedger      PointLedgerProofs
                           IncentiveGrant   MCIncentiveGrant   IncentiveGrantProofs
                           Reservation      MCReservation      ReservationProofs
                           AnchorBatch      MCAnchorBatch      BatchProofs
                           NftMinting       MCNftMinting       BatchProofs
                           StatusList       MCStatusList       StatusListProofs
                           Membership       MCMembership       MembershipProofs
                           SignUp           MCSignUp           MembershipProofs
                           Report           MCReport           ReportVoteProofs
VotePoll      <--refines-- Vote             MCVote             ReportVoteProofs

FiniteSums: facts about sums over finite sets, for PointLedgerProofs,
            ReportVoteProofs and BatchProofs
```

The two modules in the last columns EXTEND the component's module. A module of proofs
may extend two components, which is why the names of one of the two carry a prefix
(`VoteNext`, `MintNext`, `SignUpNext`). The refinement mappings are in `PointLedger`
(`Accounts`, `ImplementsAccounts`) and `Vote` (`Poll`, `ImplementsPoll`), so that the
runs and the theorems speak of the same formula.

The modules meet where the code's components do, in rows and not in calls: a join is
one step with its wallet in `IncentiveGrant`, a sequence of statements on the
membership and the wallet in `Membership` and, within a grant, in `PointLedger`, and the
last step of a call in `SignUp`; what a wallet holds is `PointLedger`'s.

`MC…` modules hold what only TLC needs: symmetry and values for constants. `PROJECT.json` maps each definition to the lines it models.
Definitions introduced by "Faulty:" are not part of any specification. Each is a
definition as a plausible bug would write it; put in its place, it violates one of
the properties, which shows that the property watches that line. Variables commented
"history" record what happened for the sake of a property and guard nothing.

### PointLedger, PointAccounts

| Model | Code |
|---|---|
| `wallets`, `minted` | `t_wallets`; a wallet id is `<<owner, generation>>`, because a member who leaves and returns gets a new row |
| `joined`, `Assigned` | memberships that are JOINED; those who are JOINED without a wallet when the model begins: they were invited, and then given a role (`setRole` makes no wallet) |
| `ledger`, `clock` | `t_transactions`; `clock` hands out ids, which are `createdAt` too: both are fixed at the insert, before the commit |
| `view` | the ids of the transactions that the last `REFRESH MATERIALIZED VIEW` has summed up |
| `seen`, `dest`, `retried`, `pend` | the sender row read for validation, the receiver's wallet and whether the call has inserted it or its membership, the one retry of a lookup, the inserted row |
| `Call…` | the mutations issue, grant, donate, contribute (`domain/transaction/usecase.ts`), withdraw and remove (`domain/account/membership/usecase.ts`) |
| `LookupRefreshes`, `LookupReturns`, `LookupFails` | `findMemberWalletOrThrow`, `refreshCurrentPointViewIfNotExist` (`domain/account/wallet/service.ts`) |
| `DonateFrom`, `DonateTo`, `ContributeFrom`, `…Rejected` | the reads of each use case in the order it makes them, and `validateTransfer` |
| `JoinIfNeeded`, `GrantWallet` | a grant's `joinIfNeeded`, which locks no row of a member who is JOINED, and `createMemberWalletIfNeeded`, which looks for a wallet and then inserts one |
| `Insert`, `InsertFails`, `Commit` | the transaction service and converter, foreign keys, parent and `chainDepth` |
| `Refresh`, `Notify`, `RefreshBatch` | `refreshCurrentPoint`, the notification, the batch `refresh-point-views` |
| `DeleteWallet`, `DeleteFails` | `deleteMembership`, `deleteMemberWallet`, `ON DELETE SET NULL` |
| `Crash` | the process dies, or the transaction times out, anywhere |

Two grants to a member who is JOINED without a wallet both look, find none, and make
two wallets. What the ledger promises, it promises with them; when a member has one
wallet is a question to `Membership` (`WalletFollowsMembership`).

`PointAccounts` is what the ledger promises, seen from outside: balances that change
only by whole steps (issue, transfer, a grant that opens a wallet, the closing of a
wallet). It does *not* promise that a balance stays positive, because the code does
not keep that (section 6).

### IncentiveGrant

| Model | Code |
|---|---|
| `members` | a JOINED membership together with its wallet |
| `grants`, `bonuses` | `t_incentive_grants` and the bonus rows of `t_transactions` |
| `joins`, `draft`, `paid`, `aborted` | what r's transaction has written, and whether a statement of it has failed |
| `Accept`, `FindMembership`, `InsertMembership`, `AlreadyJoined` | `userAcceptMyInvitation`, `joinIfNeeded` |
| `CreatePending`, `GrantExists`, `BonusDisabled`, `GrantFails` | `grantSignupBonusIfEnabled` |
| `Retry`, `LoadGrant`, `MarkRetrying`, `RetriedElsewhere` | `ownerRetryIncentiveGrant`, `retryFailedGrant`, `markAsRetrying` |
| `CheckBalance`, `FindWallet`, `Pay`, `Complete`, `PayFails` | the payment, common to both |
| `Commit`, `CommitAborted` | COMMIT, and COMMIT of a failed transaction |
| `CheckStatus`, `MarkFailed` | `updateFailedGrantStatus`, in a second transaction |
| `IssuePoint`, `SetEnabled`, `Leave` | other calls, as one step each |

### Reservation

One slot. `book` and `seats` are its reservations and their participations, `net` the
points that the reserver has paid the creator less refunds, `slot` the row of the slot
and `opportunity` that of its opportunity (price and `requireApproval`), `period` the
four parts of the calendar that the validators tell apart. `job[r]` is what r has read,
and what it has locked: `rows` and `seatRows` are reservations and participations, `keys`
the evaluations it has inserted.

| Model | Code |
|---|---|
| `Reserve`, `CreateReservation` | `userReserveParticipation`: the checks and the price before, the transaction |
| `Cancel`, `Decide`, `SetStatus`, `CommitStatus` | `userCancelMyReservation`, `managerAcceptReservation`, `managerRejectReservation` |
| `LockSeat` | an `updateMany` of participations, or one update after the other: the rows are locked one by one, in any order |
| `Refund` | `processReservationRefund`: the points the opportunity requires when the reservation is read again, times the participants paid for |
| `CancelSlot`, `SetHosting`, `RejectNext`, `CommitSlotCancel` | `managerSetOpportunitySlotHostingStatus` with CANCELLED |
| `EditSlot`, `EditOpportunity` | the same with another status and `managerBulkUpdateOpportunitySlots`; `managerUpdateOpportunityContent` |
| `FindPast`, `CompleteSlot` | the batch `completeOpportunitySlots` |
| `Join`, `JoinSeat` | `userJoinReservation` |
| `Evaluate` | `managerBulkCreateEvaluations`: the check of each participation of a list, before the transaction |
| `InsertEvaluation`, `ReadEvaluations` | `createMany` with `skipDuplicates`, which waits for an evaluation that another call has inserted and then passes over it; the evaluations of all the participations, whoever made them |
| `CommitEvaluations`, `Reward` | the participations, updated one by one in the order of the input (`LockSeat`); the reward of each evaluation that passed, in a transaction of its own |
| `Fail` | a check, a payment or the database fails, the process dies, a deadlock is broken |

The writes of a transaction are applied at its commit, by actions that compute them
from the rows they change: locks keep those rows as they were when they were written.
Whom a refund is taken from (the opportunity's creator of that moment) is not modelled:
`net` is what the reserver has paid, whoever got it.

### AnchorBatch

| Model | Code |
|---|---|
| `anchors` | `t_user_did_anchors`; `prev` is `previousAnchorId`, `batch` is `batchId`, `tx` is `chainTxHash` |
| `chain`, `unspent` | Cardano as the issuer sees it (external) |
| `ReadDid`, `WriteDid` | `createDidForUser`, `updateDid`, `deactivateDid`: a read, then a write |
| `StartRun`, `FindPending`, `Claim`, `BuildOps`, `GetUtxos`, `Submit`, `MarkSubmitted`, `MarkConfirmed` | `runWeeklyBatch`, step by step |
| `Throw`, `MarkFailed` | any error after the claim, and the handler that records it |
| `Crash` | the process dies, or Cloud Run ends the request |
| `Settle`, `Expire` | a block takes the transaction, or its time to live ends |

Updates after the claim are by id, over all ids the run has *read*: `Mark` models
that, and `strayed` records the ids a run goes on with although it has not claimed
them.

### StatusList

| Model | Code |
|---|---|
| `lists[l]` | the list with `listKey` l: `nextIndex`, `frozen`, and the set bits of `encodedList` |
| `vcs[v]` | the credential issued for evaluation v (`evaluationId` is unique) |
| `dead` | users whose DID has a committed DEACTIVATE |
| `Issue`, `FindActive`, `NoneActive`, `ComputeKey`, `CreateList`, `KeyTaken`, `AllocateSlot`, `FrozenMeanwhile`, `CommitIssue` | `issueVc`, `allocateNextSlot`, `bootstrapNewList`, `allocateSlot` |
| `Revoke`, `ReadBits`, `WriteBits`, `CommitRevocation` | `revokeUserVc`, `revokeVc`, `updateBitstring`, `markVcRevoked` |
| `Deactivate` | `deactivateDid` with `cascadeRevokeForUser`, in one transaction |
| `Fail` | any error, at any step: everything is rolled back |

### Membership

One user in one community. A call is a transaction: `pc[c]` is its next statement, and
`holder` the call that has written the row and not ended.

| Model | Code |
|---|---|
| `row`, `wallets` | the row of `t_memberships`, unique for user and community; the user's rows of `t_wallets` there |
| `Invite` | `inviteMember`, which reads nothing |
| `Join` | `joinIfNeeded`, from accepting an invitation, signing up, a ticket or a grant |
| `Reward` | the reward of an evaluation, which makes a wallet without asking for a membership |
| `Change` | cancelling and denying an invitation, withdrawing and removing, the three mutations that assign a role |
| `WriteRow`, `RefuseWrite` | the statement by key, which compares no status; P2002 and P2025 |
| `CreateWalletIfNeeded`, `DeleteWallet`, `RefuseRemoval` | `createMemberWalletIfNeeded`, `deleteMemberWallet` |
| `Commit`, `Abort` | the end of the transaction |

### SignUp

One person with one phone and a LINE login in each community: the users the system
takes these for.

| Model | Code |
|---|---|
| `users`, `line`, `phone` | `t_users`; `t_identities` with a community (LINE) and without (phone) |
| `members`, `invited` | `t_memberships`: JOINED, and of another status (an invitation makes a PENDING row, its cancellation or denial a LEFT one) |
| `FindByPhone`, `FindByLine`, `LookAgain`, `Link`, `FindLogin`, `AddLogin`, `Enrol` | the three outcomes of `checkPhoneUser`, before and in its transaction |
| `StartLink` | `linkPhoneAuth` |
| `SignUp`, `CreateUser`, `Enrol` | `userCreateAccount`: the user with the logins, then the membership |
| `Refuse`, `Fail` | a unique key or a foreign key; a failure between two steps |
| `DeleteUser`, `Grant` | `userDeleteAccount`, and a grant (or an accepted invitation) that joins a user to a community |
| `InviteMember`, `LeaveMember`, `DeleteMember` | `inviteMember`; cancelling or denying an invitation; withdrawing and removing: other calls, as one step each |

### Report

The reports of one community for one week, and the pointer to the one published last.

| Model | Code |
|---|---|
| `report[r]`, `pointer` | rows of `t_reports`: status, whether the score is below the threshold, `publishedAt`; `last_published_report_id` |
| `OwnerGenerates`, `BatchGenerates` | `generateReport` and the weekly batch's look for a report |
| `LlmTimesOut`, `BeginInsert` | the call of the model ends; the transaction that supersedes the parent and inserts |
| `Decide`, `WriteStatus`, `LockStatus` | `approveReport`, `publishReport`, `rejectReport`: read, check against the table, write by id |
| `Derive`, `CommitDerived` | `recalculateCommunityLastPublished`: one UPDATE whose subquery has a snapshot of its own |
| `JudgeLow`, `JudgeOtherwise` | `judgeAndPersist` and its automatic rejection |
| `Abort` | an error, a timeout or a crash |

### Vote

One topic. Locks are not state: `Blockers(x)` computes from the program counters who
holds what x asks for next, and `Stuck` what a deadlock is.

| Model | Code |
|---|---|
| `phase` | `calcPhase`: upcoming, open, closed |
| `options`, `tally`, `ballot` | `t_vote_options` with `voteCount` and `totalPower`, `t_vote_ballots` |
| `BeginCast`, `FindBallot`, `Upsert`, `WriteFirst`, `WriteSecond` | `userCastVote` under `acquireVoteLock`, `updateOptionCounts` option by option in the order of the ids |
| `ReadTopic`, `LockTopic`, `LockOption`, `CommitEdit`, `CommitDelete` | `managerUpdateVoteTopic`, `managerDeleteVoteTopic` and their cascades |
| `RefuseVoter`, `RefuseBallot`, `RefuseEdit`, `Drop` | eligibility, foreign keys, a missing row; any failure |
| `Opens`, `Closes`, `DeleteUser` | time; the deletion of a voter's account |

`VotePoll` is what a topic promises, seen from outside: a cast is one step, in which
one ballot moves and what the options show changes by just that (`Cast`); options and
ballots are replaced together (`StartOver`); nothing is cast before the topic opens. The
code comes to this by several statements: it reads the voter's ballot, and later adds to
one counter and takes from another whatever they hold by then. It does *not* promise
that an edit comes before the opening, that a cast comes before the closing (the period
is checked before the lock), or that a user who leaves is taken from the counts
(`Depart`), because the code does not keep these (section 6).

### NftMinting

| Model | Code |
|---|---|
| `mint`, `retries`, `instance` | `t_nft_mints` with `retryCount`, `t_nft_instances` |
| `service`, `accepted` | NMKR as the repository uses it (external) |
| `Queue` | the script `assignAndMint` |
| `Start`, `TurnPage` | the page loops of `requestMintNft` and `syncNftInstance`, each with its `skip` |
| `Accept`, `Decline`, `Store`, `ExpireRequest`, `Fail` | the request inside the transaction, its commit, its expiry, the handler that writes FAILED |
| `Ask`, `Handle` | `getNftDetails`, `handleInstanceState` |
| `Mint`, `CrashRun` | the service finishes; the run ends anywhere |

### Assumptions about the environment

PostgreSQL's row locks, waits on unique keys and the fate of failed transactions are
modelled as documented by PostgreSQL, and marked external. `REFRESH MATERIALIZED VIEW`
is one step. The issuer's address holds one unspent output (each transaction spends it
and returns one), and a node accepts one spender of an output. The row lock that a
conditional update keeps when it matches nothing is left out: it can only delay. NMKR
takes the HTTP client's retries of one request, which share an idempotency key, for one
request, and mints what it has accepted or reports an error. Both language models are
aborted by a timer.

## 3. The runs

| Run | Expect | Distinct states | Question |
|---|---|---|---|
| `ledger` | pass | 722,417 | what balances, checks, notifications and parent chains guarantee, and whether the ledger implements `PointAccounts` |
| `ledger_live` | pass | 65,386 | does every accepted call end? |
| `grant` | pass | 43,574 | who is paid, how often, what failures leave behind, and do calls that wait for each other end? |
| `reservation` | pass | 205,068 | do seats, payments, rewards, cancelled slots and locks stay consistent under any three calls, all at once? |
| `slot_refund` | violation | | does the refund go to the reserver? |
| `anchor` | pass | 582,598 | is an operation anchored once, confirmed truthfully, linked rightly, and is every claim resolved? |
| `credential` | pass | 1,197,899 | who shares a bit, and whom does a verifier accept? |
| `membership` | pass | 691,654 | do wallets and roles follow the membership, whatever overlaps? |
| `signup` | pass | 394,547 | is a person one user, and does whoever has a login have a membership in the end? |
| `report` | pass | 326,720 | which statuses can a race leave, does the pointer follow, is there one report a week, and does every request end? |
| `vote` | pass | 695,144 | do the counts follow the ballots, who waits for whom, which ballots disappear, and does the topic implement `VotePoll`? |
| `mint` | pass | 655,343 | is a token requested once and followed, does its status only move on, and is every queued mint requested? |

The *violation* run checks what a comment in the code says, and shows an execution of
the code that breaks it.

The passing runs say what holds, and where the code does not keep a promise without
exception, the property names the exception: something that exactly the step that does
the harm records, in a history variable as a rule. The property fails if anything else
does it.

| Property | Says | Except after |
|---|---|---|
| `BalancesSound` | points are conserved; a wallet is overdrawn only through a stale view | a second transfer validated against the same balance |
| `BonusPaidOnce` | one bonus per user | a late failure mark that reopened a completed grant |
| `JoinLostNeedsGrant` | a join that is reported is committed | a grant that existed before |
| `PointsFollowHistory` | a reservation has moved the points its history accounts for; a participation that passed is rewarded once, one that failed never | the cancellation of its slot, an edit of the price; evaluations that overlap (one reward for each call that had found the participation evaluatable before its evaluation was committed) |
| `DeadlockNeedsBulk` | calls do not wait for each other in a circle | a slot cancellation, or an evaluation of several participations, that is in the circle |
| `SeatsFollowReservation` | the seats have the status their reservation gives them | a join that raced with a decision |
| `CancelledSlotIsClosed` | no active reservation in a cancelled slot | a reservation the cancellation had not read |
| `ChainFollowsRows` | an operation is in one transaction; CONFIRMED is on the chain | a run that goes on with rows it has not claimed |
| `ListFollowsRevocations` | the list has the bits of the revoked, and no others | two revocations that overlap on one list |
| `TombstoneRevokesAll` | a deactivated DID has no live credential | a credential the cascade had not read |
| `WalletFollowsMembership` | one wallet for a member, none for others | a call that did not hold the membership: a reward, or a join of a member |
| `RoleIsAssigned` | the role is the last one assigned | a change of status that had read an older one |
| `OneUser` | one user has the phone; the person is one user | two looks for the phone before either insert; a signup without a phone |
| `StatusMovesOn`, `LowScoreIsRejected` | no forbidden transition; a low score rejects | a decision that had read the status before another write |
| `OneLiveReport`, `PointerIsNewest` | one live report; the pointer names the newest | generations, or derivations, that overlap |
| `TalliesMatchBallots` | an option shows what its ballots add up to | deleted users, whose ballots stay counted |
| `BallotsSurvive`, `DeadlockNeedsLateEdit` | ballots stay; casts do not deadlock | an edit or deletion that read the topic before it opened |
| `AcceptedOnce`, `AcceptedIsFollowed` | NMKR is asked once; what it accepts is followed | a lost answer; two runs that have read the mint |
| `MintMovesOn`, `OwnedIsMinted` | the status of a mint goes from QUEUED by SUBMITTED to MINTED or to FAILED; an owned instance is minted, and its mint says so | two runs that have read the mint |

### Bounds

Every bound is a constant, and every safety property of every passing run is proved for
all values of the constants (section 5). The runs' bounds are chosen for the interesting
cases to happen:

- `ledger`: two users, JOINED without a wallet (two grants to one of them make two; who
  withdraws is not JOINED afterwards, and joins again with the next grant), two calls at
  once, three transactions (an issue, and two transfers that depend on it), two wallet
  generations (leave and come back), amounts of -1 and 2 (issuing does not check the
  sign). `ledger_live` has one member, so that liveness can be checked without symmetry.
- `grant`: one user, because a grant row concerns one user and rivals must meet there;
  two calls; two points in the wallet and three bonuses, so that a bonus can be paid
  twice.
- `reservation`: two users, two reservations of two seats, capacity 1 or 2, a price of 0
  or 1, three calls, all three at once or one after the other: enough for two evaluations
  of two seats to meet in opposite orders, for a slot cancellation to meet a reservation,
  a decision and a join, and for cancel and reject to follow each other. `MaxEvaluated` is
  the number of seats that one call evaluates.
- `anchor`: two rows of one user (the shortest hash chain), two runs, two weeks, two
  transactions.
- `credential`: three credentials over two lists of two bits (one list fills and rolls
  over), two calls, one user. In the code a list has 131,072 bits.
- `membership`: three calls at a time, so that a removal, a join and a reward meet;
  three wallet ids. Calls are slots that are used again: there is no bound on how many
  follow each other.
- `signup`: two communities (the phone is shared, the LINE login is not), two users,
  two calls at a time. `MaxEvents` bounds what others do and what goes wrong to two events:
  failures, deletions of an account, grants, invitations, members who leave or are
  removed. Two are enough for an invitation to be followed by a failure, by a deletion,
  or by the end of the membership.
- `report`: two requests at a time, two reports (one supersedes the other), three
  attempts to publish.
- `vote`: two users, two casts, two managers, two options, one committed edit, powers up
  to two: casts that move votes in opposite directions, an edit against a deletion.
- `mint`: two tokens, pages of one row (the second page skips what the first one took),
  two runs, one retry, one crash. In the code a page has 20 rows.

Symmetry is used in runs without liveness properties only.

## 4. Fairness and deadlock

| Specification | Fairness | Why the code justifies it |
|---|---|---|
| `PointLedger!FairSpec` | weak, on the progress of each request | Node's event loop serves each accepted call; waits for a wallet's row are short because the holder progresses too. New calls, crashes and batch refreshes are not fair. |
| `IncentiveGrant!FairSpec` | strong, on the progress of each request | requests wait for each other's rows, and a row may be taken and released for ever; PostgreSQL grants a row lock to its waiters in the order in which they came, so that a waiter that could proceed again and again does |
| `AnchorBatch!FairSpec` | weak, on each run and on starting runs | Cloud Scheduler starts a run every week; within a run each wait has a timeout. Neither blocks nor crashes are fair: a transaction may stay in the mempool, and then `Throw` ends the wait. |
| `SignUp!SignUpFairSpec` | weak, on the progress of each call; strong, on a check of the phone in each community | the server goes on with what it has begun; the app checks the phone at every login, so a person who comes back has it checked again. Signups are not fair. Failures, deletions, invitations and departures are not fair either, and they are bounded: one that struck every time would leave nothing to say. |
| `Report!FairSpec` | weak, on the timer of a model's call and on the steps of a transaction | both calls are aborted by a timer, and a transaction commits, fails or times out. That the model answers, or that anybody decides, is not assumed. |
| `NftMinting!MintFairSpec` | weak, on each run; strong, on starting the batch that requests | the scheduler starts it again and again, and again and again there is a moment at which a run can start. Neither the service nor the other batch is fair. |

`Reservation`, `StatusList`, `Membership` and `Vote` have no liveness property: a lock
cycle is broken by PostgreSQL's detector, which is `Fail` or `Drop`, and a call may then
be lost. `DeadlockNeedsBulk` and `DeadlockNeedsLateEdit` say instead which calls
can form a cycle.

TLC checks for deadlock except where the system has nothing left to do at a bound:
`reservation` and `slot_refund` end after `MaxCalls`; in `anchor` no row or transaction
is left to make and every week is done; in `vote` the topic is closed or deleted and the
users are gone; in `mint` no mint is queued or being minted.

## 5. The proofs

TLAPS proves, for all values of the constants that satisfy the `ASSUME`s of the
modules, the type invariant of each of the ten components (`TypeCorrect`, `TypeOKAlways`,
`MintTypeCorrect`, `SignUpTypeOKAlways`, `VoteTypeOKAlways`), every invariant and every
action property that a passing run checks, and both refinements.

What is assumed of the constants: sentinel values (`NoMint`, `Nobody`, `NoUser`,
`Community`) differ from real ones, casts from managers; bounds and amounts are
numbers; a page, a status list and a topic have at least one row, slot and option;
there is a user (`AnchorBatch`) and a community (`SignUp`); finitely many users are
members when the ledger begins (`MemberAssumption`), without which a balance summed over
all of them would mean nothing. Requests, casts, runs, users, reservations, credentials and mints
may be as many as one likes.

### Ledger and grants

| Theorem | Inductive invariant, and why it is needed |
|---|---|
| `PointLedgerProofs!NotifiedSeesPointsAlways` | `CommittedStays`: what a request has committed stays in the ledger while it refreshes and notifies, although rows change when wallets are deleted |
| `…!ChainSoundAlways` | `IdsHandedOut`, `PendingLinked`: a row waiting for its commit has its parent in the ledger already, so that commits in any order keep chains finite |
| `…!ConservationAlways` | `RowInv`: no id is used twice and both ends of a row are live wallets or NULL; `NewWalletsApart`: a wallet inserted and not committed is nobody else's, be it the second one of its user; then every step acts on `Account`, the balance by wallet, as a grant, an issue, a transfer or a closing, and `Kept` adds them up |
| `…!LedgerImplementsAccounts` | the same lemmas: each commit and each deletion of a wallet is a step of `PointAccounts`, every other step a stutter |
| `…!BalancesSoundAlways` (`OverdraftAlwaysNeedsStaleView`) | `CoverInv`: what a wallet received by rows committed before covers each debit together with the debits its check counted; commits and deletions of others leave that as it is |
| `IncentiveGrantProofs!BonusPaidOnceAlways`, `NoGrantLeftInProgressAlways`, `PaidToMemberAlways` | `StepInv` (what a request has written at each step, in particular what a transaction may commit), `Claimed`, `Exclusive` (the row lock), `PayeeIsMember` (the foreign key) |
| `…!JoinLostNeedsGrantAlways` | `JoinInv`: a transaction that has inserted a membership is still open (`JoinOpen`), and if a statement of it has failed, it met a grant that existed before (`AbortExplained`) |

### Reservations, anchors, credentials

| Theorem | Inductive invariant, and why it is needed |
|---|---|
| `ReservationProofs!DeadlockNeedsBulkAlways` | `StepInv`: what each step holds; `Exclusive`: no two calls hold the same reservation or insert the same evaluation. A call that evaluates one seat and holds it, or its evaluation, waits for nothing; one that decides waits at seats of its own reservation only, which no other decision can hold |
| `…!SeatsFollowReservationAlways` | `JoinInv`: a join on its way has an accepted reservation, or is noted as raced |
| `…!CancelledSlotIsClosedAlways` | `OneSweeps`, `SweepReads`: what a slot cancellation in progress has not read is noted as late; `DecidesBooked` |
| `…!PointsFollowHistoryAlways` (`NetFollowsHistoryAlways`, `RewardsAreClaimedAlways`) | for the payments `PriceInv`: what a reservation paid, and what a decision under way has read, is the price as it is unless it was edited meanwhile; `Accounted`, reservation by reservation. For the rewards `Ledger`: a seat's rewards, and the calls that may still reward it (`Payers`), are together no more than its claims |
| `BatchProofs!ChainFollowsRowsAlways`, `PrevNamesPreviousAlways` | `RowsKnown`, `ClaimInv` (claims are exclusive), `CarriedInv` (no transaction carries a row still to be submitted), `TxInv` (whoever names a transaction is carried by it), `PrevInv` |
| `StatusListProofs!SlotsUniqueAlways` | `Local`, `Exclusive`, `ListInv`, `SlotInv`: the holder of a list's lock has the next slot to itself, and a list that is not yet committed is empty |
| `…!ListFollowsRevocationsAlways` | `BitsInv`: every bitstring in the database, read into memory or written and not committed is exact for the credentials its transaction will have revoked, those with an overlapped revocation aside; `OverlapInv` |
| `…!TombstoneRevokesAllAlways` | `TombInv`: a deactivation has to do with every live credential of its user but the late ones |

### Memberships, sign-up, reports

| Theorem | Inductive invariant, and why it is needed |
|---|---|
| `MembershipProofs!AcceptedHasWalletAlways`, `WalletFollowsMembershipAlways` | `WalletInHand`: the call that holds the membership acts on the wallets there are when it commits, although it looked before; `WalletInv` |
| `…!RoleIsAssignedAlways` | `RoleInv`: a call that is not late has read the role the row has (`RoleRelied`) |
| `…!OneUserAlways` | `SeenInv`: whoever is about to insert the phone finds none, or is noted as overtaken; `UserInv`: every user has the phone, a signup without one aside |
| `ReportVoteProofs!StatusMovesOnAlways`, `LowScoreIsRejectedAlways` | `LocalInv`: what a request has read differs from the row only if that is noted (`Noted`), and one request holds a row (`Exclusive`) |
| `…!PointerIsNewestAlways` | `PointerInv`: a pointer about to be written is right for the rows as they will be, unless it was overtaken |
| `…!OneLiveReportAlways` | `LiveInv`: a generation under way is the only one, and what is live is what it replaces |

### Votes and mints

| Theorem | Inductive invariant, and why it is needed |
|---|---|
| `ReportVoteProofs!TalliesMatchBallotsAlways`, `OpensEmptyAlways` | `VoteInv`: what a cast has read of its ballot is right unless the upsert will find out that it is not (`CastLocal`); the lock keeps the casts of one user apart (`VotersApart`); options deleted once never come back (`PastOptions`, `EditsFit`), so that a late cast cannot count for new ones; then each write moves one summand of `Tallied` |
| `…!DeadlockNeedsLateEditAlways` | among casts that wait for each other, the one that holds the greatest first row waits for a greater row, which nobody in the circle holds; `EditLocal` and `OneHolder` place the edits |
| `…!BallotsSurviveAlways` | `BeforeOpening`: there are no ballots before the topic opens, and whoever has read it then is late from the opening on |
| `…!VoteImplementsPoll` | `CommitIsCast`, `EditIsFreshStart`: under `VoteInv` the commit of a cast is one `Cast`, that of an edit or a deletion a `StartOver`, and the steps before are stutters |
| `BatchProofs!OwnedIsMintedAlways`, `AcceptedIsFollowedAlways`, `AcceptedOnceAlways` | `MintInv`: two runs have a mint in their hands only if that is noted (`HandsApart`), what is said to be minted is (`AnswerTrue`), an owned instance is in nobody's hands (`OwnedAtRest`), a mint that was accepted is on no page of requests (`AskedOnce`) |
| `…!MintMovesOnAlways` | `MintFlow`: what a run has read of a mint is still so when it writes (`UpToDate`), and an instance that is being minted has a mint that is SUBMITTED, or has failed for good (`Pending`) |

The argument is the same everywhere. A *local* invariant (types, and what a request
has in memory at each step) is proved first; every action is then summarised by a
lemma that says what it does to the shared rows, so that the proof of each property
has few cases. The invariants differ in what they say about the *middle* of other
requests, which is where the interleavings are.

Sums and greatest elements (`FiniteSums`) are proved without an induction over data: a
claim about all subsets of a finite set that fails somewhere fails for a smallest
subset (`MinimalSubset`: strict inclusion of finite sets is well-founded), and taking one
element out of that one gives the contradiction.

*Model-checked only:* liveness. `EveryCallEnds` (in `ledger_live` and in `grant`),
`ClaimsAreResolved`, `RequestsEnd`, `SignUpCompletes` and `QueuedIsRequested` hold under
fairness, whose proof needs `ENABLED`, which the prover does not reason about. The
property of `slot_refund` does not hold and has no theorem.

## 6. Divergences

### Found by a run

`slot_refund`: cancelling a slot swaps payer and receiver of the refund
(`domain/experience/opportunitySlot/usecase.ts:225`); the comment at `:228` calls the
first wallet the one that receives it.

### Met while modelling

States in which the code differs from what a document or comment says, or from what one
would expect of it, and which the models reach.

Ledger and grants:

- *Balance in real time.* `docs/handbook/PERFORMANCE.md:54` and `:59` call the current
  balance a regular view with real-time values; `schema.prisma:765` maps it to
  `mv_current_points`, a materialized view.
- *Overdraft.* `docs/report/manual_testing.md:216-222` reports that transactions with
  insufficient balance are rejected. `validator.ts:102` compares with the view, and two
  donations validated against the same row of it overdraw the wallet. What remains true
  is `BalancesSound`.
- *Signs.* `domain/account/wallet/data/repository.ts:84-97` states that point changes
  are positive, enforced by the transaction service;
  `domain/transaction/usecase.ts:100` issues any amount.
- *TOCTOU.* `domain/account/wallet/service.ts:137` calls the check of the community
  wallet safe; at `:177` it sums the wallet without a lock, and concurrent bonuses pass
  on the same balance.
- *Reopened grant.* The failure of one retry is recorded over the success of another
  (`domain/transaction/incentiveGrant/usecase.ts:279`), and the bonus can be paid again.
- *Lost join.* After the unique key of the grant has failed inside the joining
  transaction, PostgreSQL has failed the transaction; the call reports a membership that
  is rolled back (`incentiveGrant/service.ts:123`). `JoinLostNeedsGrant` says when.

Reservations:

- *Overbooked.* Remaining capacity is read before the transaction
  (`domain/experience/reservation/usecase.ts:92`): two reservations can take the same
  seats.
- *Completed slots.* `completeOpportunitySlots.ts:12-16` completes slots that are
  SCHEDULED; the update at `:45` is by id, and completes one cancelled in between.
- *Reserved twice.* `docs/report/202504_unit.md:340` lists an error for a conflicting
  reservation; `reservation/service.ts:35` reads conflicts before the transaction, and
  two calls of one user both pass.
- *Joined twice.* `docs/report/202504_unit.md:345` lists an error for joining twice.
  The validator (`reservation/validator.ts:46`) looks for a seat with the user's id;
  `participation/data/converter.ts:148` names the user only in the history, so that the
  seat stays free and the same user, or any other, joins it again.
- *Reasons of seats.* `checkReservationParticipationConsistency.ts:129` expects the
  reason RESERVATION_ACCEPTED of every seat of an accepted reservation; every join
  writes RESERVATION_JOINED (`reservation/usecase.ts:229`).
- *Evaluations.* Rule 3 of the same batch (`:75`) ties evaluations to accepted
  reservations; `evaluation/usecase.ts:248` looks at no reservation.
- *Evaluated twice.* `validateEvaluatable` refuses a participation that has an evaluation.
  Two calls that both have passed that check are not refused: the second insert is skipped
  as a duplicate (`evaluation/data/repository.ts:64`), the evaluation is read back by its
  participation (`evaluation/service.ts:66-69`), and the reward is paid again
  (`evaluation/usecase.ts:231-246`). What remains true is `RewardsAreClaimed`.
- *Refund at today's price.* A refund is computed from what the opportunity requires when
  the reservation is cancelled or rejected (`reservation/usecase.ts:187`, `:303`,
  `opportunitySlot/usecase.ts:112`), and taken from whoever is its creator then: after an
  edit, another amount is paid back than was paid. `NetFollowsHistory` excepts it.
- *Bulk evaluations.* One transaction writes the evaluations and then, in the order of the
  input, the participations (`evaluation/usecase.ts:112-164`). Two of them in opposite
  orders, or one and the `updateMany` of an acceptance or a rejection, deadlock;
  PostgreSQL aborts one.

Anchoring and credentials:

- *Submitted twice.* A run that claims a part of what it has read submits all of it
  (`domain/anchor/anchorBatch/service.ts:200`).
- *Recovery of a batch.* `docs/report/did-vc-internalization.md:1001` promises retries up to
  three times and `:1012` recovery from a crash by re-submitting under the same batch id
  or finding the transaction on the chain; `anchorBatch/service.ts:166` and `:183` do neither:
  a FAILED row and a row claimed by a run that died are taken by no later run.
- *Final states.* `anchorBatch/data/repository.ts:58-60` returns early for a week with
  a FAILED row; the caller (`anchorBatch/service.ts:166`) goes on for FAILED.
- *Hash chain.* `userDid/service.ts:163-165` and `:221` make the previous anchor
  mandatory; `anchorBatch/service.ts:414` writes no previous transaction when that one
  has not been submitted yet, as when two operations wait for the same batch.
- *One CREATE.* `userDid/service.ts:109-111` promises one CREATE row; the lookup at
  `:112` and the insert are two statements, and two calls insert two rows.
- *Lost bit.* Of two overlapping revocations on one list one loses its bit
  (`domain/credential/statusList/service.ts:340`).
- *Retry of a list.* `statusList/service.ts:388-389` turns a duplicate key into a
  bounded retry; within the caller's transaction the failed insert has failed the whole
  transaction already.
- *Tombstones.* `userDid/usecase.ts:166-169` forbids a DID that is tombstoned while a
  fresh credential verifies; `vcIssuance/service.ts:291` issues without asking whether
  the DID is deactivated. What remains true is `TombstoneRevokesAll`.

Memberships and users:

- *Assigned without a wallet.* `setRole` (`membership/service.ts:104`) makes a member of
  anybody with a row, invited or declined, and makes no wallet. Such a member cannot
  withdraw or be removed: `deleteMemberWallet` finds no wallet and throws. Two grants to
  such a member can make two wallets, because neither writes the membership.
- *Cancelled members.* Cancelling or denying an invitation (`membership/service.ts:90`)
  compares no status: it turns a member into one who has left, and keeps the wallet.
  Nothing protects the last owner of a community either.
- *Wallets of non-members.* The reward of an evaluation makes a wallet for whoever has
  the participation (`evaluation/usecase.ts:272`), member or not.
- *One phone.* `schema.prisma:464` makes `uid` and `communityId` unique; the row of a
  phone has no community, and PostgreSQL does not take two NULLs for the same.
  `identity/service.ts:32` and `:112` insert after a look. The error of a phone that
  leads to another user than the LINE login does is repaired by nothing.
- *Any membership.* `checkPhoneUser` takes a membership of any status for one
  (`identity/usecase.ts:377-399`, `:418`, `:537`): a user who was invited, or whose
  invitation was denied, is "existing in this community", gets the LINE login of the
  community added, and is not joined. `SignUp` has such rows (`invited`); that whoever has
  a login is JOINED in the end does not hold of it, and `SignUpCompletes` promises a
  membership of some status.
- *Linking a phone.* `linkPhoneAuth` takes the user from its arguments. Who may name whom is
  not modelled: `StartLink` calls it for the user of the LINE login.

Reports and votes:

- *Guaranteed draft.* `domain/report/usecase.ts:645-650` argues that the status is
  "guaranteed to be DRAFT here". The report is committed before it is judged, for up to
  a minute, and may be approved or superseded meanwhile; then the transaction that stores
  the score throws, and the score is lost.
- *Compare-and-set.* `report/usecase.ts:905` reads the status, checks the table and
  writes by id: two decisions take a report from REJECTED to PUBLISHED.
- *No ballots.* `domain/vote/service.ts:301` replaces the options because an upcoming
  topic has no ballots. The check (`vote/usecase.ts:148`) and the replacement have no
  lock between them: an edit that read the topic before it opened deletes ballots that
  were cast since, and can deadlock with casts.
- *Deleted voters.* Deleting an account deletes the ballots by a cascade
  (`schema.prisma:1763-1773`) and leaves the counts: `TalliesMatchBallots` counts them.

Minting and tickets:

- *Retried later.* `syncNmkr/syncNftInstance.ts:148` says of a mint with an error that it
  "will retry later". `retryCount` is raised only by `requestMintNft.ts:100`, and for
  mints that become FAILED with it: the count of a mint that is followed never rises, so
  that it stays in error for ever, and a FAILED mint is queued again by nothing.
- *Ten and fourteen seconds.* The request at `requestMintNft.ts:70` is made inside a
  transaction of 10 s, while the HTTP client retries for up to 14 s: the service can
  accept what the database has forgotten.
- *Tickets* (no model, see section 7). The claim of a link is validated before the
  transaction and marked without comparing (`domain/reward/ticket/usecase.ts:80`,
  `:116`): two overlapping claims both yield tickets. `wallet/validator.ts:122-123` files
  TICKET_REFUNDED under transfers between members, for which the helper that
  `reservation/usecase.ts:484` calls always throws: a reservation paid with tickets cannot
  be cancelled with them.

## 7. What is left out

- *Ledger:* queries, comments, images, authorisation; the pool of database connections.
- *Grants:* failure codes, attempt counts, amounts other than one point, the
  notification's delivery.
- *Reservations:* slots without a capacity; creating and deleting slots; tickets as a
  means of payment; the balances behind a payment (it may fail at any time) and whose
  wallet a refund is taken from; personal-record participations.
- *Anchoring:* rows of `t_vc_anchors`, which nothing in the repository inserts, and of
  `t_transaction_anchors`, which only a script of a past migration does
  (`scripts/backfill-transaction-anchor.ts:183`); Merkle roots; fees, keys and encoding; documents and resolution; a
  chain that rolls back a block.
- *Status list:* encoding and signing; credentials from before there were lists; users
  without a DID. The cascade's order and the choice among open lists are arbitrary in
  the model, where the code orders by creation time.
- *Memberships:* history rows, rich menus, who is authorised.
- *Sign-up:* Firebase and its tokens, the profile, anonymous users of development
  deployments.
- *Reports:* templates, payloads, prompts and texts; feedback (a unique index guards it).
- *Votes:* the creation of a topic (it is the initial state); how gates and power policies
  compute a weight; when results are visible.
- *Minting:* uploads, wallets and metadata. The script that queues mints looks at an
  instance (`scripts/salesNft/assignAndMint.ts:85-107`) before it writes (`:143-155`): two
  runs of it that overlap could queue two mints for one instance. The model assumes that
  they do not, and that an instance has one mint.
- *Tickets, utilities, claim links:* not modelled, because there is little the code
  promises. Use, refund and reservation of a ticket compare neither status nor owner, and a
  claim is checked before its transaction only: all that could be said of them is that a
  status is what was written last. The points that tickets move are transfers like
  those of `PointLedger`, the joining on the way is `Membership`'s `Join`.
- *The consistency batch:* repairs two patterns of participations row by row and logs the
  others. Its rule on statuses is the property `SeatsFollowReservation`, which says when
  the batch finds anything.
- *Everything else* is listed in `PROJECT.json` with the reason. The bulk of the
  repository by lines is generated code, GraphQL types, presenters, read-only queries and
  single-row writes, in which there is no behaviour over several steps to check.

## 8. Plan

What is done: the ten components above, in the order of what is at stake (points,
bonuses, reservations, anchors, credentials; then reports, votes, memberships, sign-up,
mints), with proofs of all their safety properties. What would come next:

1. `Reservation`: the consistency batch as an action; deletion of slots; slots without a
   capacity.
2. Refinements: reservations to a two-party account per reservation; the status list to
   an atomic set of revoked credentials, with a revocation that overlaps another one as the
   exception.
3. Joining once: `IncentiveGrant`'s and `Membership`'s views of it as one module.
4. `Ticket`, once a claim and a use compare what they have read.
