------------------------- MODULE IncentiveGrantProofs -------------------------
(***************************************************************************)
(* Theorems about IncentiveGrant, for every set of users and requests and  *)
(* for every bound.                                                        *)
(***************************************************************************)
EXTENDS IncentiveGrant, TLAPS

\* What a transaction may commit: no grant row, a failed one, or a paid one.
Committable(g, id) ==
  \/ g = NoGrant /\ id = 0
  \/ g.status = "FAILED" /\ id = 0
  \/ g.status = "COMPLETED" /\ g.tx = id /\ id /= 0

\* The steps at which a request has not written a grant row
Unclaimed == {"idle", "find", "join", "create", "load", "mark", "joined", "notify", "late", "fail"}

\* What a request has written, step by step.
StepInv(r) ==
  /\ \A u, v \in job[r].users : u = v
  /\ aborted[r] => pc[r] = "commit"
  /\ pc[r] \in {"load", "mark"} => job[r].op = "retry"
  /\ pc[r] \in {"find", "join", "create"} => job[r].op = "accept"
  /\ pc[r] \in Unclaimed => draft[r] = NoGrant /\ paid[r] = 0
  /\ pc[r] = "config" => paid[r] = 0 /\ (job[r].op = "accept" <=> draft[r] = NoGrant)
  /\ pc[r] \in {"balance", "wallet", "pay"} => paid[r] = 0 /\ draft[r] /= NoGrant
  /\ pc[r] = "complete" => paid[r] /= 0
  /\ pc[r] = "commit" => aborted[r] \/ Committable(draft[r], paid[r])
  /\ paid[r] /= 0 => draft[r] /= NoGrant

LocalInv == TypeOK /\ \A r \in Requests : StepInv(r)

\* What holds of one request while others run.  Claimed and Exclusive are the
\* row lock; PayeeIsMember keeps the wallet that is being paid.
Claimed ==
  \A r \in Requests, u \in Users :
    Serves(r, u) /\ draft[r] /= NoGrant => grants[u].status \in {"NONE", "FAILED"}
Exclusive ==
  \A r, q \in Requests, u \in Users :
    r /= q /\ Serves(r, u) /\ Serves(q, u) => draft[r] = NoGrant \/ draft[q] = NoGrant
PayeeIsMember ==
  \A r \in Requests, u \in Users : Serves(r, u) /\ paid[r] /= 0 => IsMember(r, u)

SharedInv == Claimed /\ Exclusive /\ PayeeIsMember /\ NoGrantLeftInProgress /\ BonusPaidOnce

-----------------------------------------------------------------------------
(* What one request does to its own variables *)

\* A step of r leaves the variables of every other request alone.
Alone(r) ==
  \A q \in Requests \ {r} :
    /\ pc'[q] = pc[q] /\ job'[q] = job[q] /\ joins'[q] = joins[q]
    /\ draft'[q] = draft[q] /\ paid'[q] = paid[q] /\ aborted'[q] = aborted[q]

LocalTypes ==
  /\ pc \in [Requests -> Label] /\ job \in [Requests -> Job]
  /\ joins \in [Requests -> BOOLEAN] /\ draft \in [Requests -> Grant]
  /\ paid \in [Requests -> Nat] /\ aborted \in [Requests -> BOOLEAN]

LEMMA NoGrantType == NoGrant \in Grant /\ NoJob \in Job
  BY DEF NoGrant, Grant, Status, NoJob, Job

LEMMA EndLocal ==
  ASSUME LocalInv, NEW r \in Requests, NEW label \in Unclaimed,
         Goto(r, label), EndTransaction(r),
         job' = job \/ job' = [job EXCEPT ![r] = NoJob],
         label \notin {"find", "join", "create", "load", "mark"}
  PROVE  /\ LocalTypes' /\ Alone(r) /\ \A q \in Requests : StepInv(q)'
         /\ draft'[r] = NoGrant /\ paid'[r] = 0
<1>1. LocalTypes' /\ Alone(r)
  BY NoGrantType DEF LocalInv, TypeOK, LocalTypes, Goto, EndTransaction, Unclaimed, Label, Alone
<1>2. /\ draft'[r] = NoGrant /\ paid'[r] = 0 /\ ~aborted'[r] /\ pc'[r] = label
      /\ job'[r].users \subseteq job[r].users
  BY DEF LocalInv, TypeOK, Goto, EndTransaction, NoJob
<1>3. StepInv(r)'
  BY <1>2 DEF LocalInv, StepInv, Unclaimed
<1>4. ASSUME NEW q \in Requests \ {r} PROVE StepInv(q)'
  BY <1>1 DEF Alone, LocalInv, StepInv
<1> QED BY <1>1, <1>2, <1>3, <1>4

LEMMA FinishLocal ==
  ASSUME LocalInv, NEW r \in Requests, Finish(r)
  PROVE  /\ LocalTypes' /\ Alone(r) /\ \A q \in Requests : StepInv(q)'
         /\ draft'[r] = NoGrant /\ paid'[r] = 0
  BY EndLocal DEF Finish, Unclaimed

LEMMA ThrowLocal ==
  ASSUME LocalInv, NEW r \in Requests, Throw(r)
  PROVE  /\ LocalTypes' /\ Alone(r) /\ \A q \in Requests : StepInv(q)'
         /\ draft'[r] = NoGrant /\ paid'[r] = 0
  BY EndLocal, FinishLocal DEF Throw, Unclaimed

\* The transaction of r has ended, or has claimed nothing new.
Keeps(r) ==
  \/ draft'[r] = NoGrant /\ paid'[r] = 0
  \/ /\ draft[r] /= NoGrant /\ job'[r] = job[r] /\ joins'[r] = joins[r]
     /\ paid'[r] \in {paid[r], 0}

Local(r) == LocalTypes' /\ Alone(r) /\ \A q \in Requests : StepInv(q)'

LEMMA LocalFromStep ==
  ASSUME LocalInv, NEW r \in Requests, Alone(r), StepInv(r)', LocalTypes'
  PROVE  Local(r)
  BY DEF Local, Alone, LocalInv, StepInv

\* One step of the program, without ending the transaction.
LEMMA MoveLocal ==
  ASSUME LocalInv, NEW r \in Requests, NEW label \in Label, Goto(r, label), UNCHANGED local,
         StepInv(r)'
  PROVE  Local(r) /\ draft' = draft /\ paid' = paid /\ job' = job /\ joins' = joins
<1>1. LocalTypes' /\ Alone(r)
  BY DEF LocalInv, TypeOK, LocalTypes, Goto, local, Alone
<1> QED BY <1>1, LocalFromStep DEF local

\* The steps after which every request keeps what it has claimed, or releases it,
\* and the shared rows are as before.
Quiet ==
  /\ \A q \in Requests : Keeps(q)
  /\ UNCHANGED <<members, grants, bonuses, reopened>>

LEMMA QuietShared == SharedInv /\ LocalInv /\ LocalTypes' /\ Quiet => SharedInv'
<1> SUFFICES ASSUME SharedInv, LocalInv, LocalTypes', Quiet PROVE SharedInv'
  OBVIOUS
<1>1. \A q \in Requests : /\ draft'[q] /= NoGrant => draft[q] /= NoGrant /\ job'[q] = job[q]
                          /\ paid'[q] /= 0 => /\ paid[q] /= 0 /\ job'[q] = job[q]
                                              /\ joins'[q] = joins[q]
  BY DEF Quiet, Keeps
<1>2. Claimed'
  BY <1>1 DEF SharedInv, Claimed, Quiet, Serves
<1>3. Exclusive'
  BY <1>1 DEF SharedInv, Exclusive, Quiet, Serves
<1>4. PayeeIsMember'
  BY <1>1 DEF SharedInv, PayeeIsMember, Quiet, Serves, IsMember
<1>5. NoGrantLeftInProgress' /\ BonusPaidOnce'
  BY DEF SharedInv, NoGrantLeftInProgress, BonusPaidOnce, Quiet
<1> QED BY <1>2, <1>3, <1>4, <1>5 DEF SharedInv

\* A step of r that releases, or that moves on, is quiet.
LEMMA ReleaseQuiet ==
  ASSUME LocalInv, NEW r \in Requests, Alone(r), draft'[r] = NoGrant, paid'[r] = 0,
         UNCHANGED committed
  PROVE  Quiet
<1>1. \A q \in Requests \ {r} : Keeps(q)
  BY DEF Alone, Keeps, LocalInv, StepInv
<1> QED BY <1>1 DEF Quiet, Keeps, committed

LEMMA MoveQuiet ==
  ASSUME LocalInv, UNCHANGED local, UNCHANGED <<members, grants, bonuses, reopened>>
  PROVE  Quiet
  BY DEF Quiet, Keeps, local, LocalInv, StepInv

-----------------------------------------------------------------------------
(* The steps of a request *)

Good(r) == Local(r) /\ SharedInv'

LEMMA QuietGood ==
  ASSUME LocalInv, SharedInv, NEW r \in Requests, Local(r), Quiet
  PROVE  Good(r)
  BY QuietShared DEF Good, Local

LEMMA FinishGood ==
  ASSUME LocalInv, SharedInv, NEW r \in Requests, Finish(r) \/ Throw(r), UNCHANGED committed
  PROVE  Good(r)
  BY FinishLocal, ThrowLocal, ReleaseQuiet, QuietGood DEF Local

LEMMA MoveGood ==
  ASSUME LocalInv, SharedInv, NEW r \in Requests, NEW label \in Label, Goto(r, label),
         UNCHANGED local, UNCHANGED committed, StepInv(r)'
  PROVE  Good(r)
  BY MoveLocal, MoveQuiet, QuietGood DEF committed

\* A call arrives.
LEMMA CallGood ==
  ASSUME LocalInv, SharedInv, NEW r \in Requests, NEW u \in Users,
         Accept(r, u) \/ Retry(r, u)
  PROVE  Good(r)
<1>1. PICK op \in {"accept", "retry"}, label \in {"find", "load"} :
         /\ pc[r] = "idle" /\ job' = [job EXCEPT ![r] = [op |-> op, users |-> {u}]]
         /\ Goto(r, label) /\ UNCHANGED <<committed, joins, draft, paid, aborted>>
         /\ op = (IF label = "load" THEN "retry" ELSE "accept")
  BY DEF Accept, Retry
<1>2. LocalTypes' /\ Alone(r)
  BY <1>1 DEF LocalInv, TypeOK, LocalTypes, Goto, Label, Alone, Job
<1>3. /\ pc'[r] = label /\ job'[r] = [op |-> op, users |-> {u}]
      /\ draft[r] = NoGrant /\ paid[r] = 0 /\ ~aborted[r]
      /\ draft'[r] = NoGrant /\ paid'[r] = 0 /\ ~aborted'[r]
  BY <1>1 DEF LocalInv, TypeOK, StepInv, Goto, Unclaimed
<1>4. StepInv(r)'
  BY <1>3, <1>1 DEF StepInv
<1>5. Quiet
  BY <1>1, <1>2, <1>3, ReleaseQuiet
<1> QED BY <1>2, <1>4, <1>5, LocalFromStep, QuietGood

\* The steps that only move on
LEMMA MovesGood ==
  ASSUME LocalInv, SharedInv, NEW r \in Requests, NEW u,
         \/ FindMembership(r, u) \/ AlreadyJoined(r, u) \/ BonusDisabled(r)
         \/ BonusEnabled(r) \/ LoadGrant(r, u) \/ RetriedElsewhere(r, u)
         \/ CheckBalance(r) \/ FindWallet(r, u) \/ CheckStatus(r, u)
         \/ Return(r) \/ TimeOut(r) \/ Crash(r)
  PROVE  Good(r)
<1>1. CASE (Finish(r) \/ Throw(r)) /\ UNCHANGED committed
  BY <1>1, FinishGood
<1>2. ASSUME NEW label \in Label, Goto(r, label), UNCHANGED local, UNCHANGED committed,
             \/ pc[r] = "find" /\ label \in {"config", "join"}
             \/ pc[r] = "join" /\ label = "config"
             \/ pc[r] = "config" /\ job[r].op = "accept" /\ label \in {"commit", "create"}
             \/ pc[r] = "config" /\ job[r].op /= "accept" /\ label = "balance"
             \/ pc[r] = "load" /\ label = "mark"
             \/ pc[r] = "balance" /\ label = "wallet"
             \/ pc[r] = "wallet" /\ label = "pay"
             \/ pc[r] = "late" /\ label = "fail"
      PROVE Good(r)
  <2>1. pc'[r] = label
    BY <1>2 DEF Goto, LocalInv, TypeOK
  <2>2. StepInv(r)'
    BY <1>2, <2>1 DEF LocalInv, StepInv, Unclaimed, local, Committable
  <2> QED BY <1>2, <2>2, MoveGood
<1>3. CASE FindMembership(r, u)
  BY <1>2, <1>3 DEF FindMembership, Label
<1>4. CASE AlreadyJoined(r, u)
  BY <1>1, <1>2, <1>4 DEF AlreadyJoined, Label
<1>5. CASE BonusDisabled(r)
  BY <1>1, <1>2, <1>5 DEF BonusDisabled, Label
<1>6. CASE BonusEnabled(r)
  BY <1>2, <1>6 DEF BonusEnabled, Label
<1>7. CASE LoadGrant(r, u)
  BY <1>1, <1>2, <1>7 DEF LoadGrant, Label
<1>8. CASE CheckBalance(r)
  BY <1>2, <1>8 DEF CheckBalance, Label
<1>9. CASE FindWallet(r, u)
  BY <1>2, <1>9 DEF FindWallet, Label
<1>10. CASE CheckStatus(r, u)
  BY <1>1, <1>2, <1>10 DEF CheckStatus, Label
<1>11. CASE RetriedElsewhere(r, u) \/ Return(r) \/ TimeOut(r) \/ Crash(r)
  BY <1>1, <1>11 DEF RetriedElsewhere, Return, TimeOut, Crash
<1> QED BY <1>3, <1>4, <1>5, <1>6, <1>7, <1>8, <1>9, <1>10, <1>11

LEMMA InsertMembershipGood ==
  ASSUME LocalInv, SharedInv, NEW r \in Requests, NEW u \in Users, InsertMembership(r, u)
  PROVE  Good(r)
<1>1. LocalTypes' /\ Alone(r)
  BY DEF InsertMembership, LocalInv, TypeOK, LocalTypes, Goto, Label, Alone
<1>2. /\ pc[r] = "join" /\ pc'[r] = "config" /\ draft' = draft /\ paid' = paid /\ job' = job
      /\ aborted' = aborted
  BY DEF InsertMembership, LocalInv, TypeOK, Goto
<1>3. draft'[r] = NoGrant /\ paid'[r] = 0
  BY <1>2 DEF LocalInv, StepInv, Unclaimed
<1>4. StepInv(r)'
  BY <1>2, <1>3 DEF LocalInv, StepInv
<1>5. Quiet
  BY <1>1, <1>3, ReleaseQuiet DEF InsertMembership
<1> QED BY <1>1, <1>4, <1>5, LocalFromStep, QuietGood

\* r writes the grant row before it goes on to a step that follows.
LEMMA WriteLocal ==
  ASSUME LocalInv, NEW r \in Requests, NEW g \in Grant, NEW label \in Label,
         Write(r, g), Goto(r, label), UNCHANGED <<job, joins, paid, aborted>>,
         ~aborted[r], g /= NoGrant,
         \/ label = "config" /\ job[r].op = "retry" /\ paid[r] = 0
         \/ label = "balance" /\ paid[r] = 0
         \/ label = "commit" /\ Committable(g, paid[r])
  PROVE  Local(r) /\ draft'[r] = g
<1>1. LocalTypes' /\ Alone(r)
  BY DEF LocalInv, TypeOK, LocalTypes, Goto, Write, Alone
<1>2. pc'[r] = label /\ draft'[r] = g
  BY DEF LocalInv, TypeOK, Goto, Write
<1>3. StepInv(r)'
  BY <1>2 DEF LocalInv, StepInv, Unclaimed
<1> QED BY <1>1, <1>2, <1>3, LocalFromStep

\* r claims the grant row of u: nobody else has, and it is not COMPLETED.
LEMMA ClaimGood ==
  ASSUME LocalInv, SharedInv, NEW r \in Requests, NEW u \in Users, Serves(r, u),
         Local(r), ~GrantLocked(r, u), grants[u].status \in {"NONE", "FAILED"},
         UNCHANGED committed, UNCHANGED <<job, joins, paid>>
  PROVE  Good(r)
<1>1. \A v \in Users : Serves(r, v) => v = u
  BY DEF LocalInv, StepInv, Serves
<1>2. \A q \in Requests \ {r} : draft'[q] = draft[q]
  BY DEF Local, Alone
<1>3. Claimed'
  BY <1>1, <1>2 DEF SharedInv, Claimed, Serves, committed
<1>4. Exclusive'
  BY <1>1, <1>2 DEF SharedInv, Exclusive, Serves, GrantLocked
<1>5. PayeeIsMember' /\ NoGrantLeftInProgress' /\ BonusPaidOnce'
  BY DEF SharedInv, PayeeIsMember, NoGrantLeftInProgress, BonusPaidOnce, Serves, IsMember, committed
<1> QED BY <1>3, <1>4, <1>5 DEF Good, SharedInv

LEMMA CreatePendingGood ==
  ASSUME LocalInv, SharedInv, NEW r \in Requests, NEW u \in Users, CreatePending(r, u)
  PROVE  Good(r)
<1>1. [status |-> "PENDING", tx |-> 0] \in Grant /\ [status |-> "PENDING", tx |-> 0] /= NoGrant
  BY DEF Grant, Status, NoGrant
<1>2. ~aborted[r] /\ paid[r] = 0
  BY DEF CreatePending, LocalInv, StepInv, Unclaimed
<1>3. Local(r)
  BY <1>1, <1>2, WriteLocal DEF CreatePending, Label
<1> QED BY <1>3, ClaimGood DEF CreatePending

LEMMA MarkRetryingGood ==
  ASSUME LocalInv, SharedInv, NEW r \in Requests, NEW u \in Users, MarkRetrying(r, u)
  PROVE  Good(r)
<1> DEFINE g == [grants[u] EXCEPT !.status = "RETRYING"]
<1>1. g \in Grant /\ g.status = "RETRYING"
  BY DEF Grant, Status, LocalInv, TypeOK
<1>2. g /= NoGrant
  BY <1>1 DEF NoGrant
<1>3. ~aborted[r] /\ paid[r] = 0 /\ job[r].op = "retry"
  BY DEF MarkRetrying, LocalInv, StepInv, Unclaimed
<1>4. Write(r, g) /\ Goto(r, "config") /\ UNCHANGED <<job, joins, paid, aborted>>
  BY DEF MarkRetrying
<1> HIDE DEF g
<1>5. Local(r)
  BY <1>1, <1>2, <1>3, <1>4, WriteLocal DEF Label
<1> QED BY <1>5, ClaimGood DEF MarkRetrying

LEMMA GrantFailsGood ==
  ASSUME LocalInv, SharedInv, NEW r \in Requests, GrantFails(r),
         pc[r] \in {"balance", "wallet"}
  PROVE  Good(r)
<1>1. CASE Throw(r) /\ UNCHANGED committed
  BY <1>1, FinishGood
<1>2. CASE job[r].op = "accept"
  <2> DEFINE g == [draft[r] EXCEPT !.status = "FAILED"]
  <2>1. g \in Grant /\ g.status = "FAILED"
    BY DEF Grant, Status, LocalInv, TypeOK
  <2>2. g /= NoGrant /\ paid[r] = 0 /\ ~aborted[r]
    BY <2>1 DEF NoGrant, LocalInv, StepInv
  <2>3. /\ Write(r, g) /\ Goto(r, "commit") /\ UNCHANGED <<job, joins, paid, aborted>>
        /\ UNCHANGED committed
    BY <1>2 DEF GrantFails
  <2> HIDE DEF g
  <2>4. Local(r)
    BY <2>1, <2>2, <2>3, WriteLocal DEF Label, Committable
  <2>5. Quiet
    <3>1. Keeps(r) /\ \A q \in Requests \ {r} : Keeps(q)
      BY <2>3, <2>4 DEF Keeps, Local, Alone, LocalInv, StepInv
    <3> QED BY <2>3, <3>1 DEF Quiet, committed
  <2> QED BY <2>4, <2>5, QuietGood
<1> QED BY <1>1, <1>2 DEF GrantFails

\* A statement of a joining call fails in the database.
LEMMA AbortGood ==
  ASSUME LocalInv, SharedInv, NEW r \in Requests,
         aborted' = [aborted EXCEPT ![r] = TRUE], Goto(r, "commit"),
         UNCHANGED <<job, joins, draft, paid>>, UNCHANGED committed
  PROVE  Good(r)
<1>1. LocalTypes' /\ Alone(r)
  BY DEF LocalInv, TypeOK, LocalTypes, Goto, Label, Alone
<1>2. pc'[r] = "commit" /\ aborted'[r]
  BY DEF LocalInv, TypeOK, Goto
<1>3. StepInv(r)'
  BY <1>2 DEF LocalInv, StepInv, Unclaimed
<1>4. Quiet
  BY DEF Quiet, Keeps, LocalInv, StepInv, committed
<1> QED BY <1>1, <1>3, <1>4, LocalFromStep, QuietGood

LEMMA FailuresGood ==
  ASSUME LocalInv, SharedInv, NEW r \in Requests, NEW u,
         \/ InsufficientFunds(r) \/ RefreshFails(r) \/ WalletMissing(r, u)
         \/ GrantExists(r, u) \/ PayFails(r, u)
  PROVE  Good(r)
  BY GrantFailsGood, FinishGood, AbortGood
  DEF InsufficientFunds, RefreshFails, WalletMissing, GrantExists, PayFails

\* The payment keeps its wallet: the foreign key has just found it.
LEMMA PayGood ==
  ASSUME LocalInv, SharedInv, NEW r \in Requests, NEW u \in Users, Pay(r, u), WalletExists(r, u)
  PROVE  Good(r)
<1>1. clock + 1 \in Nat /\ clock + 1 /= 0
  BY DEF LocalInv, TypeOK
<1>2. LocalTypes' /\ Alone(r)
  BY <1>1 DEF Pay, LocalInv, TypeOK, LocalTypes, Goto, Label, Alone
<1>3. /\ pc[r] = "pay" /\ pc'[r] = "complete" /\ paid'[r] /= 0
      /\ UNCHANGED <<job, joins, draft, aborted>>
      /\ \A q \in Requests \ {r} : paid'[q] = paid[q]
  BY <1>1 DEF Pay, LocalInv, TypeOK, Goto
<1>4. StepInv(r)'
  BY <1>3 DEF LocalInv, StepInv, Unclaimed
<1>5. \A v \in Users : Serves(r, v) => v = u
  BY DEF Pay, LocalInv, StepInv, Serves
<1>6. PayeeIsMember'
  BY <1>3, <1>5 DEF Pay, WalletExists, SharedInv, PayeeIsMember, Serves, IsMember, community
<1>7. Claimed' /\ Exclusive' /\ NoGrantLeftInProgress' /\ BonusPaidOnce'
  BY DEF Pay, SharedInv, Claimed, Exclusive, NoGrantLeftInProgress, BonusPaidOnce, Serves
<1> QED BY <1>2, <1>4, <1>6, <1>7, LocalFromStep DEF Good, SharedInv

LEMMA CompleteGood ==
  ASSUME LocalInv, SharedInv, NEW r \in Requests, Complete(r)
  PROVE  Good(r)
<1> DEFINE g == [status |-> "COMPLETED", tx |-> paid[r]]
<1>1. g \in Grant /\ g /= NoGrant /\ Committable(g, paid[r])
  BY DEF Grant, Status, NoGrant, Committable, Complete, LocalInv, TypeOK, StepInv
<1>2. /\ Write(r, g) /\ Goto(r, "commit") /\ UNCHANGED <<job, joins, paid, aborted>>
      /\ UNCHANGED committed /\ ~aborted[r] /\ draft[r] /= NoGrant
  BY DEF Complete, LocalInv, StepInv
<1> HIDE DEF g
<1>3. Local(r)
  BY <1>1, <1>2, WriteLocal DEF Label
<1>4. Quiet
  <2>1. Keeps(r) /\ \A q \in Requests \ {r} : Keeps(q)
    BY <1>2, <1>3 DEF Keeps, Local, Alone, LocalInv, StepInv
  <2> QED BY <1>2, <2>1 DEF Quiet, committed
<1> QED BY <1>3, <1>4, QuietGood

LEMMA CommitLocal ==
  ASSUME LocalInv, NEW r \in Requests, EndTransaction(r), AfterCommit(r), job' = job
  PROVE  Local(r) /\ draft'[r] = NoGrant /\ paid'[r] = 0
<1>1. PICK label \in {"notify", "joined"} : Goto(r, label)
  BY DEF AfterCommit
<1> QED BY <1>1, EndLocal DEF Local, Unclaimed

\* A commit publishes the grant row that r holds alone; it was not COMPLETED, so
\* that its user had no bonus yet.
LEMMA CommitGood ==
  ASSUME LocalInv, SharedInv, NEW r \in Requests, NEW u \in Users, Commit(r, u)
  PROVE  Good(r) /\ TypeOK'
<1>1. Local(r) /\ draft'[r] = NoGrant /\ paid'[r] = 0
  BY CommitLocal DEF Commit
<1>2. \A q \in Requests \ {r} : /\ draft'[q] = draft[q] /\ job'[q] = job[q]
                                /\ joins'[q] = joins[q] /\ paid'[q] = paid[q]
  BY <1>1 DEF Local, Alone
<1>3. /\ Committable(draft[r], paid[r]) /\ members \subseteq members' /\ reopened' = reopened
      /\ Serves(r, u) /\ draft[r] \in Grant /\ paid[r] \in Nat
  BY DEF Commit, LocalInv, TypeOK, StepInv
<1>4. CASE draft[r] = NoGrant
  <2>1. grants' = grants /\ bonuses' = bonuses
    BY <1>3, <1>4 DEF Commit, Committable, NoGrant
  <2>2. Claimed' /\ Exclusive' /\ PayeeIsMember'
    BY <1>1, <1>2, <1>3, <2>1
    DEF SharedInv, Claimed, Exclusive, PayeeIsMember, Serves, IsMember
  <2>3. NoGrantLeftInProgress' /\ BonusPaidOnce'
    BY <1>3, <2>1 DEF SharedInv, NoGrantLeftInProgress, BonusPaidOnce
  <2>4. TypeOK'
    BY <1>1, <2>1 DEF Commit, Local, LocalTypes, LocalInv, TypeOK
  <2> QED BY <1>1, <2>2, <2>3, <2>4 DEF Good, SharedInv
<1>5. CASE draft[r] /= NoGrant
  <2>1. grants' = [grants EXCEPT ![u] = draft[r]] /\ grants \in [Users -> Grant]
    BY <1>5 DEF Commit, LocalInv, TypeOK
  <2>2. grants'[u] = draft[r] /\ \A v \in Users \ {u} : grants'[v] = grants[v]
    BY <2>1
  <2>3. \A q \in Requests \ {r} : Serves(q, u) => draft[q] = NoGrant
    BY <1>3, <1>5 DEF SharedInv, Exclusive
  <2>4. \A b \in bonuses : b.user = u => u \in reopened
    BY <1>3, <1>5 DEF SharedInv, Claimed, BonusPaidOnce
  <2>5. Claimed'
    BY <1>1, <1>2, <2>2, <2>3 DEF SharedInv, Claimed, Serves
  <2>6. Exclusive' /\ PayeeIsMember'
    BY <1>1, <1>2, <1>3 DEF SharedInv, Exclusive, PayeeIsMember, Serves, IsMember
  <2>7. NoGrantLeftInProgress'
    BY <1>3, <1>5, <2>2 DEF Committable, SharedInv, NoGrantLeftInProgress
  <2>8. BonusPaidOnce'
    <3>1. ASSUME NEW b \in bonuses', b.user \notin reopened'
          PROVE  grants'[b.user].tx = b.id /\ grants'[b.user].status = "COMPLETED"
      <4>1. CASE b \in bonuses
        <5>1. b.user \in Users \ {u}
          BY <1>3, <2>4, <3>1, <4>1 DEF LocalInv, TypeOK, Bonus
        <5> QED BY <1>3, <2>2, <3>1, <4>1, <5>1 DEF SharedInv, BonusPaidOnce
      <4>2. CASE b \notin bonuses
        <5>1. paid[r] /= 0 /\ b = [id |-> paid[r], user |-> u]
          BY <4>2 DEF Commit
        <5>2. draft[r].tx = paid[r] /\ draft[r].status = "COMPLETED"
          BY <1>3, <5>1 DEF Committable
        <5> QED BY <2>2, <5>1, <5>2
      <4> QED BY <4>1, <4>2
    <3> QED BY <3>1 DEF BonusPaidOnce
  <2>9. TypeOK'
    <3>1. members' \subseteq Users /\ bonuses' \subseteq Bonus
      BY <1>3 DEF Commit, LocalInv, TypeOK, Bonus
    <3>2. grants' \in [Users -> Grant]
      BY <1>3, <2>1
    <3> QED BY <1>1, <3>1, <3>2 DEF Commit, Local, LocalTypes, LocalInv, TypeOK
  <2> QED BY <1>1, <2>5, <2>6, <2>7, <2>8, <2>9 DEF Good, SharedInv
<1> QED BY <1>4, <1>5

LEMMA CommitAbortedGood ==
  ASSUME LocalInv, SharedInv, NEW r \in Requests, CommitAborted(r)
  PROVE  Good(r)
  BY CommitLocal, ReleaseQuiet, QuietGood DEF CommitAborted, Local

\* The late failure mark finds no transaction holding the row.
LEMMA MarkFailedGood ==
  ASSUME LocalInv, SharedInv, NEW r \in Requests, NEW u \in Users, MarkFailed(r, u)
  PROVE  Good(r) /\ TypeOK'
<1>1. Local(r) /\ draft'[r] = NoGrant /\ paid'[r] = 0
  BY FinishLocal DEF MarkFailed, Local
<1>2. \A q \in Requests \ {r} : /\ draft'[q] = draft[q] /\ job'[q] = job[q]
                                /\ joins'[q] = joins[q] /\ paid'[q] = paid[q]
  BY <1>1 DEF Local, Alone
<1>3. /\ grants' = [grants EXCEPT ![u].status = "FAILED"] /\ grants \in [Users -> Grant]
      /\ UNCHANGED <<members, bonuses>>
      /\ reopened' = IF grants[u].status = "COMPLETED" THEN reopened \cup {u} ELSE reopened
  BY DEF MarkFailed, LocalInv, TypeOK, community
<1>4. grants'[u].status = "FAILED" /\ \A v \in Users \ {u} : grants'[v] = grants[v]
  BY <1>3 DEF Grant
<1>5. Claimed' /\ Exclusive' /\ PayeeIsMember'
  BY <1>1, <1>2, <1>3, <1>4
  DEF SharedInv, Claimed, Exclusive, PayeeIsMember, Serves, IsMember
<1>6. NoGrantLeftInProgress'
  BY <1>4 DEF SharedInv, NoGrantLeftInProgress
<1>7. BonusPaidOnce'
  BY <1>3, <1>4 DEF SharedInv, BonusPaidOnce, LocalInv, TypeOK, Bonus
<1>8. grants' \in [Users -> Grant] /\ reopened' \subseteq Users
  BY <1>3 DEF Grant, Status, LocalInv, TypeOK
<1>9. TypeOK'
  BY <1>1, <1>3, <1>8 DEF MarkFailed, Local, LocalTypes, LocalInv, TypeOK, community
<1> QED BY <1>1, <1>5, <1>6, <1>7, <1>9 DEF Good, SharedInv

-----------------------------------------------------------------------------
(* Every step *)

GrantInv == LocalInv /\ SharedInv

LEMMA CommunityStep ==
  ASSUME GrantInv,
         IssuePoint \/ SetEnabled \/ (\E u \in Users : Leave(u)) \/ UNCHANGED vars
  PROVE  GrantInv'
<1> USE DEF GrantInv
<1>1. UNCHANGED <<pc, local>> /\ UNCHANGED <<grants, bonuses, reopened>>
  BY DEF IssuePoint, SetEnabled, Leave, vars, local
<1>2. TypeOK'
  <2>1. enabled' \in BOOLEAN
    BY Zenon DEF IssuePoint, SetEnabled, Leave, vars, LocalInv, TypeOK
  <2>2. members' \subseteq Users /\ issued' \in Nat /\ clock' = clock
    BY DEF IssuePoint, SetEnabled, Leave, vars, LocalInv, TypeOK
  <2> QED BY <1>1, <2>1, <2>2 DEF local, LocalInv, TypeOK
<1>3. \A r \in Requests : StepInv(r)'
  BY <1>1 DEF LocalInv, StepInv, local
<1>4. PayeeIsMember'
  BY <1>1 DEF IssuePoint, SetEnabled, Leave, vars, local, SharedInv, PayeeIsMember,
              Serves, IsMember
<1>5. Claimed' /\ Exclusive' /\ NoGrantLeftInProgress' /\ BonusPaidOnce'
  BY <1>1 DEF local, SharedInv, Claimed, Exclusive, NoGrantLeftInProgress, BonusPaidOnce, Serves
<1> QED BY <1>2, <1>3, <1>4, <1>5 DEF LocalInv, SharedInv

LEMMA RequestStep ==
  ASSUME GrantInv, NEW r \in Requests,
         \/ \E u \in Users : Accept(r, u) \/ Retry(r, u)
         \/ Progress(r) \/ TimeOut(r) \/ Crash(r)
  PROVE  GrantInv'
<1> USE DEF GrantInv
<1>1. ASSUME Good(r), UNCHANGED <<members, enabled, issued, bonuses, grants, reopened>>,
             clock' \in Nat
      PROVE GrantInv'
  BY <1>1 DEF Good, Local, LocalTypes, LocalInv, TypeOK
<1>2. ASSUME Good(r), UNCHANGED committed PROVE GrantInv'
  BY <1>1, <1>2 DEF committed, LocalInv, TypeOK
<1>3. ASSUME Good(r), TypeOK' PROVE GrantInv'
  BY <1>3 DEF Good, Local, LocalInv
<1>4. ASSUME NEW u \in Users, Accept(r, u) \/ Retry(r, u) PROVE GrantInv'
  BY <1>2, <1>4, CallGood DEF Accept, Retry
<1>5. ASSUME NEW u,
             \/ FindMembership(r, u) \/ AlreadyJoined(r, u) \/ BonusDisabled(r)
             \/ BonusEnabled(r) \/ LoadGrant(r, u) \/ RetriedElsewhere(r, u)
             \/ CheckBalance(r) \/ FindWallet(r, u) \/ CheckStatus(r, u)
             \/ Return(r) \/ TimeOut(r) \/ Crash(r)
      PROVE GrantInv'
  <2>1. UNCHANGED committed
    BY <1>5 DEF FindMembership, AlreadyJoined, BonusDisabled, BonusEnabled, LoadGrant,
      RetriedElsewhere, CheckBalance, FindWallet, CheckStatus, Return, TimeOut, Crash
  <2> QED BY <1>2, <1>5, <2>1, MovesGood
<1>6. ASSUME NEW u,
             \/ InsufficientFunds(r) \/ RefreshFails(r) \/ WalletMissing(r, u)
             \/ GrantExists(r, u) \/ PayFails(r, u) \/ Complete(r) \/ CommitAborted(r)
      PROVE GrantInv'
  <2>1. UNCHANGED committed
    BY <1>6 DEF InsufficientFunds, RefreshFails, WalletMissing, GrantExists, PayFails,
      Complete, CommitAborted, GrantFails
  <2> QED BY <1>2, <1>6, <2>1, FailuresGood, CompleteGood, CommitAbortedGood
<1>7. ASSUME NEW u \in Users, InsertMembership(r, u) \/ CreatePending(r, u) \/ MarkRetrying(r, u)
      PROVE GrantInv'
  <2>1. UNCHANGED committed
    BY <1>7 DEF InsertMembership, CreatePending, MarkRetrying
  <2> QED BY <1>2, <1>7, <2>1, InsertMembershipGood, CreatePendingGood, MarkRetryingGood
<1>8. ASSUME NEW u \in Users, Pay(r, u) PROVE GrantInv'
  <2>1. clock' \in Nat /\ UNCHANGED <<members, enabled, issued, bonuses, grants, reopened>>
    BY <1>8 DEF Pay, LocalInv, TypeOK, community
  <2> QED BY <1>1, <1>8, <2>1, PayGood DEF Pay
<1>9. ASSUME NEW u \in Users, Commit(r, u) \/ MarkFailed(r, u) PROVE GrantInv'
  BY <1>3, <1>9, CommitGood, MarkFailedGood
<1> QED BY <1>4, <1>5, <1>6, <1>7, <1>8, <1>9 DEF Progress

LEMMA GrantInvStep == GrantInv /\ [Next]_vars => GrantInv'
  BY CommunityStep, RequestStep DEF Next

LEMMA GrantInvInit == Init => GrantInv
<1> SUFFICES ASSUME Init PROVE GrantInv
  OBVIOUS
<1>1. TypeOK
  BY NoGrantType DEF Init, TypeOK, Label
<1>2. \A r \in Requests : StepInv(r)
  BY DEF Init, StepInv, Unclaimed, NoJob
<1>3. SharedInv
  BY DEF Init, SharedInv, Claimed, Exclusive, PayeeIsMember, NoGrantLeftInProgress,
         BonusPaidOnce, NoGrant
<1> QED BY <1>1, <1>2, <1>3 DEF GrantInv, LocalInv

LEMMA GrantInvAlways == Spec => []GrantInv
  BY GrantInvInit, GrantInvStep, PTL DEF Spec

\* The variables keep their types in every behaviour.
THEOREM TypeCorrect == Spec => []TypeOK
  BY GrantInvAlways, PTL DEF GrantInv, LocalInv

\* No failure, at any step of any call, leaves a grant PENDING or RETRYING for
\* others to see.
THEOREM NoGrantLeftInProgressAlways == Spec => []NoGrantLeftInProgress
  BY GrantInvAlways, PTL DEF GrantInv, SharedInv

\* Every bonus of a user is the one its grant names, unless markAsFailed reopened
\* a grant that was COMPLETED.
THEOREM BonusPaidOnceAlways == Spec => []BonusPaidOnce
  BY GrantInvAlways, PTL DEF GrantInv, SharedInv

\* A bonus goes to a member: nobody's wallet is deleted between the payment and
\* its commit.
THEOREM PaidToMemberAlways == Spec => PaidToMember
<1> DEFINE Paid == \A b \in bonuses' \ bonuses : b.user \in members'
<1>1. GrantInv /\ [Next]_vars => [Paid]_vars
  <2> SUFFICES ASSUME GrantInv, Next PROVE Paid
    OBVIOUS
  <2>1. ASSUME NEW r \in Requests, NEW u \in Users, Commit(r, u) PROVE Paid
    <3>1. \/ bonuses' = bonuses
          \/ paid[r] /= 0 /\ bonuses' = bonuses \cup {[id |-> paid[r], user |-> u]}
      BY <2>1 DEF Commit
    <3>2. paid[r] /= 0 => u \in members'
      BY <2>1 DEF Commit, GrantInv, SharedInv, PayeeIsMember, IsMember
    <3> QED BY <3>1, <3>2
  <2>2. bonuses' = bonuses \/ \E r \in Requests, u \in Users : Commit(r, u)
    <3>1. ASSUME NEW r \in Requests, NEW u \in Users,
                 \/ Accept(r, u) \/ Retry(r, u) \/ FindMembership(r, u)
                 \/ InsertMembership(r, u) \/ AlreadyJoined(r, u) \/ CreatePending(r, u)
                 \/ GrantExists(r, u) \/ LoadGrant(r, u) \/ MarkRetrying(r, u)
                 \/ RetriedElsewhere(r, u) \/ FindWallet(r, u) \/ WalletMissing(r, u)
          PROVE bonuses' = bonuses
      BY <3>1 DEF Accept, Retry, FindMembership, InsertMembership, AlreadyJoined,
        CreatePending, GrantExists, LoadGrant, MarkRetrying, RetriedElsewhere, FindWallet,
        WalletMissing, GrantFails, committed
    <3>2. ASSUME NEW r \in Requests, NEW u \in Users,
                 Pay(r, u) \/ PayFails(r, u) \/ CheckStatus(r, u) \/ MarkFailed(r, u)
          PROVE bonuses' = bonuses
      BY <3>2 DEF Pay, PayFails, CheckStatus, MarkFailed, committed
    <3>3. ASSUME NEW r \in Requests,
                 \/ BonusDisabled(r) \/ BonusEnabled(r) \/ CheckBalance(r)
                 \/ InsufficientFunds(r) \/ Complete(r) \/ RefreshFails(r)
                 \/ CommitAborted(r) \/ Return(r) \/ TimeOut(r) \/ Crash(r)
          PROVE bonuses' = bonuses
      BY <3>3 DEF BonusDisabled, BonusEnabled, CheckBalance, InsufficientFunds, Complete,
        RefreshFails, CommitAborted, Return, TimeOut, Crash, GrantFails, committed
    <3>4. IssuePoint \/ SetEnabled \/ (\E u \in Users : Leave(u)) => bonuses' = bonuses
      BY DEF IssuePoint, SetEnabled, Leave
    <3> QED BY <3>1, <3>2, <3>3, <3>4 DEF Next, Progress
  <2> QED BY <2>1, <2>2
<1> QED BY <1>1, GrantInvAlways, PTL DEF Spec, PaidToMember
-----------------------------------------------------------------------------
(* What a reported join says *)

\* The steps of a call between its insert of the membership and the end of its
\* transaction
JoinSteps == {"config", "create", "balance", "wallet", "pay", "complete", "commit"}

\* A transaction that has inserted a membership is still open, and a statement of
\* it fails only at a grant row that was there before, or for want of ids.
JoinOpen(r) == joins[r] => pc[r] \in JoinSteps
AbortExplained(r) ==
  \A u \in Users :
    joins[r] /\ aborted[r] /\ Serves(r, u) => grants[u].status /= "NONE" \/ clock = MaxTx
JoinInv == clock <= MaxTx /\ \A r \in Requests : JoinOpen(r) /\ AbortExplained(r)

\* Grant rows are never deleted, nor ids handed out twice.
RowsStay ==
  /\ \A u \in Users : grants[u].status /= "NONE" => grants'[u].status /= "NONE"
  /\ clock <= clock' /\ clock' <= MaxTx /\ clock' \in Nat

\* The membership that r reports is committed, or there is an excuse.
Reported(r) ==
  \A u \in Users : joins[r] /\ pc'[r] = "joined" /\ Serves(r, u) =>
                     u \in members' \/ grants[u].status /= "NONE" \/ clock = MaxTx

\* A step of r
Joins(r) == JoinInv' /\ \A q \in Requests : Reported(q)

LEMMA JoinFromStep ==
  ASSUME GrantInv, JoinInv, NEW r \in Requests, Good(r), RowsStay,
         JoinOpen(r)', AbortExplained(r)', Reported(r)
  PROVE  Joins(r)
<1>1. ASSUME NEW q \in Requests \ {r}
      PROVE JoinOpen(q)' /\ AbortExplained(q)' /\ Reported(q)
  <2>1. pc'[q] = pc[q] /\ job'[q] = job[q] /\ joins'[q] = joins[q] /\ aborted'[q] = aborted[q]
    BY DEF Good, Local, Alone
  <2>2. JoinOpen(q)' /\ Reported(q)
    BY <2>1 DEF JoinInv, JoinOpen, Reported, JoinSteps
  <2>3. clock = MaxTx => clock' = MaxTx
    BY BoundAssumption DEF RowsStay, GrantInv, LocalInv, TypeOK
  <2>4. AbortExplained(q)'
    BY <2>1, <2>3 DEF JoinInv, AbortExplained, RowsStay, Serves
  <2> QED BY <2>2, <2>4
<1> QED BY <1>1 DEF Joins, JoinInv, RowsStay

LEMMA CommittedStays ==
  ASSUME GrantInv, JoinInv, UNCHANGED committed
  PROVE  RowsStay
  BY BoundAssumption DEF RowsStay, committed, GrantInv, LocalInv, TypeOK, JoinInv

\* The transaction ends without a report.
LEMMA EndJoins ==
  ASSUME GrantInv, JoinInv, NEW r \in Requests, Finish(r) \/ Throw(r), UNCHANGED committed
  PROVE  Joins(r)
<1>1. joins'[r] = FALSE /\ pc'[r] /= "joined"
  BY DEF Finish, Throw, EndTransaction, Goto, GrantInv, LocalInv, TypeOK
<1>2. JoinOpen(r)' /\ AbortExplained(r)' /\ Reported(r)
  BY <1>1 DEF JoinOpen, AbortExplained, Reported
<1>3. Good(r)
  BY FinishGood DEF GrantInv
<1> QED BY <1>2, <1>3, CommittedStays, JoinFromStep

\* The call goes on within its transaction.
LEMMA OnwardJoins ==
  ASSUME GrantInv, JoinInv, NEW r \in Requests, Good(r), RowsStay,
         NEW label \in Label \ {"joined"}, Goto(r, label), UNCHANGED <<job, joins, aborted>>,
         joins[r] => label \in JoinSteps
  PROVE  Joins(r)
<1>1. pc'[r] = label
  BY DEF Goto, GrantInv, LocalInv, TypeOK
<1>2. clock = MaxTx => clock' = MaxTx
  BY BoundAssumption DEF RowsStay, GrantInv, LocalInv, TypeOK
<1>3. JoinOpen(r)' /\ AbortExplained(r)' /\ Reported(r)
  BY <1>1, <1>2 DEF JoinInv, JoinOpen, AbortExplained, Reported, RowsStay, Serves
<1> QED BY <1>3, JoinFromStep

LEMMA MovesJoins ==
  ASSUME GrantInv, JoinInv, NEW r \in Requests, NEW u,
         \/ FindMembership(r, u) \/ AlreadyJoined(r, u) \/ BonusDisabled(r)
         \/ BonusEnabled(r) \/ LoadGrant(r, u) \/ RetriedElsewhere(r, u)
         \/ CheckBalance(r) \/ FindWallet(r, u) \/ CheckStatus(r, u)
         \/ Return(r) \/ TimeOut(r) \/ Crash(r)
  PROVE  Joins(r)
<1>1. Good(r)
  BY MovesGood DEF GrantInv
<1>2. UNCHANGED committed
  BY DEF FindMembership, AlreadyJoined, BonusDisabled, BonusEnabled, LoadGrant,
    RetriedElsewhere, CheckBalance, FindWallet, CheckStatus, Return, TimeOut, Crash
<1>3. ASSUME NEW label \in Label \ {"joined"}, Goto(r, label), UNCHANGED local,
             pc[r] \in JoinSteps => label \in JoinSteps
      PROVE Joins(r)
  BY <1>1, <1>2, <1>3, CommittedStays, OnwardJoins DEF local, JoinInv, JoinOpen
<1>4. CASE Finish(r) \/ Throw(r)
  BY <1>2, <1>4, EndJoins
<1>5. CASE FindMembership(r, u)
  BY <1>3, <1>5 DEF FindMembership, Label, JoinSteps
<1>6. CASE AlreadyJoined(r, u)
  BY <1>3, <1>4, <1>6 DEF AlreadyJoined, Label, JoinSteps
<1>7. CASE BonusDisabled(r)
  BY <1>3, <1>4, <1>7 DEF BonusDisabled, Label, JoinSteps
<1>8. CASE BonusEnabled(r)
  BY <1>3, <1>8 DEF BonusEnabled, Label, JoinSteps
<1>9. CASE LoadGrant(r, u)
  BY <1>3, <1>4, <1>9 DEF LoadGrant, Label, JoinSteps
<1>10. CASE CheckBalance(r)
  BY <1>3, <1>10 DEF CheckBalance, Label, JoinSteps
<1>11. CASE FindWallet(r, u)
  BY <1>3, <1>11 DEF FindWallet, Label, JoinSteps
<1>12. CASE CheckStatus(r, u)
  BY <1>3, <1>4, <1>12 DEF CheckStatus, Label, JoinSteps
<1>13. CASE RetriedElsewhere(r, u) \/ Return(r) \/ TimeOut(r) \/ Crash(r)
  BY <1>4, <1>13 DEF RetriedElsewhere, Return, TimeOut, Crash
<1> QED BY <1>5, <1>6, <1>7, <1>8, <1>9, <1>10, <1>11, <1>12, <1>13

\* The steps that write: the membership, the grant row, the payment.
LEMMA WritesJoins ==
  ASSUME GrantInv, JoinInv, NEW r \in Requests, NEW u,
         \/ u \in Users /\ (CreatePending(r, u) \/ MarkRetrying(r, u) \/ Pay(r, u))
         \/ Complete(r)
  PROVE  Joins(r)
<1>1. Good(r)
  BY CreatePendingGood, MarkRetryingGood, PayGood, CompleteGood DEF GrantInv, Pay
<1>2. RowsStay
  <2>1. CASE UNCHANGED committed
    BY <2>1, CommittedStays
  <2>2. CASE Pay(r, u)
    BY <2>2, BoundAssumption DEF Pay, RowsStay, GrantInv, LocalInv, TypeOK, JoinInv
  <2> QED BY <2>1, <2>2 DEF CreatePending, MarkRetrying, Complete
<1>3. UNCHANGED <<job, joins, aborted>>
  BY DEF CreatePending, MarkRetrying, Pay, Complete
<1>4. PICK label \in {"balance", "config", "complete", "commit"} : Goto(r, label)
  BY DEF CreatePending, MarkRetrying, Pay, Complete
<1> QED BY <1>1, <1>2, <1>3, <1>4, OnwardJoins DEF Label, JoinSteps

LEMMA InsertJoins ==
  ASSUME GrantInv, JoinInv, NEW r \in Requests, NEW u \in Users, InsertMembership(r, u)
  PROVE  Joins(r)
<1>1. Good(r)
  BY InsertMembershipGood DEF GrantInv
<1>2. pc'[r] = "config" /\ ~aborted'[r]
  BY DEF InsertMembership, Goto, GrantInv, LocalInv, TypeOK, StepInv
<1>3. JoinOpen(r)' /\ AbortExplained(r)' /\ Reported(r)
  BY <1>2 DEF JoinOpen, AbortExplained, Reported, JoinSteps
<1> QED BY <1>1, <1>3, CommittedStays, JoinFromStep DEF InsertMembership

\* The bonus fails: the grant says so, or the database has failed a statement.
LEMMA FailuresJoins ==
  ASSUME GrantInv, JoinInv, NEW r \in Requests, NEW u,
         \/ InsufficientFunds(r) \/ RefreshFails(r) \/ WalletMissing(r, u)
         \/ GrantExists(r, u) \/ PayFails(r, u)
  PROVE  Joins(r)
<1>1. Good(r)
  BY FailuresGood DEF GrantInv
<1>2. UNCHANGED committed
  BY DEF InsufficientFunds, RefreshFails, WalletMissing, GrantExists, PayFails, GrantFails
<1>3. CASE Finish(r) \/ Throw(r)
  BY <1>2, <1>3, EndJoins
<1>4. CASE Goto(r, "commit") /\ UNCHANGED <<job, joins, aborted>>
  BY <1>1, <1>2, <1>4, CommittedStays, OnwardJoins DEF Label, JoinSteps
<1>5. CASE /\ aborted' = [aborted EXCEPT ![r] = TRUE] /\ Goto(r, "commit")
           /\ UNCHANGED <<job, joins>> /\ Serves(r, u)
           /\ joins[r] => grants[u].status /= "NONE" \/ clock = MaxTx
  <2>1. pc'[r] = "commit" /\ job' = job /\ joins' = joins /\ grants' = grants /\ clock' = clock
    BY <1>2, <1>5 DEF Goto, GrantInv, LocalInv, TypeOK, committed
  <2>2. \A v \in Users : Serves(r, v) => v = u
    BY <1>5 DEF GrantInv, LocalInv, StepInv, Serves
  <2>3. JoinOpen(r)' /\ AbortExplained(r)' /\ Reported(r)
    BY <1>5, <2>1, <2>2 DEF JoinOpen, AbortExplained, Reported, JoinSteps, Serves
  <2> QED BY <1>1, <1>2, <2>3, CommittedStays, JoinFromStep
<1>6. CASE InsufficientFunds(r) \/ RefreshFails(r) \/ WalletMissing(r, u)
  BY <1>3, <1>4, <1>6 DEF InsufficientFunds, RefreshFails, WalletMissing, GrantFails
<1>7. CASE GrantExists(r, u)
  BY <1>5, <1>7 DEF GrantExists
<1>8. CASE PayFails(r, u)
  BY <1>3, <1>5, <1>8 DEF PayFails, WalletExists, IsMember
<1> QED BY <1>6, <1>7, <1>8

\* The commit publishes the membership together with the grant row; a transaction
\* that was aborted loses it, and reports it all the same.
LEMMA CommitJoins ==
  ASSUME GrantInv, JoinInv, NEW r \in Requests, NEW u,
         (u \in Users /\ Commit(r, u)) \/ CommitAborted(r)
  PROVE  Joins(r)
<1>1. Good(r)
  BY CommitGood, CommitAbortedGood DEF GrantInv
<1>2. joins'[r] = FALSE
  BY DEF Commit, CommitAborted, EndTransaction, GrantInv, LocalInv, TypeOK
<1>3. RowsStay
  <2>1. CASE UNCHANGED committed
    BY <2>1, CommittedStays
  <2>2. CASE Commit(r, u)
    <3>1. grants \in [Users -> Grant] /\ (draft[r] = NoGrant \/ draft[r].status /= "NONE")
      BY <2>2 DEF Commit, GrantInv, LocalInv, TypeOK, StepInv, Committable
    <3>2. \A v \in Users : grants[v].status /= "NONE" => grants'[v].status /= "NONE"
      BY <2>2, <3>1 DEF Commit
    <3> QED BY <2>2, <3>2, BoundAssumption DEF Commit, RowsStay, GrantInv, LocalInv, TypeOK, JoinInv
  <2> QED BY <2>1, <2>2 DEF CommitAborted
<1>4. Reported(r)
  <2>1. CASE Commit(r, u)
    <3>1. \A v \in Users : Serves(r, v) => v = u
      BY <2>1 DEF Commit, GrantInv, LocalInv, StepInv, Serves
    <3> QED BY <2>1, <3>1 DEF Commit, Reported
  <2>2. CASE CommitAborted(r)
    BY <2>2 DEF CommitAborted, Reported, JoinInv, AbortExplained
  <2> QED BY <2>1, <2>2
<1>5. JoinOpen(r)' /\ AbortExplained(r)'
  BY <1>2 DEF JoinOpen, AbortExplained
<1> QED BY <1>1, <1>3, <1>4, <1>5, JoinFromStep

LEMMA MarkFailedJoins ==
  ASSUME GrantInv, JoinInv, NEW r \in Requests, NEW u \in Users, MarkFailed(r, u)
  PROVE  Joins(r)
<1>1. Good(r)
  BY MarkFailedGood DEF GrantInv
<1>2. joins'[r] = FALSE /\ pc'[r] = "idle"
  BY DEF MarkFailed, Finish, EndTransaction, Goto, GrantInv, LocalInv, TypeOK
<1>3. RowsStay
  <2>1. grants' = [grants EXCEPT ![u].status = "FAILED"] /\ grants \in [Users -> Grant]
    BY DEF MarkFailed, GrantInv, LocalInv, TypeOK
  <2>2. \A v \in Users : grants[v].status /= "NONE" => grants'[v].status /= "NONE"
    BY <2>1 DEF Grant
  <2> QED BY <2>2, BoundAssumption DEF MarkFailed, RowsStay, GrantInv, LocalInv, TypeOK, JoinInv
<1>4. JoinOpen(r)' /\ AbortExplained(r)' /\ Reported(r)
  BY <1>2 DEF JoinOpen, AbortExplained, Reported
<1> QED BY <1>1, <1>3, <1>4, JoinFromStep

LEMMA CallJoins ==
  ASSUME GrantInv, JoinInv, NEW r \in Requests, NEW u \in Users, Accept(r, u) \/ Retry(r, u)
  PROVE  Joins(r)
<1>1. Good(r)
  BY CallGood DEF GrantInv
<1>2. ~joins'[r] /\ pc'[r] \in {"find", "load"}
  BY DEF Accept, Retry, Goto, GrantInv, LocalInv, TypeOK, JoinInv, JoinOpen, JoinSteps
<1>3. JoinOpen(r)' /\ AbortExplained(r)' /\ Reported(r)
  BY <1>2 DEF JoinOpen, AbortExplained, Reported
<1> QED BY <1>1, <1>3, CommittedStays, JoinFromStep DEF Accept, Retry

LEMMA RequestJoins ==
  ASSUME GrantInv, JoinInv, NEW r \in Requests,
         \/ \E u \in Users : Accept(r, u) \/ Retry(r, u)
         \/ Progress(r) \/ TimeOut(r) \/ Crash(r)
  PROVE  Joins(r)
<1>1. ASSUME NEW u \in Users,
             \/ InsertMembership(r, u) \/ CreatePending(r, u) \/ MarkRetrying(r, u)
             \/ Pay(r, u) \/ Commit(r, u) \/ MarkFailed(r, u) \/ Accept(r, u) \/ Retry(r, u)
             \/ WalletMissing(r, u) \/ GrantExists(r, u) \/ PayFails(r, u)
      PROVE Joins(r)
  BY <1>1, InsertJoins, WritesJoins, CommitJoins, MarkFailedJoins, CallJoins, FailuresJoins
<1>2. CASE Complete(r) \/ CommitAborted(r) \/ InsufficientFunds(r) \/ RefreshFails(r)
  BY <1>2, WritesJoins, CommitJoins, FailuresJoins
<1>3. ASSUME NEW u,
             \/ FindMembership(r, u) \/ AlreadyJoined(r, u) \/ BonusDisabled(r)
             \/ BonusEnabled(r) \/ LoadGrant(r, u) \/ RetriedElsewhere(r, u)
             \/ CheckBalance(r) \/ FindWallet(r, u) \/ CheckStatus(r, u)
             \/ Return(r) \/ TimeOut(r) \/ Crash(r)
      PROVE Joins(r)
  BY <1>3, MovesJoins
<1> QED BY <1>1, <1>2, <1>3 DEF Progress

LEMMA JoinStep ==
  ASSUME GrantInv, JoinInv, [Next]_vars
  PROVE  JoinInv' /\ \A r \in Requests : Reported(r)
<1>1. CASE IssuePoint \/ SetEnabled \/ (\E u \in Users : Leave(u)) \/ UNCHANGED vars
  <2>1. UNCHANGED <<pc, local, grants, clock>>
    BY <1>1 DEF IssuePoint, SetEnabled, Leave, vars, local
  <2> QED BY <2>1 DEF JoinInv, JoinOpen, AbortExplained, Reported, JoinSteps, Serves, local
<1>2. CASE \E r \in Requests : \/ \E u \in Users : Accept(r, u) \/ Retry(r, u)
                               \/ Progress(r) \/ TimeOut(r) \/ Crash(r)
  BY <1>2, RequestJoins DEF Joins
<1> QED BY <1>1, <1>2 DEF Next

LEMMA JoinAlways == Spec => []JoinInv
<1>1. Init => JoinInv
  BY BoundAssumption DEF Init, JoinInv, JoinOpen, AbortExplained
<1> QED BY <1>1, JoinStep, GrantInvAlways, PTL DEF Spec

\* Whatever fails in between, a call that inserted a membership and reports it has
\* committed it, unless the grant row of an earlier membership made the database
\* roll the transaction back.
THEOREM JoinLostNeedsGrantAlways == Spec => JoinLostNeedsGrant
<1> DEFINE Told ==
      \A r \in Requests, u \in Users :
        joins[r] /\ pc'[r] = "joined" /\ Serves(r, u) =>
          u \in members' \/ grants[u].status /= "NONE" \/ clock = MaxTx
<1>1. GrantInv /\ JoinInv /\ [Next]_vars => [Told]_vars
  BY JoinStep DEF Reported
<1> QED BY <1>1, GrantInvAlways, JoinAlways, PTL DEF Spec, JoinLostNeedsGrant
=============================================================================
