------------------------------ MODULE Membership ------------------------------
(***************************************************************************)
(* One user in one community: the row of t_memberships, unique for the     *)
(* pair, and the user's wallets there, which no constraint keeps to one.   *)
(*                                                                         *)
(* Every call is a transaction under READ COMMITTED.  It reads the         *)
(* membership, then creates, updates or deletes it by its key whatever it  *)
(* has become since, and from then on holds the row; it goes on with the   *)
(* wallet and commits.  What a call has not committed is in its hands.     *)
(*                                                                         *)
(* Calls under way are slots that are used again, so there is no bound on  *)
(* how many calls there are, only on how many overlap.                     *)
(*                                                                         *)
(* Abstracted: the history rows, the points (IncentiveGrant, PointLedger), *)
(* who is authorised to make a call.                                       *)
(***************************************************************************)
EXTENDS Naturals, FiniteSets

CONSTANTS
  Calls,   \* slots for transactions under way
  NoCall,  \* the holder of a row that nobody holds
  Wallets, \* bound: ids for rows of t_wallets; one that is free can be used
  NoRow    \* a membership that does not exist

ASSUME CallAssumption == NoCall \notin Calls

VARIABLES
  row,     \* the membership, as committed
  wallets, \* the user's wallets in the community, as committed
  holder,  \* the call that has written the row and not ended yet
  pc,      \* pc[c]: next step of call c
  call,    \* call[c]: what c does and has read
  made,    \* made[c]: the wallets c has inserted
  dropped, \* dropped[c]: the wallets c has deleted
  loose,   \* history: while the user has had wallets, one of them was made by a
           \* call that did not hold the row
  assigned,\* history: the role the row was created with or given last
  late,    \* history: calls whose row was written by another since they read it
  reverted \* history: the last to write the row was late, and kept the old role

vars == <<row, wallets, holder, pc, call, made, dropped,
          loose, assigned, late, reverted>>

-----------------------------------------------------------------------------
(* Rows *)

Roles == {"MEMBER", "OWNER"}  \* MANAGER is treated as OWNER is

\* The reason of a row that has been left: CANCELED or DECLINED_INVITATION.
Membership ==
  [status: {"PENDING"}, reason: {"INVITED"}, role: Roles]
  \cup [status: {"JOINED"}, reason: {"ACCEPTED_INVITATION", "ASSIGNED"}, role: Roles]
  \cup [status: {"LEFT"}, reason: {"CANCELED_INVITATION"}, role: Roles]
ASSUME RowAssumption == NoRow \notin Membership
Row(status, reason, role) == [status |-> status, reason |-> reason, role |-> role]

\* join: accepting an invitation, signing up, claiming a ticket, being granted
\* points.  reward: the points of an evaluation.  cancel: also denying an
\* invitation.  remove: also withdrawing.
Kinds == {"invite", "join", "reward", "cancel", "assign", "remove"}

\* role: the one the call is for or has read; found: it has read a row.
Call == [kind: Kinds, role: Roles, found: BOOLEAN]
NoCallYet == [kind |-> "reward", role |-> "MEMBER", found |-> FALSE]

Init ==
  /\ row = NoRow
  /\ wallets = {}
  /\ holder = NoCall
  /\ pc = [c \in Calls |-> "idle"]
  /\ call = [c \in Calls |-> NoCallYet]
  /\ made = [c \in Calls |-> {}]
  /\ dropped = [c \in Calls |-> {}]
  /\ loose = FALSE
  /\ assigned = "MEMBER"
  /\ late = {}
  /\ reverted = FALSE

history == <<loose, assigned, reverted>>

-----------------------------------------------------------------------------
(* The end of a transaction *)

End(c) ==
  /\ pc' = [pc EXCEPT ![c] = "idle"]
  /\ call' = [call EXCEPT ![c] = NoCallYet]
  /\ made' = [made EXCEPT ![c] = {}]
  /\ dropped' = [dropped EXCEPT ![c] = {}]

Rollback(c) ==
  /\ End(c)
  /\ holder' = IF holder = c THEN NoCall ELSE holder
  /\ late' = late \ {c}
  /\ UNCHANGED <<row, wallets, history>>

\* The transaction times out after 10 s, or a statement of it fails.
Abort(c) ==
  /\ pc[c] /= "idle"
  /\ Rollback(c)

-----------------------------------------------------------------------------
(* Reading the membership *)

Start(c, label, kind, role) ==
  /\ pc[c] = "idle"
  /\ pc' = [pc EXCEPT ![c] = label]
  /\ call' = [call EXCEPT ![c] = [kind |-> kind, role |-> role, found |-> row /= NoRow]]
  /\ UNCHANGED <<row, wallets, holder, made, dropped, late, history>>

\* inviteMember reads nothing: it relies on the key of the row.
Invite(c) == \E role \in Roles : Start(c, "write", "invite", role)

Joined(r) == r /= NoRow /\ r.status = "JOINED"

\* Faulty: the role that was read is not written back.
DefaultRole == "MEMBER"

\* A status is set with the role that was read; the default is MEMBER.
RoleRead == IF row = NoRow THEN "MEMBER" ELSE row.role

\* joinIfNeeded writes nothing for a member who has joined.
Join(c) == Start(c, IF Joined(row) THEN "wallet" ELSE "write", "join", RoleRead)

\* The reward of an evaluation asks for no membership.
Reward(c) == Start(c, "wallet", "reward", "MEMBER")

\* findMembershipOrThrow, deleteMembership
Change(c) ==
  /\ row /= NoRow
  /\ \/ Start(c, "write", "cancel", RoleRead)
     \/ Start(c, "write", "remove", "MEMBER")
     \/ \E role \in Roles : Start(c, "write", "assign", role)

-----------------------------------------------------------------------------
(* Writing the membership *)

Creates(c) == call[c].kind = "invite" \/ (call[c].kind = "join" /\ ~call[c].found)

\* An insert needs the key to be free, an update or delete a row with that key.
Fits(c) == IF Creates(c) THEN row = NoRow ELSE row /= NoRow

\* The statement waits for whoever holds the row.
WriteRow(c) ==
  /\ pc[c] = "write"
  /\ holder = NoCall
  /\ Fits(c)
  /\ holder' = c
  /\ pc' = [pc EXCEPT ![c] = IF call[c].kind \in {"join", "remove"}
                             THEN "wallet" ELSE "commit"]
  /\ UNCHANGED <<row, wallets, call, made, dropped, late, history>>

\* P2002 or P2025
RefuseWrite(c) ==
  /\ pc[c] = "write"
  /\ holder = NoCall
  /\ ~Fits(c)
  /\ Rollback(c)

-----------------------------------------------------------------------------
(* The wallet *)

Free == Wallets \ (wallets \cup UNION {made[d] : d \in Calls})

\* Faulty: a wallet for every join.
AlwaysCreate(c) ==
  /\ pc[c] = "wallet"
  /\ call[c].kind \in {"join", "reward"}
  /\ \E w \in Free : made' = [made EXCEPT ![c] = {w}]
  /\ pc' = [pc EXCEPT ![c] = "commit"]
  /\ UNCHANGED <<row, wallets, holder, call, dropped, late, history>>

\* Faulty: a wallet only where the join has created the membership.
CreateWalletIfNew(c) ==
  /\ pc[c] = "wallet"
  /\ call[c].kind \in {"join", "reward"}
  /\ IF wallets /= {} \/ (call[c].kind = "join" /\ call[c].found) THEN made' = made
     ELSE \E w \in Free : made' = [made EXCEPT ![c] = {w}]
  /\ pc' = [pc EXCEPT ![c] = "commit"]
  /\ UNCHANGED <<row, wallets, holder, call, dropped, late, history>>

CreateWalletIfNeeded(c) ==
  /\ pc[c] = "wallet"
  /\ call[c].kind \in {"join", "reward"}
  /\ IF wallets /= {} THEN made' = made
     ELSE \E w \in Free : made' = [made EXCEPT ![c] = {w}]
  /\ pc' = [pc EXCEPT ![c] = "commit"]
  /\ UNCHANGED <<row, wallets, holder, call, dropped, late, history>>

\* deleteMemberWallet: the first wallet of an unordered query.
DeleteWallet(c) ==
  /\ pc[c] = "wallet"
  /\ call[c].kind = "remove"
  /\ \E w \in wallets : dropped' = [dropped EXCEPT ![c] = {w}]
  /\ pc' = [pc EXCEPT ![c] = "commit"]
  /\ UNCHANGED <<row, wallets, holder, call, made, late, history>>

\* findMemberWalletOrThrow: the membership stays.
RefuseRemoval(c) ==
  /\ pc[c] = "wallet"
  /\ call[c].kind = "remove"
  /\ wallets = {}
  /\ Rollback(c)

-----------------------------------------------------------------------------
(* Committing *)

\* The row as its holder has written it.
Written(c) ==
  CASE call[c].kind = "invite" -> Row("PENDING", "INVITED", call[c].role)
    [] call[c].kind = "join" -> Row("JOINED", "ACCEPTED_INVITATION", call[c].role)
    [] call[c].kind = "cancel" -> Row("LEFT", "CANCELED_INVITATION", call[c].role)
    [] call[c].kind = "assign" -> Row("JOINED", "ASSIGNED", call[c].role)
    [] OTHER -> NoRow

\* The role of the row is the one c is for, not the one c has read.
GivesRole(c) == Creates(c) \/ call[c].kind = "assign"

CommitRow(c) ==
  /\ row' = Written(c)
  /\ holder' = NoCall
  /\ late' = (late \cup {d \in Calls : pc[d] = "write"}) \ {c}
  /\ IF GivesRole(c) THEN assigned' = call[c].role /\ reverted' = FALSE
     ELSE assigned' = assigned /\ reverted' = (reverted \/ c \in late)

\* $transaction commits once its callback has returned.
Commit(c) ==
  /\ pc[c] = "commit"
  /\ End(c)
  /\ wallets' = (wallets \ dropped[c]) \cup made[c]
  /\ loose' = (wallets' /= {} /\ (loose \/ (made[c] /= {} /\ holder /= c)))
  /\ IF holder = c THEN CommitRow(c)
     ELSE late' = late \ {c} /\ UNCHANGED <<row, holder, assigned, reverted>>

-----------------------------------------------------------------------------
Next ==
  \E c \in Calls :
    \/ Invite(c) \/ Join(c) \/ Reward(c) \/ Change(c)
    \/ WriteRow(c) \/ RefuseWrite(c)
    \/ CreateWalletIfNeeded(c) \/ DeleteWallet(c) \/ RefuseRemoval(c)
    \/ Commit(c) \/ Abort(c)

Spec == Init /\ [][Next]_vars

-----------------------------------------------------------------------------
(* Properties *)

\* Every variable stays within its type.
TypeOK ==
  /\ row \in Membership \cup {NoRow}
  /\ wallets \subseteq Wallets
  /\ holder \in Calls \cup {NoCall}
  /\ pc \in [Calls -> {"idle", "write", "wallet", "commit"}]
  /\ call \in [Calls -> Call]
  /\ made \in [Calls -> SUBSET Wallets] /\ dropped \in [Calls -> SUBSET Wallets]
  /\ loose \in BOOLEAN /\ reverted \in BOOLEAN
  /\ assigned \in Roles
  /\ late \subseteq Calls

\* Whoever is a member because of an invitation that was accepted, a signup, a
\* ticket or a grant has a wallet, in which the points of these can be: the
\* wallet a join finds is not taken away by a removal that overlaps with it.
AcceptedHasWallet == Joined(row) /\ row.reason = "ACCEPTED_INVITATION" => wallets /= {}

\* Two wallets of one member, of which every payment uses an arbitrary one, are
\* the work of a call that did not hold the membership while it looked for a
\* wallet: a reward, or a join of somebody who was a member already.
OneWallet == ~loose => Cardinality(wallets) =< 1

\* Only such a call leaves a wallet, with what is in it, to somebody who has left
\* or was never a member: a removal takes the wallet, an invitation gives none.
NoStrayWallet == ~loose /\ (row = NoRow \/ row.status = "PENDING") => wallets = {}

\* Both: the wallet comes and goes with the membership, for all calls that hold it.
WalletFollowsMembership == OneWallet /\ NoStrayWallet

\* A member has the role an owner last gave, unless a call that read the
\* membership before that wrote it afterwards, with the role it had read.
RoleIsAssigned == row /= NoRow /\ ~reverted => row.role = assigned
=============================================================================
