--------------------------- MODULE MembershipProofs ---------------------------
(***************************************************************************)
(* Theorems about Membership, for every set of calls that overlap and      *)
(* every set of wallets, and about SignUp, for any communities, users and  *)
(* requests.                                                               *)
(***************************************************************************)
EXTENDS Membership, SignUp, FiniteSetTheorems, TLAPS

-----------------------------------------------------------------------------
(* Membership: the invariants                                              *)

\* The call has written the row, which it reads from now on as it was.
Holds(c) == holder = c

\* The row is NoRow, or not, as it was when the call read it.
Sees(c) == Creates(c) <=> row = NoRow

\* What a call has in hand, by the step it is at.
Local(c) ==
  /\ pc[c] = "wallet" => call[c].kind \in {"join", "reward", "remove"}
  /\ pc[c] = "write" => call[c].kind /= "reward" /\ ~Holds(c)
  /\ pc[c] \in {"wallet", "commit"} /\ call[c].kind \notin {"join", "reward"} => Holds(c)
  /\ Holds(c) => pc[c] \in {"wallet", "commit"} /\ call[c].kind /= "reward" /\ Sees(c)
  /\ made[c] /= {} => pc[c] = "commit" /\ call[c].kind \in {"join", "reward"}
  /\ dropped[c] /= {} => pc[c] = "commit" /\ call[c].kind = "remove"

\* The invariant about the row, the wallets and who has them in hand.
LocalInv == TypeOK /\ \A c \in Calls : Local(c)

\* The one who removes or joins a member goes on from the wallets it has found.
WalletInHand(c) ==
  Holds(c) /\ pc[c] = "commit" =>
    /\ call[c].kind = "join" => wallets /= {} \/ made[c] /= {}
    /\ call[c].kind = "remove" => dropped[c] /= {} /\ dropped[c] \subseteq wallets
    /\ made[c] /= {} /\ ~loose => wallets = {}

AtMostOne(set) == \A v, w \in set : v = w

WalletInv ==
  /\ \A c \in Calls : WalletInHand(c) /\ AtMostOne(made[c])
  /\ ~loose => AtMostOne(wallets)
  /\ AcceptedHasWallet /\ NoStrayWallet

\* A call that is not late has read the role the row has.
RoleRelied(c) ==
  /\ call[c].kind = "cancel" \/ (call[c].kind = "join" /\ call[c].found)
  /\ pc[c] = "write" \/ Holds(c)
  /\ c \notin late

RoleInv ==
  /\ RoleIsAssigned
  /\ \A c \in Calls : RoleRelied(c) => row /= NoRow /\ row.role = call[c].role

-----------------------------------------------------------------------------
(* Types, and what a call has in hand *)

\* Calls other than c keep what they have, and so does the row if one of them
\* holds it.
Alone(c) ==
  /\ \A d \in Calls \ {c} : /\ pc'[d] = pc[d] /\ call'[d] = call[d]
                           /\ made'[d] = made[d] /\ dropped'[d] = dropped[d]
  /\ holder' = holder \/ (holder \in {c, NoCall} /\ holder' \in {c, NoCall})
  /\ row' = row \/ holder = c

LEMMA OthersLocal ==
  ASSUME NEW c \in Calls, Alone(c), NEW d \in Calls \ {c}, Local(d)
  PROVE  Local(d)'
<1>1. Holds(d)' <=> Holds(d)
  BY CallAssumption DEF Alone, Holds
<1>2. Holds(d) => row' = row
  BY DEF Alone, Holds
<1> QED BY <1>1, <1>2 DEF Alone, Local, Sees, Creates

LEMMA WrittenType ==
  ASSUME NEW c \in Calls, call[c] \in Call
  PROVE  Written(c) \in Membership \cup {NoRow}
  BY DEF Written, Row, Membership, Call, Kinds

LEMMA RoleReadType ==
  ASSUME row \in Membership \cup {NoRow}
  PROVE  RoleRead \in Roles
  BY DEF RoleRead, Membership, Roles

\* The end of a transaction that has changed nothing
LEMMA RollbackLocal ==
  ASSUME LocalInv, NEW c \in Calls, Rollback(c)
  PROVE  TypeOK' /\ Alone(c) /\ Local(c)'
<1>1. TypeOK'
  BY DEF LocalInv, TypeOK, Rollback, End, NoCallYet, Call, Kinds, Roles, history
<1>2. Alone(c)
  BY DEF LocalInv, TypeOK, Rollback, End, Alone
<1>3. Local(c)'
  BY CallAssumption DEF LocalInv, TypeOK, Rollback, End, Local, Holds
<1> QED BY <1>1, <1>2, <1>3

LEMMA StartLocal ==
  ASSUME LocalInv, NEW c \in Calls, NEW label \in {"write", "wallet"}, NEW kind \in Kinds,
         NEW role \in Roles, Start(c, label, kind, role),
         label = "wallet" => kind \in {"join", "reward"}, label = "write" => kind /= "reward"
  PROVE  TypeOK' /\ Alone(c) /\ Local(c)'
<1>1. TypeOK'
  BY DEF LocalInv, TypeOK, Start, Call, history
<1>2. Alone(c)
  BY DEF LocalInv, TypeOK, Start, Alone
<1>3. ~Holds(c) /\ made[c] = {} /\ dropped[c] = {}
  BY DEF LocalInv, Local, Start
<1>4. Local(c)'
  BY <1>3 DEF LocalInv, TypeOK, Start, Local, Holds
<1> QED BY <1>1, <1>2, <1>4

LEMMA CommitLocal ==
  ASSUME LocalInv, NEW c \in Calls, Commit(c)
  PROVE  TypeOK' /\ Alone(c) /\ Local(c)'
<1>1. Written(c) \in Membership \cup {NoRow} /\ call[c].role \in Roles
  BY WrittenType DEF LocalInv, TypeOK, Call
<1>2. TypeOK'
  <2>1. row' \in Membership \cup {NoRow} /\ holder' \in Calls \cup {NoCall}
        /\ assigned' \in Roles /\ reverted' \in BOOLEAN /\ late' \subseteq Calls
    BY <1>1 DEF LocalInv, TypeOK, Commit, CommitRow
  <2>2. pc' \in [Calls -> {"idle", "write", "wallet", "commit"}] /\ call' \in [Calls -> Call]
        /\ made' \in [Calls -> SUBSET Wallets] /\ dropped' \in [Calls -> SUBSET Wallets]
    BY DEF LocalInv, TypeOK, Commit, End, NoCallYet, Call, Kinds, Roles
  <2>3. wallets' \subseteq Wallets /\ loose' \in BOOLEAN
    BY DEF LocalInv, TypeOK, Commit
  <2> QED BY <2>1, <2>2, <2>3 DEF TypeOK
<1>3. Alone(c)
  BY DEF LocalInv, TypeOK, Commit, CommitRow, End, Alone
<1>4. ~Holds(c)'
  BY CallAssumption DEF Commit, CommitRow, Holds
<1>5. Local(c)'
  BY <1>4 DEF LocalInv, TypeOK, Commit, End, Local
<1> QED BY <1>2, <1>3, <1>5

LEMMA LocalStep == LocalInv /\ [Next]_vars => LocalInv'
<1> SUFFICES ASSUME LocalInv, [Next]_vars PROVE LocalInv'
  OBVIOUS
<1>1. CASE UNCHANGED vars
  BY <1>1 DEF LocalInv, TypeOK, Local, Holds, Sees, Creates, vars
<1>2. CASE Next
  <2>1. PICK c \in Calls :
          \/ Invite(c) \/ Join(c) \/ Reward(c) \/ Change(c)
          \/ WriteRow(c) \/ RefuseWrite(c)
          \/ CreateWalletIfNeeded(c) \/ DeleteWallet(c) \/ RefuseRemoval(c)
          \/ Commit(c) \/ Abort(c)
    BY <1>2 DEF Next
  <2>2. SUFFICES TypeOK' /\ Alone(c) /\ Local(c)'
    BY OthersLocal DEF LocalInv
  <2>3. RoleRead \in Roles /\ "MEMBER" \in Roles
    BY RoleReadType DEF LocalInv, TypeOK, Roles
  <2>4. CASE Invite(c)
    BY <2>4, StartLocal DEF Invite, Kinds
  <2>5. CASE Join(c)
    BY <2>3, <2>5, StartLocal DEF Join, Kinds
  <2>6. CASE Reward(c)
    BY <2>3, <2>6, StartLocal DEF Reward, Kinds
  <2>7. CASE Change(c)
    BY <2>3, <2>7, StartLocal DEF Change, Kinds
  <2>8. CASE WriteRow(c)
    <3>1. TypeOK' /\ Alone(c)
      BY <2>8 DEF LocalInv, TypeOK, WriteRow, Alone, history
    <3>2. Sees(c)' /\ call[c].kind \in Kinds
      BY <2>8 DEF LocalInv, TypeOK, Call, WriteRow, Fits, Sees, Creates
    <3>3. made[c] = {} /\ dropped[c] = {} /\ call[c].kind /= "reward"
      BY <2>8 DEF LocalInv, Local, WriteRow
    <3>4. Local(c)'
      BY <2>8, <3>2, <3>3 DEF LocalInv, TypeOK, Local, WriteRow, Holds, Kinds
    <3> QED BY <3>1, <3>4
  <2>9. CASE RefuseWrite(c) \/ RefuseRemoval(c) \/ Abort(c)
    BY <2>9, RollbackLocal DEF RefuseWrite, RefuseRemoval, Abort
  <2>10. CASE CreateWalletIfNeeded(c)
    <3>1. TypeOK' /\ Alone(c)
      BY <2>10 DEF LocalInv, TypeOK, CreateWalletIfNeeded, Alone, history, Free
    <3>2. dropped[c] = {} /\ Local(c)
      BY <2>10 DEF LocalInv, Local, CreateWalletIfNeeded
    <3>3. Local(c)'
      BY <2>10, <3>2 DEF LocalInv, TypeOK, Local, CreateWalletIfNeeded, Holds, Sees, Creates
    <3> QED BY <3>1, <3>3
  <2>11. CASE DeleteWallet(c)
    <3>1. TypeOK' /\ Alone(c)
      BY <2>11 DEF LocalInv, TypeOK, DeleteWallet, Alone, history
    <3>2. made[c] = {} /\ Local(c)
      BY <2>11 DEF LocalInv, Local, DeleteWallet
    <3>3. Local(c)'
      BY <2>11, <3>2 DEF LocalInv, TypeOK, Local, DeleteWallet, Holds, Sees, Creates
    <3> QED BY <3>1, <3>3
  <2>12. CASE Commit(c)
    BY <2>12, CommitLocal
  <2> QED BY <2>1, <2>4, <2>5, <2>6, <2>7, <2>8, <2>9, <2>10, <2>11, <2>12
<1> QED BY <1>1, <1>2

LEMMA LocalInit == Init => LocalInv
<1> SUFFICES ASSUME Init PROVE LocalInv
  OBVIOUS
<1>1. TypeOK
  <2>1. NoCallYet \in Call /\ "MEMBER" \in Roles
    BY DEF NoCallYet, Call, Kinds, Roles
  <2> QED BY <2>1 DEF Init, TypeOK
<1>2. ASSUME NEW c \in Calls PROVE Local(c)
  BY CallAssumption DEF Init, Local, Holds
<1> QED BY <1>1, <1>2 DEF LocalInv

\* Every variable stays within its type, whatever calls overlap.
THEOREM TypeOKAlways == Spec => []TypeOK
<1>1. LocalInv => TypeOK
  BY DEF LocalInv
<1> QED BY LocalInit, LocalStep, <1>1, PTL DEF Spec

LEMMA LocalAlways == Spec => []LocalInv
  BY LocalInit, LocalStep, PTL DEF Spec

-----------------------------------------------------------------------------
(* Wallets *)

LEMMA WalletsOfCommit ==
  ASSUME LocalInv, WalletInv, NEW c \in Calls, Commit(c)
  PROVE  WalletInv'
<1>1. wallets' = (wallets \ dropped[c]) \cup made[c]
      /\ (loose' <=> wallets' /= {} /\ (loose \/ (made[c] /= {} /\ ~Holds(c))))
  BY DEF Commit, Holds
<1>2. pc[c] = "commit" /\ Local(c) /\ call[c].kind \in Kinds
  BY DEF LocalInv, TypeOK, Commit, Call
<1>3. Holds(c) => row' = Written(c) /\ holder' = NoCall
  BY DEF Commit, CommitRow, Holds
<1>4. ~Holds(c) => row' = row /\ holder' = holder /\ dropped[c] = {}
  BY <1>2 DEF Commit, Holds, Local
<1>5. made'[c] = {} /\ ~Holds(c)'
  BY <1>3, <1>4, CallAssumption DEF LocalInv, TypeOK, Commit, End, Holds
<1>6. WalletInHand(c)' /\ AtMostOne(made[c])'
  BY <1>5 DEF WalletInHand, AtMostOne
<1>7. ASSUME NEW d \in Calls \ {c} PROVE WalletInHand(d)' /\ AtMostOne(made[d])'
  <2>1. pc'[d] = pc[d] /\ call'[d] = call[d] /\ made'[d] = made[d] /\ dropped'[d] = dropped[d]
    BY DEF LocalInv, TypeOK, Commit, End
  <2>2. Holds(d)' => Holds(d) /\ dropped[c] = {} /\ ~Holds(c)
    BY <1>3, <1>4, CallAssumption DEF Holds
  <2>3. Holds(d)' /\ ~loose' => wallets' = {} \/ (~loose /\ wallets' = wallets)
    BY <1>1, <2>2
  <2>4. WalletInHand(d) /\ AtMostOne(made[d])
    BY DEF WalletInv
  <2>5. Holds(d)' => wallets \subseteq wallets'
    BY <1>1, <2>2
  <2>6. WalletInHand(d)'
    BY <2>1, <2>2, <2>3, <2>4, <2>5 DEF WalletInHand
  <2> QED BY <2>1, <2>4, <2>6 DEF AtMostOne
<1>8. ~loose' => wallets' = {} \/ (~loose /\ (made[c] = {} \/ (Holds(c) /\ wallets = {})))
  BY <1>1, <1>2 DEF WalletInv, WalletInHand
<1>9. ~loose' => AtMostOne(wallets)'
  BY <1>1, <1>8 DEF WalletInv, AtMostOne
<1>10. AcceptedHasWallet'
  <2>1. CASE Holds(c)
    <3>1. Joined(row') /\ row'.reason = "ACCEPTED_INVITATION" => call[c].kind = "join"
      BY <1>2, <1>3, <2>1 DEF Joined, Written, Row, Kinds
    <3>2. call[c].kind = "join" => wallets' /= {}
      BY <1>1, <1>2, <2>1 DEF WalletInv, WalletInHand, Local
    <3> QED BY <3>1, <3>2 DEF AcceptedHasWallet
  <2>2. CASE ~Holds(c)
    BY <1>1, <1>4, <2>2 DEF WalletInv, AcceptedHasWallet, Joined
  <2> QED BY <2>1, <2>2
<1>11. NoStrayWallet'
  <2> SUFFICES ASSUME ~loose', row' = NoRow \/ row'.status = "PENDING", wallets' /= {}
               PROVE  FALSE
    BY DEF NoStrayWallet
  <2>1. CASE Holds(c)
    <3>1. call[c].kind \in {"invite", "remove"}
      <4>1. call[c].kind \in {"join", "cancel", "assign"} =>
              Written(c) \in Membership /\ Written(c).status /= "PENDING"
        BY DEF LocalInv, TypeOK, Written, Row, Membership, Call
      <4>2. call[c].kind /= "reward"
        BY <1>2, <2>1 DEF Local
      <4> QED BY <1>2, <1>3, <2>1, <4>1, <4>2, RowAssumption DEF Kinds
    <3>2. made[c] = {} /\ ~loose
      BY <1>2, <1>8, <3>1 DEF Local
    <3>3. CASE call[c].kind = "invite"
      <4>1. row = NoRow /\ wallets = {}
        BY <1>2, <2>1, <3>2, <3>3 DEF Local, Sees, Creates, WalletInv, NoStrayWallet
      <4> QED BY <1>1, <3>2, <4>1
    <3>4. CASE call[c].kind = "remove"
      <4>1. dropped[c] /= {} /\ dropped[c] \subseteq wallets /\ AtMostOne(wallets)
        BY <1>2, <2>1, <3>2, <3>4 DEF WalletInv, WalletInHand
      <4> QED BY <1>1, <3>2, <4>1 DEF AtMostOne
    <3> QED BY <3>1, <3>3, <3>4
  <2>2. CASE ~Holds(c)
    <3>1. ~loose /\ made[c] = {} /\ wallets' = wallets /\ row' = row
      BY <1>1, <1>4, <1>8, <2>2
    <3> QED BY <3>1 DEF WalletInv, NoStrayWallet
  <2> QED BY <2>1, <2>2
<1> QED BY <1>6, <1>7, <1>9, <1>10, <1>11 DEF WalletInv

\* Until it commits, a call changes no wallets that others see.
LEMMA WalletsOfOthers ==
  ASSUME LocalInv, WalletInv, NEW c \in Calls, Alone(c), UNCHANGED <<row, wallets, loose>>,
         WalletInHand(c)', AtMostOne(made'[c])
  PROVE  WalletInv'
<1>1. ASSUME NEW d \in Calls \ {c} PROVE WalletInHand(d)' /\ AtMostOne(made'[d])
  <2>1. Holds(d)' => Holds(d)
    BY CallAssumption DEF Alone, Holds
  <2> QED BY <2>1 DEF Alone, WalletInv, WalletInHand
<1>2. AcceptedHasWallet' /\ NoStrayWallet' /\ (~loose' => AtMostOne(wallets'))
  BY DEF WalletInv, AcceptedHasWallet, NoStrayWallet, Joined
<1> QED BY <1>1, <1>2 DEF WalletInv, AtMostOne

LEMMA WalletStep == LocalInv /\ WalletInv /\ [Next]_vars => WalletInv'
<1> SUFFICES ASSUME LocalInv, WalletInv, [Next]_vars PROVE WalletInv'
  OBVIOUS
<1>1. CASE UNCHANGED vars
  BY <1>1 DEF WalletInv, WalletInHand, Holds, AtMostOne, AcceptedHasWallet, NoStrayWallet,
              Joined, vars
<1>2. CASE Next
  <2>1. PICK c \in Calls :
          \/ Invite(c) \/ Join(c) \/ Reward(c) \/ Change(c)
          \/ WriteRow(c) \/ RefuseWrite(c)
          \/ CreateWalletIfNeeded(c) \/ DeleteWallet(c) \/ RefuseRemoval(c)
          \/ Commit(c) \/ Abort(c)
    BY <1>2 DEF Next
  <2> DEFINE Hidden == Alone(c) /\ UNCHANGED <<row, wallets, loose>>
                       /\ WalletInHand(c)' /\ AtMostOne(made'[c])
  <2>2. Hidden => WalletInv'
    BY WalletsOfOthers
  <2>3. Local(c) /\ AtMostOne(made[c]) /\ call[c].kind \in Kinds
    BY DEF LocalInv, TypeOK, Call, WalletInv
  <2>4. CASE Invite(c) \/ Join(c) \/ Reward(c) \/ Change(c)
    <3>1. PICK label, kind, role :
                label \in {"write", "wallet"} /\ kind \in Kinds /\ Start(c, label, kind, role)
      BY <2>4 DEF Invite, Join, Reward, Change, Kinds
    <3>2. Alone(c) /\ UNCHANGED <<row, wallets, loose>> /\ pc'[c] /= "commit"
          /\ made'[c] = made[c]
      BY <3>1 DEF LocalInv, TypeOK, Start, Alone, history
    <3> QED BY <2>2, <2>3, <3>2 DEF WalletInHand
  <2>5. CASE WriteRow(c)
    <3>1. Alone(c) /\ UNCHANGED <<row, wallets, loose>> /\ made'[c] = made[c]
      BY <2>5 DEF LocalInv, TypeOK, WriteRow, Alone, history
    <3>2. made[c] = {} /\ (pc'[c] = "commit" => call'[c].kind \notin {"join", "remove"})
      BY <2>3, <2>5 DEF LocalInv, TypeOK, WriteRow, Local
    <3> QED BY <2>2, <2>3, <3>1, <3>2 DEF WalletInHand
  <2>6. CASE RefuseWrite(c) \/ RefuseRemoval(c) \/ Abort(c)
    <3>1. Rollback(c)
      BY <2>6 DEF RefuseWrite, RefuseRemoval, Abort
    <3>2. Alone(c) /\ UNCHANGED <<row, wallets, loose>> /\ made'[c] = {} /\ pc'[c] = "idle"
      BY <3>1 DEF LocalInv, TypeOK, Rollback, End, Alone, history
    <3> QED BY <2>2, <3>2 DEF WalletInHand, AtMostOne
  <2>7. CASE CreateWalletIfNeeded(c)
    <3>1. Alone(c) /\ UNCHANGED <<row, wallets, loose>> /\ call'[c] = call[c]
      BY <2>7 DEF LocalInv, TypeOK, CreateWalletIfNeeded, Alone, history
    <3>2. (made'[c] = {} /\ wallets /= {}) \/ (wallets = {} /\ \E w : made'[c] = {w})
      <4>1. made \in [Calls -> SUBSET Wallets] /\ made[c] = {}
        BY <2>3, <2>7 DEF LocalInv, TypeOK, CreateWalletIfNeeded, Local
      <4>2. CASE wallets /= {}
        BY <2>7, <4>1, <4>2 DEF CreateWalletIfNeeded
      <4>3. CASE wallets = {}
        BY <2>7, <4>1, <4>3 DEF CreateWalletIfNeeded
      <4> QED BY <4>2, <4>3
    <3>3. call[c].kind /= "remove"
      BY <2>7 DEF CreateWalletIfNeeded
    <3> QED BY <2>2, <3>1, <3>2, <3>3 DEF WalletInHand, AtMostOne
  <2>8. CASE DeleteWallet(c)
    <3>1. Alone(c) /\ UNCHANGED <<row, wallets, loose>> /\ call'[c] = call[c]
          /\ made'[c] = made[c]
      BY <2>8 DEF LocalInv, TypeOK, DeleteWallet, Alone, history
    <3>2. made[c] = {} /\ call[c].kind = "remove"
      BY <2>3, <2>8 DEF DeleteWallet, Local
    <3>3. dropped'[c] /= {} /\ dropped'[c] \subseteq wallets
      BY <2>8 DEF LocalInv, TypeOK, DeleteWallet
    <3> QED BY <2>2, <2>3, <3>1, <3>2, <3>3 DEF WalletInHand
  <2>9. CASE Commit(c)
    BY <2>9, WalletsOfCommit
  <2> QED BY <2>1, <2>4, <2>5, <2>6, <2>7, <2>8, <2>9
<1> QED BY <1>1, <1>2

LEMMA WalletAlways == Spec => []WalletInv
<1>1. Init => WalletInv
  BY DEF Init, WalletInv, WalletInHand, AtMostOne, AcceptedHasWallet, NoStrayWallet, Joined
<1> QED BY <1>1, LocalAlways, WalletStep, PTL DEF Spec

\* Whoever has joined by accepting, by signing up, or with a ticket or a grant has
\* a wallet (joinIfNeeded, createMemberWalletIfNeeded, deleteMemberWallet).
THEOREM AcceptedHasWalletAlways == Spec => []AcceptedHasWallet
<1>1. WalletInv => AcceptedHasWallet
  BY DEF WalletInv
<1> QED BY <1>1, WalletAlways, PTL

\* Only calls that do not hold the membership give a member a second wallet.
THEOREM OneWalletAlways == Spec => []OneWallet
<1>1. ASSUME WalletInv PROVE OneWallet
  <2> SUFFICES ASSUME AtMostOne(wallets) PROVE Cardinality(wallets) =< 1
    BY <1>1 DEF WalletInv, OneWallet
  <2>1. CASE wallets = {}
    BY <2>1, FS_EmptySet
  <2>2. CASE \E w \in wallets : TRUE
    <3>1. PICK w : wallets = {w}
      BY <2>2 DEF AtMostOne
    <3>2. Cardinality(wallets) = 1
      BY <3>1, FS_Singleton
    <3> QED BY <3>2
  <2> QED BY <2>1, <2>2
<1> QED BY <1>1, WalletAlways, PTL

\* Only such calls leave a wallet to somebody who is no member.
THEOREM NoStrayWalletAlways == Spec => []NoStrayWallet
<1>1. WalletInv => NoStrayWallet
  BY DEF WalletInv
<1> QED BY <1>1, WalletAlways, PTL

-----------------------------------------------------------------------------
(* Roles *)

\* Until it commits, a call changes no row and makes nobody late.
LEMMA RolesOfOthers ==
  ASSUME LocalInv, RoleInv, NEW c \in Calls, Alone(c), UNCHANGED <<row, assigned, reverted>>,
         late \ {c} \subseteq late',
         RoleRelied(c)' => row /= NoRow /\ row.role = call'[c].role
  PROVE  RoleInv'
<1>1. ASSUME NEW d \in Calls \ {c}, RoleRelied(d)'
      PROVE  row' /= NoRow /\ row'.role = call'[d].role
  <2>1. Holds(d)' => Holds(d)
    BY CallAssumption DEF Alone, Holds
  <2>2. RoleRelied(d) /\ call'[d] = call[d]
    BY <1>1, <2>1 DEF Alone, RoleRelied
  <2> QED BY <2>2 DEF RoleInv
<1>2. RoleIsAssigned'
  BY DEF RoleInv, RoleIsAssigned
<1> QED BY <1>1, <1>2 DEF RoleInv

LEMMA RolesOfCommit ==
  ASSUME LocalInv, RoleInv, NEW c \in Calls, Commit(c)
  PROVE  RoleInv'
<1>1. pc'[c] = "idle" /\ ~Holds(c)'
  BY CallAssumption DEF LocalInv, TypeOK, Commit, CommitRow, End, Holds
<1>2. ~RoleRelied(c)'
  BY <1>1 DEF RoleRelied
<1>3. CASE ~Holds(c)
  <2>1. UNCHANGED <<row, assigned, reverted>> /\ late' = late \ {c}
    BY <1>3 DEF Commit, Holds
  <2> QED BY <1>2, <2>1, CommitLocal, RolesOfOthers
<1>4. CASE Holds(c)
  <2>1. CommitRow(c) /\ Local(c) /\ call[c].kind \in Kinds /\ call[c].role \in Roles
    BY <1>4 DEF LocalInv, TypeOK, Commit, Holds, Call
  <2>2. ASSUME NEW d \in Calls \ {c} PROVE ~RoleRelied(d)'
    <3>1. ~Holds(d)' /\ pc'[d] = pc[d] /\ (pc[d] = "write" => d \in late')
      BY <2>1, CallAssumption DEF LocalInv, TypeOK, CommitRow, Commit, End, Holds
    <3> QED BY <3>1 DEF RoleRelied
  <2>3. RoleIsAssigned'
    <3>1. row' /= NoRow => row'.role = call[c].role
      BY <2>1 DEF CommitRow, Written, Row
    <3>2. CASE GivesRole(c)
      BY <2>1, <3>1, <3>2 DEF CommitRow, RoleIsAssigned
    <3>3. CASE ~GivesRole(c)
      <4> SUFFICES ASSUME row' /= NoRow, ~reverted' PROVE row'.role = assigned'
        BY DEF RoleIsAssigned
      <4>1. ~reverted /\ c \notin late /\ assigned' = assigned
        BY <2>1, <3>3 DEF CommitRow
      <4>2. call[c].kind /= "remove" /\ call[c].kind /= "reward"
        BY <2>1 DEF CommitRow, Written
      <4>3. RoleRelied(c)
        BY <1>4, <2>1, <3>3, <4>1, <4>2 DEF GivesRole, Creates, RoleRelied, Kinds,
                                            LocalInv, TypeOK, Call
      <4>4. row /= NoRow /\ row.role = call[c].role /\ row.role = assigned
        BY <4>1, <4>3 DEF RoleInv, RoleIsAssigned
      <4> QED BY <3>1, <4>1, <4>4
    <3> QED BY <3>2, <3>3
  <2> QED BY <1>2, <2>2, <2>3 DEF RoleInv
<1> QED BY <1>3, <1>4

LEMMA RoleStep == LocalInv /\ RoleInv /\ [Next]_vars => RoleInv'
<1> SUFFICES ASSUME LocalInv, RoleInv, [Next]_vars PROVE RoleInv'
  OBVIOUS
<1>1. CASE UNCHANGED vars
  BY <1>1 DEF RoleInv, RoleRelied, RoleIsAssigned, Holds, vars
<1>2. CASE Next
  <2>1. PICK c \in Calls :
          \/ Invite(c) \/ Join(c) \/ Reward(c) \/ Change(c)
          \/ WriteRow(c) \/ RefuseWrite(c)
          \/ CreateWalletIfNeeded(c) \/ DeleteWallet(c) \/ RefuseRemoval(c)
          \/ Commit(c) \/ Abort(c)
    BY <1>2 DEF Next
  <2> DEFINE Hidden == /\ Alone(c) /\ UNCHANGED <<row, assigned, reverted>>
                       /\ late \ {c} \subseteq late'
                       /\ RoleRelied(c)' => row /= NoRow /\ row.role = call'[c].role
  <2>2. Hidden => RoleInv'
    BY RolesOfOthers
  <2>3. Local(c)
    BY DEF LocalInv
  <2>4. CASE Invite(c) \/ Join(c) \/ Reward(c) \/ Change(c)
    <3>1. PICK label, kind, role :
            /\ Start(c, label, kind, role)
            /\ kind = "join" => role = RoleRead
            /\ kind = "cancel" => row /= NoRow /\ role = RoleRead
      BY <2>4 DEF Invite, Join, Reward, Change, Kinds
    <3>2. Alone(c) /\ UNCHANGED <<row, assigned, reverted, late, holder>>
          /\ call'[c] = [kind |-> kind, role |-> role, found |-> row /= NoRow]
      BY <3>1 DEF LocalInv, TypeOK, Start, Alone, history
    <3>3. RoleRelied(c)' => row /= NoRow /\ row.role = call'[c].role
      <4>1. call'[c].kind = kind /\ call'[c].role = role /\ (call'[c].found <=> row /= NoRow)
        <5>1. CASE row = NoRow
          <6>1. call'[c] = [kind |-> kind, role |-> role, found |-> FALSE]
            BY <3>2, <5>1
          <6> QED BY <5>1, <6>1
        <5>2. CASE row /= NoRow
          <6>1. call'[c] = [kind |-> kind, role |-> role, found |-> TRUE]
            BY <3>2, <5>2
          <6> QED BY <5>2, <6>1
        <5> QED BY <5>1, <5>2
      <4>2. row /= NoRow => RoleRead = row.role
        BY DEF RoleRead
      <4>3. RoleRelied(c)' => kind = "cancel" \/ (kind = "join" /\ row /= NoRow)
        BY <4>1 DEF RoleRelied
      <4> QED BY <3>1, <4>1, <4>2, <4>3
    <3> QED BY <2>2, <3>2, <3>3
  <2>5. CASE WriteRow(c)
    <3>1. Alone(c) /\ UNCHANGED <<row, assigned, reverted, late>> /\ call'[c] = call[c]
          /\ pc[c] = "write"
      BY <2>5 DEF LocalInv, TypeOK, WriteRow, Alone, history
    <3>2. RoleRelied(c)' => RoleRelied(c)
      BY <3>1 DEF RoleRelied
    <3> QED BY <2>2, <3>1, <3>2 DEF RoleInv
  <2>6. CASE RefuseWrite(c) \/ RefuseRemoval(c) \/ Abort(c)
    <3>1. Rollback(c)
      BY <2>6 DEF RefuseWrite, RefuseRemoval, Abort
    <3>2. Alone(c) /\ UNCHANGED <<row, assigned, reverted>> /\ late' = late \ {c}
          /\ pc'[c] = "idle" /\ ~Holds(c)'
      BY <3>1, CallAssumption DEF LocalInv, TypeOK, Rollback, End, Alone, history, Holds
    <3> QED BY <2>2, <3>2 DEF RoleRelied
  <2>7. CASE CreateWalletIfNeeded(c) \/ DeleteWallet(c)
    <3>1. Alone(c) /\ UNCHANGED <<row, assigned, reverted, late, holder>> /\ call'[c] = call[c]
          /\ pc'[c] = "commit"
      BY <2>7 DEF LocalInv, TypeOK, CreateWalletIfNeeded, DeleteWallet, Alone, history
    <3>2. RoleRelied(c)' => RoleRelied(c)
      BY <3>1 DEF RoleRelied, Holds
    <3> QED BY <2>2, <3>1, <3>2 DEF RoleInv
  <2>8. CASE Commit(c)
    BY <2>8, RolesOfCommit
  <2> QED BY <2>1, <2>4, <2>5, <2>6, <2>7, <2>8
<1> QED BY <1>1, <1>2

\* A member has the role an owner last gave, unless a change of status wrote back
\* one it had read before (setStatus, setRole).
THEOREM RoleIsAssignedAlways == Spec => []RoleIsAssigned
<1>1. Init => RoleInv
  BY CallAssumption DEF Init, RoleInv, RoleRelied, RoleIsAssigned, Holds, NoCallYet
<1>2. RoleInv => RoleIsAssigned
  BY DEF RoleInv
<1> QED BY <1>1, <1>2, LocalAlways, RoleStep, PTL DEF Spec

\* Hence the wallet comes and goes with the membership.
THEOREM WalletFollowsMembershipAlways == Spec => []WalletFollowsMembership
<1>1. OneWallet /\ NoStrayWallet => WalletFollowsMembership
  BY DEF WalletFollowsMembership
<1> QED BY <1>1, OneWalletAlways, NoStrayWalletAlways, PTL

-----------------------------------------------------------------------------
(* Signing up                                                              *)
(*                                                                         *)
(* What a request has seen of the phone ages: between its look and its     *)
(* insert another may insert the row.  Seen says that a request which is   *)
(* about to insert it and has not been overtaken still has the table as it *)
(* saw it, without the phone.  From it follows that the phone has at most  *)
(* one user, and, as long as nobody signs up without a phone, that all     *)
(* users have it: there is at most one user.                               *)

\* Whoever links has the phone in hand.
PhoneKept == \A c \in Requests : at[c] \in {"look", "link"} => kept[c].phone

Seen ==
  \A c \in Requests :
    at[c] \in {"link", "create"} /\ kept[c].phone => c \in overtaken \/ phone = {}

PhoneInv == ~raced => AtMostOne(phone)
UserInv == ~phoneless => users \subseteq phone

SignUpLocal == SignUpTypeOK /\ PhoneKept
SeenInv == Seen /\ PhoneInv

-----------------------------------------------------------------------------
(* Sets of at most one element *)

\* A set whose elements are all the same has at most one.
LEMMA AtMostOneCardinality ==
  ASSUME NEW S, AtMostOne(S)
  PROVE  Cardinality(S) =< 1
<1>1. CASE S = {}
  BY <1>1, FS_EmptySet
<1>2. CASE S /= {}
  <2>1. PICK x \in S : TRUE
    BY <1>2
  <2>2. S = {x}
    BY <2>1 DEF AtMostOne
  <2>3. Cardinality({x}) = 1
    BY FS_Singleton
  <2>4. QED
    BY <2>2, <2>3
<1>3. QED
  BY <1>1, <1>2

-----------------------------------------------------------------------------
(* Types, and what a call keeps *)

\* Moving a call to a label with a request keeps at and kept in their types.
LEMMA StepTypes ==
  ASSUME SignUpTypeOK, NEW c \in Requests,
         NEW label \in {"idle", "line", "look", "link", "login", "add", "enrol", "create"},
         NEW request \in Kept,
         Step(c, label, request)
  PROVE  /\ at' \in [Requests -> {"idle", "line", "look", "link", "login", "add", "enrol", "create"}]
         /\ kept' \in [Requests -> Kept]
         /\ at'[c] = label /\ kept'[c] = request
         /\ \A d \in Requests : d /= c => at'[d] = at[d] /\ kept'[d] = kept[d]
BY DEF SignUpTypeOK, Step

\* A request has what it was given.
LEMMA RequestType ==
  ASSUME NEW k \in Communities, NEW u \in Users \cup {NoUser},
         NEW join \in BOOLEAN, NEW withPhone \in BOOLEAN
  PROVE  /\ Request(k, u, join, withPhone) \in Kept
         /\ Request(k, u, join, withPhone).phone = withPhone
         /\ Request(k, u, join, withPhone).user = u
BY DEF Request, Kept

\* No call is under way to begin with.
LEMMA IdleType == AnyRequest \in Kept
<1>1. (CHOOSE k \in Communities : TRUE) \in Communities
  BY CommunityAssumption
<1>2. QED
  BY <1>1, RequestType DEF AnyRequest

\* So does ending it.
LEMMA EndTypes ==
  ASSUME SignUpTypeOK, NEW c \in Requests, EndRequest(c)
  PROVE  /\ at' \in [Requests -> {"idle", "line", "look", "link", "login", "add", "enrol", "create"}]
         /\ kept' \in [Requests -> Kept]
         /\ at'[c] = "idle"
         /\ \A d \in Requests : d /= c => at'[d] = at[d] /\ kept'[d] = kept[d]
BY IdleType, StepTypes DEF EndRequest

\* Inserting the phone of a user who is there keeps the types of the rows.
LEMMA InsertTypes ==
  ASSUME SignUpTypeOK, NEW c \in Requests, NEW u, InsertPhone(c, u)
  PROVE  /\ phone' = phone \cup {u}
         /\ overtaken' \subseteq Requests
         /\ raced' \in BOOLEAN
         /\ ~raced' => ~raced /\ c \notin overtaken
         /\ \A d \in Requests \ {c} :
              at[d] \in {"link", "create"} /\ kept[d].phone => d \in overtaken'
BY DEF SignUpTypeOK, InsertPhone

\* Those who join had a membership of another status, or none.
LEMMA JoinTypes ==
  ASSUME SignUpTypeOK, NEW set, set \subseteq users \X Communities, JoinIfNeeded(set)
  PROVE  members' \subseteq users \X Communities /\ invited' \subseteq users \X Communities
BY DEF SignUpTypeOK, JoinIfNeeded

\* There is room for one more of what the model bounds.
LEMMA DisturbType ==
  ASSUME SignUpTypeOK, Disturb
  PROVE  events' \in 0..MaxEvents
BY EventAssumption DEF SignUpTypeOK, Disturb

-----------------------------------------------------------------------------
(* Types are kept *)

\* The tables are empty to begin with.
LEMMA SignUpInitial == SignUpInit => SignUpLocal /\ SeenInv /\ UserInv
<1>1. SignUpInit => SignUpTypeOK
  <2>1. SUFFICES ASSUME SignUpInit PROVE SignUpTypeOK
    OBVIOUS
  <2>2. events \in 0..MaxEvents
    BY <2>1, EventAssumption DEF SignUpInit
  <2>3. kept \in [Requests -> Kept]
    BY <2>1, IdleType DEF SignUpInit
  <2>4. QED
    BY <2>1, <2>2, <2>3 DEF SignUpInit, SignUpTypeOK
<1>2. QED
  BY <1>1 DEF SignUpInit, SignUpLocal, PhoneKept, SeenInv, Seen, PhoneInv, AtMostOne, UserInv

\* Every step keeps the types and what a call has in hand.
LEMMA SignUpLocalStep ==
  ASSUME SignUpLocal, SignUpNext
  PROVE  SignUpLocal'
<1> USE DEF SignUpLocal
<1>1. ASSUME NEW c \in Requests, NEW k \in Communities, FindByPhone(c, k) PROVE SignUpLocal'
  <2>1. CASE phone = {} /\ Step(c, "line", Request(k, NoUser, FALSE, FALSE))
    <3>1. Request(k, NoUser, FALSE, FALSE) \in Kept
      BY RequestType
    <3>2. QED
      BY <1>1, <2>1, <3>1, StepTypes DEF FindByPhone, rows, past, SignUpTypeOK, PhoneKept
  <2>2. ASSUME NEW u \in phone,
               Step(c, "login", Request(k, u, <<u, k>> \notin Memberships, FALSE))
        PROVE  SignUpLocal'
    <3>1. Request(k, u, <<u, k>> \notin Memberships, FALSE) \in Kept
      BY RequestType DEF SignUpTypeOK
    <3>2. QED
      BY <1>1, <2>2, <3>1, StepTypes DEF FindByPhone, rows, past, SignUpTypeOK, PhoneKept
  <2>3. QED
    BY <1>1, <2>1, <2>2 DEF FindByPhone
<1>2. ASSUME NEW c \in Requests, FindByLine(c) PROVE SignUpLocal'
  <2> DEFINE k == kept[c].community
             u == line[k]
             request == Request(k, u, <<u, k>> \notin Memberships, TRUE)
  <2>1. k \in Communities /\ u \in Users \cup {NoUser}
    BY DEF SignUpTypeOK, Kept
  <2>2. request \in Kept /\ request.phone = TRUE
    BY <2>1, RequestType
  <2>3. CASE EndRequest(c)
    BY <1>2, <2>3, EndTypes DEF FindByLine, rows, past, SignUpTypeOK, PhoneKept
  <2>4. CASE Step(c, "look", request)
    <3>1. at' \in [Requests -> {"idle", "line", "look", "link", "login", "add", "enrol", "create"}]
          /\ kept' \in [Requests -> Kept] /\ at'[c] = "look" /\ kept'[c] = request
          /\ \A d \in Requests : d /= c => at'[d] = at[d] /\ kept'[d] = kept[d]
      BY <2>2, <2>4, StepTypes
    <3>2. QED
      BY <1>2, <2>2, <3>1 DEF FindByLine, rows, past, SignUpTypeOK, PhoneKept
  <2>5. QED
    BY <1>2, <2>3, <2>4 DEF FindByLine
<1>3. ASSUME NEW c \in Requests, NEW k \in Communities, StartLink(c, k) PROVE SignUpLocal'
  <2> DEFINE request == Request(k, line[k], FALSE, TRUE)
  <2>1. line[k] \in Users \cup {NoUser}
    BY DEF SignUpTypeOK
  <2>2. request \in Kept /\ request.phone = TRUE
    BY <2>1, RequestType
  <2>3. at' \in [Requests -> {"idle", "line", "look", "link", "login", "add", "enrol", "create"}]
        /\ kept' \in [Requests -> Kept] /\ at'[c] = "look" /\ kept'[c] = request
        /\ \A d \in Requests : d /= c => at'[d] = at[d] /\ kept'[d] = kept[d]
    BY <1>3, <2>2, StepTypes DEF StartLink
  <2>4. QED
    BY <1>3, <2>2, <2>3 DEF StartLink, rows, past, SignUpTypeOK, PhoneKept
<1>4. ASSUME NEW c \in Requests, LookAgain(c) PROVE SignUpLocal'
  <2>1. CASE Step(c, "link", kept[c])
    <3>1. kept[c] \in Kept
      BY DEF SignUpTypeOK
    <3>2. at' \in [Requests -> {"idle", "line", "look", "link", "login", "add", "enrol", "create"}]
          /\ kept' \in [Requests -> Kept] /\ at'[c] = "link" /\ kept'[c] = kept[c]
          /\ \A d \in Requests : d /= c => at'[d] = at[d] /\ kept'[d] = kept[d]
      BY <2>1, <3>1, StepTypes
    <3>3. QED
      BY <1>4, <3>2 DEF LookAgain, rows, SignUpTypeOK, PhoneKept
  <2>2. CASE EndRequest(c)
    BY <1>4, <2>2, EndTypes DEF LookAgain, rows, SignUpTypeOK, PhoneKept
  <2>3. QED
    BY <1>4, <2>1, <2>2 DEF LookAgain
<1>5. ASSUME NEW c \in Requests, Link(c) PROVE SignUpLocal'
  <2>1. members' \subseteq users \X Communities /\ invited' \subseteq users \X Communities
    <3>1. Enrolled(c) \subseteq users \X Communities
      BY <1>5 DEF Link, Enrolled, SignUpTypeOK, Kept
    <3>2. QED
      BY <1>5, <3>1, JoinTypes DEF Link
  <2>2. overtaken' \subseteq Requests /\ raced' \in BOOLEAN /\ phone' = phone \cup {kept[c].user}
    BY <1>5, InsertTypes DEF Link
  <2>3. QED
    BY <1>5, <2>1, <2>2, EndTypes DEF Link, SignUpTypeOK, PhoneKept
<1>6. ASSUME NEW c \in Requests, FindLogin(c) PROVE SignUpLocal'
  <2>1. kept[c] \in Kept
    BY DEF SignUpTypeOK
  <2>2. CASE Step(c, "add", kept[c])
    BY <1>6, <2>1, <2>2, StepTypes DEF FindLogin, rows, past, SignUpTypeOK, PhoneKept
  <2>3. CASE Step(c, "enrol", kept[c])
    BY <1>6, <2>1, <2>3, StepTypes DEF FindLogin, rows, past, SignUpTypeOK, PhoneKept
  <2>4. CASE EndRequest(c)
    BY <1>6, <2>4, EndTypes DEF FindLogin, rows, past, SignUpTypeOK, PhoneKept
  <2>5. QED
    BY <1>6, <2>2, <2>3, <2>4 DEF FindLogin
<1>7. ASSUME NEW c \in Requests, AddLogin(c) PROVE SignUpLocal'
  <2>1. members' \subseteq users \X Communities /\ invited' \subseteq users \X Communities
    <3>1. Enrolled(c) \subseteq users \X Communities
      BY <1>7 DEF AddLogin, Enrolled, SignUpTypeOK, Kept
    <3>2. QED
      BY <1>7, <3>1, JoinTypes DEF AddLogin
  <2>2. line' \in [Communities -> users \cup {NoUser}]
    BY <1>7 DEF AddLogin, SignUpTypeOK
  <2>3. QED
    BY <1>7, <2>1, <2>2, EndTypes DEF AddLogin, past, SignUpTypeOK, PhoneKept
<1>8. ASSUME NEW c \in Requests, Enrol(c) PROVE SignUpLocal'
  <2>1. members' \subseteq users \X Communities /\ invited' \subseteq users \X Communities
    <3>1. Enrolled(c) \subseteq users \X Communities
      BY <1>8 DEF Enrol, Enrolled, SignUpTypeOK, Kept
    <3>2. QED
      BY <1>8, <3>1, JoinTypes DEF Enrol
  <2>2. QED
    BY <1>8, <2>1, EndTypes DEF Enrol, past, SignUpTypeOK, PhoneKept
<1>9. ASSUME NEW c \in Requests, NEW k \in Communities, NEW b \in BOOLEAN, SignUp(c, k, b)
      PROVE  SignUpLocal'
  <2>1. Request(k, NoUser, TRUE, b) \in Kept
    BY RequestType
  <2>2. QED
    BY <1>9, <2>1, StepTypes DEF SignUp, rows, SignUpTypeOK, PhoneKept
<1>10. ASSUME NEW c \in Requests, CreateUser(c) PROVE SignUpLocal'
  <2>1. PICK u \in FreeIds :
          /\ users' = users \cup {u}
          /\ line' = [line EXCEPT ![kept[c].community] = u]
          /\ IF kept[c].phone THEN InsertPhone(c, u) ELSE UNCHANGED <<phone, overtaken, raced>>
          /\ Step(c, "enrol", [kept[c] EXCEPT !.user = u])
    BY <1>10 DEF CreateUser
  <2>2. u \in Users
    BY DEF FreeIds
  <2>3. [kept[c] EXCEPT !.user = u] \in Kept
    BY <2>2 DEF SignUpTypeOK, Kept
  <2>4. overtaken' \subseteq Requests /\ raced' \in BOOLEAN /\ phone' \subseteq phone \cup {u}
    BY <2>1, InsertTypes DEF SignUpTypeOK
  <2>5. phoneless' \in BOOLEAN
    BY <1>10 DEF CreateUser
  <2>6. line' \in [Communities -> users' \cup {NoUser}]
    BY <2>1 DEF SignUpTypeOK
  <2>7. /\ at' \in [Requests -> {"idle", "line", "look", "link", "login", "add", "enrol", "create"}]
        /\ kept' \in [Requests -> Kept] /\ at'[c] = "enrol"
        /\ \A d \in Requests : d /= c => at'[d] = at[d] /\ kept'[d] = kept[d]
    BY <2>1, <2>3, StepTypes
  <2>8. users' \subseteq Users /\ phone' \subseteq users' /\ members' \subseteq users' \X Communities
        /\ invited' \subseteq users' \X Communities
    BY <1>10, <2>1, <2>2, <2>4 DEF CreateUser, SignUpTypeOK
  <2>9. events' = events
    BY <1>10 DEF CreateUser
  <2>10. QED
    BY <2>4, <2>5, <2>6, <2>7, <2>8, <2>9 DEF SignUpTypeOK, PhoneKept
<1>11. ASSUME NEW c \in Requests, Refuse(c) PROVE SignUpLocal'
  BY <1>11, EndTypes DEF Refuse, rows, SignUpTypeOK, PhoneKept
<1>12. ASSUME NEW c \in Requests, Fail(c) PROVE SignUpLocal'
  <2>1. events' \in 0..MaxEvents
    BY <1>12, DisturbType DEF Fail
  <2>2. QED
    BY <1>12, <2>1, EndTypes DEF Fail, rows, SignUpTypeOK, PhoneKept
<1>13. ASSUME NEW u \in users, DeleteUser(u) PROVE SignUpLocal'
  <2>1. line' \in [Communities -> users' \cup {NoUser}]
    BY <1>13 DEF DeleteUser, SignUpTypeOK
  <2>2. members' \subseteq users' \X Communities /\ invited' \subseteq users' \X Communities
        /\ events' \in 0..MaxEvents
    BY <1>13, DisturbType DEF DeleteUser, SignUpTypeOK
  <2>3. raced' \in BOOLEAN /\ phoneless' \in BOOLEAN
    BY <1>13 DEF DeleteUser
  <2>4. QED
    BY <1>13, <2>1, <2>2, <2>3 DEF DeleteUser, SignUpTypeOK, PhoneKept
<1>14. ASSUME NEW u \in users, NEW k \in Communities,
              Grant(u, k) \/ InviteMember(u, k) \/ LeaveMember(u, k) \/ DeleteMember(u, k)
       PROVE  SignUpLocal'
  <2>1. events' \in 0..MaxEvents
    BY <1>14, DisturbType DEF Grant, InviteMember, LeaveMember, DeleteMember
  <2>2. members' \subseteq users \X Communities /\ invited' \subseteq users \X Communities
    BY <1>14, JoinTypes DEF Grant, InviteMember, LeaveMember, DeleteMember, SignUpTypeOK
  <2>3. QED
    BY <1>14, <2>1, <2>2
    DEF Grant, InviteMember, LeaveMember, DeleteMember, past, SignUpTypeOK, PhoneKept
<1>15. QED
  BY <1>1, <1>2, <1>3, <1>4, <1>5, <1>6, <1>7, <1>8, <1>9, <1>10, <1>11, <1>12, <1>13, <1>14
  DEF SignUpNext, Proceed

-----------------------------------------------------------------------------
(* What was seen of the phone *)

\* A call that goes on, but not to an insert, and leaves the rows alone.
LEMMA Quiet ==
  ASSUME SignUpLocal, SeenInv, UserInv, NEW c \in Requests,
         at'[c] \notin {"link", "create"},
         \A d \in Requests : d /= c => at'[d] = at[d] /\ kept'[d] = kept[d],
         overtaken \ {c} \subseteq overtaken',
         users' = users, phone' = phone, raced' = raced, phoneless' = phoneless
  PROVE  SeenInv' /\ UserInv'
BY DEF SeenInv, Seen, PhoneInv, AtMostOne, UserInv

\* An insert overtakes the other calls that have not seen it.
LEMMA Insert ==
  ASSUME SignUpLocal, SeenInv, NEW c \in Requests, NEW u, InsertPhone(c, u),
         at[c] \in {"link", "create"}, kept[c].phone,
         at'[c] \notin {"link", "create"},
         \A d \in Requests : d /= c => at'[d] = at[d] /\ kept'[d] = kept[d]
  PROVE  SeenInv'
<1>1. /\ phone' = phone \cup {u}
      /\ ~raced' => ~raced /\ c \notin overtaken
      /\ \A d \in Requests \ {c} :
           at[d] \in {"link", "create"} /\ kept[d].phone => d \in overtaken'
  BY InsertTypes DEF SignUpLocal
<1>2. Seen'
  BY <1>1 DEF Seen
<1>3. ASSUME ~raced' PROVE AtMostOne(phone')
  <2>1. phone = {}
    BY <1>1, <1>3 DEF SeenInv, Seen
  <2>2. QED
    BY <1>1, <2>1 DEF AtMostOne
<1>4. QED
  BY <1>2, <1>3 DEF SeenInv, PhoneInv

\* Every step keeps what follows from the looks.
LEMMA SeenStep ==
  ASSUME SignUpLocal, SeenInv, UserInv, SignUpNext
  PROVE  SeenInv' /\ UserInv'
<1>1. ASSUME NEW c \in Requests, NEW k \in Communities, FindByPhone(c, k)
      PROVE  SeenInv' /\ UserInv'
  <2>1. /\ at'[c] \in {"line", "login"}
        /\ \A d \in Requests : d /= c => at'[d] = at[d] /\ kept'[d] = kept[d]
    BY <1>1 DEF FindByPhone, Step, SignUpLocal, SignUpTypeOK
  <2>2. QED
    BY <1>1, <2>1, Quiet DEF FindByPhone, rows, past
<1>2. ASSUME NEW c \in Requests, FindByLine(c) PROVE SeenInv' /\ UserInv'
  <2>1. /\ at'[c] \in {"idle", "look"}
        /\ \A d \in Requests : d /= c => at'[d] = at[d] /\ kept'[d] = kept[d]
    BY <1>2 DEF FindByLine, EndRequest, Step, SignUpLocal, SignUpTypeOK
  <2>2. QED
    BY <1>2, <2>1, Quiet DEF FindByLine, rows, past
<1>3. ASSUME NEW c \in Requests, NEW k \in Communities, StartLink(c, k)
      PROVE  SeenInv' /\ UserInv'
  <2>1. /\ at'[c] = "look"
        /\ \A d \in Requests : d /= c => at'[d] = at[d] /\ kept'[d] = kept[d]
    BY <1>3 DEF StartLink, Step, SignUpLocal, SignUpTypeOK
  <2>2. QED
    BY <1>3, <2>1, Quiet DEF StartLink, rows, past
<1>4. ASSUME NEW c \in Requests, LookAgain(c) PROVE SeenInv' /\ UserInv'
  <2>1. /\ at'[c] = "idle" \/ (at'[c] = "link" /\ phone = {})
        /\ \A d \in Requests : d /= c => at'[d] = at[d] /\ kept'[d] = kept[d]
    BY <1>4 DEF LookAgain, EndRequest, Step, SignUpLocal, SignUpTypeOK
  <2>2. QED
    BY <1>4, <2>1 DEF LookAgain, rows, SeenInv, Seen, PhoneInv, AtMostOne, UserInv
<1>5. ASSUME NEW c \in Requests, Link(c) PROVE SeenInv' /\ UserInv'
  <2>1. /\ at'[c] = "idle"
        /\ \A d \in Requests : d /= c => at'[d] = at[d] /\ kept'[d] = kept[d]
    BY <1>5, EndTypes DEF Link, SignUpLocal
  <2>2. at[c] = "link" /\ kept[c].phone
    BY <1>5 DEF Link, SignUpLocal, PhoneKept
  <2>3. SeenInv'
    BY <1>5, <2>1, <2>2, Insert DEF Link
  <2>4. UserInv'
    BY <1>5 DEF Link, InsertPhone, UserInv
  <2>5. QED
    BY <2>3, <2>4
<1>6. ASSUME NEW c \in Requests, FindLogin(c) PROVE SeenInv' /\ UserInv'
  <2>1. /\ at'[c] \in {"add", "enrol", "idle"}
        /\ \A d \in Requests : d /= c => at'[d] = at[d] /\ kept'[d] = kept[d]
    BY <1>6 DEF FindLogin, EndRequest, Step, SignUpLocal, SignUpTypeOK
  <2>2. QED
    BY <1>6, <2>1, Quiet DEF FindLogin, rows, past
<1>7. ASSUME NEW c \in Requests, AddLogin(c) \/ Enrol(c) PROVE SeenInv' /\ UserInv'
  <2>1. /\ at'[c] = "idle"
        /\ \A d \in Requests : d /= c => at'[d] = at[d] /\ kept'[d] = kept[d]
    BY <1>7, EndTypes DEF AddLogin, Enrol, SignUpLocal
  <2>2. QED
    BY <1>7, <2>1, Quiet DEF AddLogin, Enrol, past
<1>8. ASSUME NEW c \in Requests, NEW k \in Communities, NEW b \in BOOLEAN, SignUp(c, k, b)
      PROVE  SeenInv' /\ UserInv'
  <2>1. /\ kept'[c].phone = b
        /\ \A d \in Requests : d /= c => at'[d] = at[d] /\ kept'[d] = kept[d]
    <3>1. Request(k, NoUser, TRUE, b).phone = b
      BY ZenonT(30), RequestType
    <3>2. QED
      BY <1>8, <3>1 DEF SignUp, Step, SignUpLocal, SignUpTypeOK
  <2>2. b => phone = {}
    BY <1>8 DEF SignUp
  <2>3. /\ overtaken' = overtaken \ {c}
        /\ users' = users /\ phone' = phone /\ raced' = raced /\ phoneless' = phoneless
    BY <1>8 DEF SignUp, rows
  <2>4. QED
    BY <2>1, <2>2, <2>3 DEF SeenInv, Seen, PhoneInv, AtMostOne, UserInv
<1>9. ASSUME NEW c \in Requests, CreateUser(c) PROVE SeenInv' /\ UserInv'
  <2>1. PICK u \in FreeIds :
          /\ users' = users \cup {u}
          /\ IF kept[c].phone THEN InsertPhone(c, u) ELSE UNCHANGED <<phone, overtaken, raced>>
          /\ Step(c, "enrol", [kept[c] EXCEPT !.user = u])
    BY <1>9 DEF CreateUser
  <2>2. /\ at[c] = "create" /\ at'[c] = "enrol"
        /\ \A d \in Requests : d /= c => at'[d] = at[d] /\ kept'[d] = kept[d]
    BY <1>9, <2>1 DEF CreateUser, Step, SignUpLocal, SignUpTypeOK
  <2>3. phoneless' = (phoneless \/ ~kept[c].phone)
    BY <1>9 DEF CreateUser
  <2>4. CASE kept[c].phone
    <3>1. InsertPhone(c, u)
      BY <2>1, <2>4
    <3>2. SeenInv'
      BY <2>2, <2>4, <3>1, Insert
    <3>3. UserInv'
      BY <2>1, <2>3, <3>1 DEF InsertPhone, UserInv
    <3>4. QED
      BY <3>2, <3>3
  <2>5. CASE ~kept[c].phone
    BY <2>1, <2>2, <2>3, <2>5 DEF SeenInv, Seen, PhoneInv, AtMostOne, UserInv
  <2>6. QED
    BY <2>4, <2>5
<1>10. ASSUME NEW c \in Requests, Refuse(c) \/ Fail(c) PROVE SeenInv' /\ UserInv'
  <2>1. /\ at'[c] = "idle"
        /\ \A d \in Requests : d /= c => at'[d] = at[d] /\ kept'[d] = kept[d]
    BY <1>10, EndTypes DEF Refuse, Fail, SignUpLocal
  <2>2. QED
    BY <1>10, <2>1, Quiet DEF Refuse, Fail, rows
<1>11. ASSUME NEW u \in users, DeleteUser(u) PROVE SeenInv' /\ UserInv'
  <2>1. /\ users' = users \ {u} /\ phone' = phone \ {u}
        /\ raced' = (raced /\ users' /= {}) /\ phoneless' = (phoneless /\ users' /= {})
        /\ at' = at /\ kept' = kept /\ overtaken' = overtaken
    BY <1>11 DEF DeleteUser
  <2>2. Seen'
    BY <2>1 DEF SeenInv, Seen
  <2>3. phone' \subseteq users'
    BY <2>1 DEF SignUpLocal, SignUpTypeOK
  <2>4. PhoneInv'
    BY <2>1, <2>3 DEF SeenInv, PhoneInv, AtMostOne
  <2>5. UserInv'
    BY <2>1 DEF UserInv
  <2>6. QED
    BY <2>2, <2>4, <2>5 DEF SeenInv
<1>12. ASSUME NEW u \in users, NEW k \in Communities,
              Grant(u, k) \/ InviteMember(u, k) \/ LeaveMember(u, k) \/ DeleteMember(u, k)
       PROVE  SeenInv' /\ UserInv'
  BY <1>12 DEF Grant, InviteMember, LeaveMember, DeleteMember, past, SeenInv, Seen, PhoneInv, AtMostOne, UserInv
<1>13. QED
  BY <1>1, <1>2, <1>3, <1>4, <1>5, <1>6, <1>7, <1>8, <1>9, <1>10, <1>11, <1>12
  DEF SignUpNext, Proceed

-----------------------------------------------------------------------------
(* Theorems of the specification *)

\* The three parts together are inductive.
LEMMA SignUpInductive == SignUpLocal /\ SeenInv /\ UserInv /\ [SignUpNext]_signUpVars => (SignUpLocal /\ SeenInv /\ UserInv)'
<1>1. CASE SignUpNext
  BY <1>1, SignUpLocalStep, SeenStep
<1>2. CASE UNCHANGED signUpVars
  BY <1>2 DEF signUpVars, SignUpLocal, SignUpTypeOK, PhoneKept, SeenInv, Seen, PhoneInv, AtMostOne, UserInv
<1>3. QED
  BY <1>1, <1>2

\* Hence they always hold.
LEMMA SignUpInvariant == SignUpSpec => [](SignUpLocal /\ SeenInv /\ UserInv)
BY SignUpInitial, SignUpInductive, PTL DEF SignUpSpec

\* Every variable stays within its type: in particular a LINE login and a
\* membership always have a user who is there.
THEOREM SignUpTypeOKAlways == SignUpSpec => []SignUpTypeOK
<1>1. SignUpLocal => SignUpTypeOK
  BY DEF SignUpLocal
<1>2. QED
  BY <1>1, SignUpInvariant, PTL

\* However many requests overlap, the phone leads to one user, unless two of
\* them looked for the row before either had inserted it.
THEOREM OnePhoneUserAlways == SignUpSpec => []OnePhoneUser
<1>1. SeenInv => OnePhoneUser
  BY AtMostOneCardinality DEF SeenInv, PhoneInv, OnePhoneUser
<1>2. QED
  BY <1>1, SignUpInvariant, PTL

\* The person is one user in all communities, as long as no requests overlapped
\* like that and no signup left the phone out.
THEOREM OneUserPerPersonAlways == SignUpSpec => []OneUserPerPerson
<1>1. ASSUME SeenInv, UserInv PROVE OneUserPerPerson
  <2>1. ~raced /\ ~phoneless => AtMostOne(users)
    BY <1>1 DEF SeenInv, PhoneInv, UserInv, AtMostOne
  <2>2. QED
    BY <2>1, AtMostOneCardinality DEF OneUserPerPerson
<1>2. QED
  BY <1>1, SignUpInvariant, PTL

\* Hence the person is whoever the phone says.
THEOREM OneUserAlways == SignUpSpec => []OneUser
<1>1. OnePhoneUser /\ OneUserPerPerson => OneUser
  BY DEF OneUser
<1> QED BY <1>1, OnePhoneUserAlways, OneUserPerPersonAlways, PTL
=============================================================================
