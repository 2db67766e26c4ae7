---------------------------- MODULE PointAccounts ----------------------------
(***************************************************************************)
(* What the point ledger promises, seen from outside: every wallet has a   *)
(* balance, points enter the community only when the owner issues them,    *)
(* leave it only with a deleted wallet, and move between two live wallets  *)
(* in one indivisible step.  Which transfers the balance allows is not     *)
(* promised: PointLedger shows why.                                        *)
(***************************************************************************)
EXTENDS Integers

CONSTANTS
  WalletIds,        \* every wallet there can ever be
  CommunityWallet,  \* the one points are issued to
  Opened,           \* the ones that exist from the start
  Amounts           \* the amounts of issues and transfers

VARIABLE account    \* account[w]: the balance of the live wallet w

Live == DOMAIN account

Init == account = [w \in Opened \cup {CommunityWallet} |-> 0]

Issue(n) == account' = [account EXCEPT ![CommunityWallet] = @ + n]

Transfer(v, w, n) ==
  /\ v \in Live /\ w \in Live \ {v} /\ n > 0
  /\ account' = [[account EXCEPT ![v] = @ - n] EXCEPT ![w] = @ + n]

\* A grant to a user without a wallet opens one.
GrantOpens(w, n) ==
  /\ w \notin Live /\ n > 0
  /\ account' = [v \in Live \cup {w} |->
                   IF v = w THEN n ELSE [account EXCEPT ![CommunityWallet] = @ - n][v]]

Close(w) ==
  /\ w \in Live \ {CommunityWallet}
  /\ account' = [v \in Live \ {w} |-> account[v]]

\* Each step changes a balance, or which wallets are live.
Next ==
  /\ account' /= account
  /\ \/ \E n \in Amounts : Issue(n)
     \/ \E v, w \in Live, n \in Amounts : Transfer(v, w, n)
     \/ \E w \in WalletIds, n \in Amounts : GrantOpens(w, n)
     \/ \E w \in Live : Close(w)

Spec == Init /\ [][Next]_account
=============================================================================
