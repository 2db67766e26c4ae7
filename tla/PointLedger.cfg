\* Different and negative amounts; wallets are deleted and made again.  Three
\* transactions let two grants, or a grant and a contribution, follow an issue.
SPECIFICATION Spec
CONSTANTS
  Users = {u1, u2}
  Members = {}
  Assigned = {u1, u2}
  Community = community
  Requests = {r1, r2}
  Amounts <- MixedAmounts
  MaxTx = 3
  MaxGen = 2
SYMMETRY Interchangeable
INVARIANTS NotifiedSeesPoints BalancesSound ChainSound
PROPERTY ImplementsAccounts
