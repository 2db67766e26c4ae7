SPECIFICATION Spec
CONSTANTS
  Calls = {c1, c2, c3}
  NoCall = NoCall
  Wallets = {w1, w2, w3}
  NoRow = NoRow
INVARIANTS AcceptedHasWallet WalletFollowsMembership RoleIsAssigned
SYMMETRY Interchangeable
