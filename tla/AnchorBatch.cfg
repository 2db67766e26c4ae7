SPECIFICATION FairSpec
CONSTANTS
  Users = {u1}
  Requests = {r1}
  Runs = {b1, b2}
  Weeks = {w1, w2}
  NoWeek = NoWeek
  MaxAnchors = 2
  MaxTxs = 2
INVARIANTS ChainFollowsRows PrevNamesPrevious
PROPERTY ClaimsAreResolved
CHECK_DEADLOCK FALSE
