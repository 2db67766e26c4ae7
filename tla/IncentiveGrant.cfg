\* One user: both calls compete for the same rows.
SPECIFICATION FairSpec
CONSTANTS
  Users = {u1}
  Requests = {r1, r2}
  MaxTx = 3
  MaxFunds = 2
INVARIANTS NoGrantLeftInProgress BonusPaidOnce
PROPERTIES PaidToMember JoinLostNeedsGrant EveryCallEnds
