SPECIFICATION FairSpec
CONSTANTS
  Users = {u1}
  Members = {u1}
  Assigned = {}
  Community = community
  Requests = {r1, r2}
  Amounts = {1}
  MaxTx = 3
  MaxGen = 2
PROPERTY EveryCallEnds
