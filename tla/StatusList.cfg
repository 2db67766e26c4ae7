\* Lists of two bits: three credentials fill one and start the next.
SPECIFICATION Spec
CONSTANTS
  Users = {u1}
  Nobody = Nobody
  Vcs = {v1, v2, v3}
  Requests = {r1, r2}
  Capacity = 2
  MaxLists = 2
SYMMETRY Interchangeable
INVARIANTS SlotsUnique ListFollowsRevocations TombstoneRevokesAll
