SPECIFICATION SignUpFairSpec
CONSTANTS
  Communities = {k1, k2}
  Users = {u1, u2}
  NoUser = NoUser
  Requests = {c1, c2}
  MaxEvents = 2
INVARIANTS OneUser
PROPERTY SignUpCompletes
