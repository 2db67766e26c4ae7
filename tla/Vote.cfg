SPECIFICATION VoteSpec
CONSTANTS
  Users = {u1, u2}
  NoUser = NoUser
  Casts = {c1, c2}
  Managers = {m1, m2}
  OptionsPerTopic = 2
  MaxEdits = 1
  MaxWeight = 2
INVARIANTS TalliesMatchBallots DeadlockNeedsLateEdit OpensEmpty
PROPERTIES BallotsSurvive ImplementsPoll
SYMMETRY Interchangeable
CHECK_DEADLOCK FALSE
