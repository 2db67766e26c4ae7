SPECIFICATION Spec
CONSTANTS
  Users = {u1, u2}
  Nobody = Nobody
  Requests = {r1, r2, r3}
  Capacities = {1, 2}
  Prices = {0, 1}
  WithPoints = {1}
  MaxSeats = 2
  MaxReservations = 2
  MaxEvaluated = 2
  MaxCalls = 3
SYMMETRY Interchangeable
INVARIANTS SeatsFollowReservation PointsFollowHistory CancelledSlotIsClosed DeadlockNeedsBulk
CHECK_DEADLOCK FALSE
