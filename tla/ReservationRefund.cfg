SPECIFICATION Spec
CONSTANTS
  Users = {u1, u2}
  Nobody = Nobody
  Requests = {r1, r2}
  Capacities = {2}
  Prices = {1}
  WithPoints = {1}
  MaxSeats = 2
  MaxReservations = 1
  MaxEvaluated = 1
  MaxCalls = 2
PROPERTY RefundGoesToReserver
CHECK_DEADLOCK FALSE
