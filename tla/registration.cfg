SPECIFICATION Spec
CONSTANTS
  Leads = {l1, l2, l3}
  Requests = {r1, r2, r3}
  Operators = {o1, o2}
  Capacities = {1, 2}
  MaxAttempts = 2
SYMMETRY Symmetry
INVARIANTS TypeOK SeatsBounded CreatedOnce RefusedOnlyUnderContention
CHECK_DEADLOCK FALSE
