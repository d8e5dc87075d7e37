SPECIFICATION Spec
CONSTANTS
  Clients = {c1, c2}
  c1 = c1
  c2 = c2
  Cost = 2
  Allowance = 3
  MaxCalls = 3
  MaxUpsets = 0
CHECK_DEADLOCK FALSE
SYMMETRY Interchangeable
INVARIANT CommittedOnce
