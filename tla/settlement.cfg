SPECIFICATION Spec
CONSTANTS
  Clients = {c1, c2}
  c1 = c1
  c2 = c2
  Cost = 2
  Allowance = 2
  MaxCalls = 3
  MaxUpsets = 1
CHECK_DEADLOCK FALSE
SYMMETRY Interchangeable
INVARIANTS DueIsRemainder PaidOwesNothing CancelledHoldsNothing ReturnedOnce
