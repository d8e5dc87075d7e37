SPECIFICATION FairSpec
CONSTANTS
  Purchases = {b1, b2}
  Staff = {s1, s2}
  Capacity = 1
  MaxQuantity = 2
  Collisions = TRUE
  MaxCalls = 2
  MaxCrashes = 1
INVARIANTS BoughtTicketsArePaid
PROPERTIES OversellsOnlyWhenOvertaken FinalUnlessRaced PendingIsResolved
CHECK_DEADLOCK FALSE
