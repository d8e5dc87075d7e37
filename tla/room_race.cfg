SPECIFICATION Spec
CONSTANTS
  Clients = {c1, c2}
  Slots <- ThreeSlots
  Clash <- LineClash
  NoSlot = NoSlot
  am = am
  noon = noon
  pm = pm
  MaxRows = 3
  MaxCrashes = 1
  Horizon <- NoTime
  Traffic <- SelfService
CHECK_DEADLOCK FALSE
SYMMETRY Interchangeable
INVARIANTS NoDoubleBooking
PROPERTIES ImplementsCalendar
