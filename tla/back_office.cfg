SPECIFICATION Spec
CONSTANTS
  Clients = {c1, c2}
  Slots <- OneSlot
  Clash <- OneClash
  NoSlot = NoSlot
  am = am
  noon = noon
  pm = pm
  MaxRows = 2
  MaxCrashes = 1
  Horizon <- OneSlot
  Traffic <- BackOffice
CHECK_DEADLOCK FALSE
SYMMETRY Interchangeable
PROPERTIES SettledIsFinal
