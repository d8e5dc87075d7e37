SPECIFICATION FairSpec
CONSTANTS
  Clients = {c1}
  Slots <- OneSlot
  Clash <- OneClash
  NoSlot = NoSlot
  am = am
  noon = noon
  pm = pm
  MaxRows = 3
  MaxCrashes = 1
  Horizon <- OneSlot
  Traffic <- Sweeps
CHECK_DEADLOCK FALSE
PROPERTIES LapsedOfferResolved UnconfirmedReleased
