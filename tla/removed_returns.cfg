SPECIFICATION Spec
CONSTANTS
  Clients = {p1, p2}
  Gigs = Gigs
  RoomSeries = {jam}
  None = None
  LastDay = 2
  Ahead = 2
  Closed = {}
  MaxCalls = 2
  MaxFaults = 1
CHECK_DEADLOCK FALSE
PROPERTY RemovedStaysRemoved
