SPECIFICATION MCSpec
CONSTANTS
  Clients = {p1, p2}
  p1 = p1
  p2 = p2
  Loans = {l1, l2}
  l1 = l1
  l2 = l2
  Items = {amp}
  amp = amp
  None = None
  Quantities = {1, 2}
  Stocks = {1, 2}
  Charges = {0, 3}
  MaxCredits = 2
  Attempts = 2
  MaxCalls = 7
  MaxUpsets = 1
  Suggestions = {a, b, c}
  Voters = {v1}
  Gigs = Gigs
  RoomSeries = {jam}
CHECK_DEADLOCK FALSE
SYMMETRY Symmetry
INVARIANTS ChargedOnce MissesOnlyWhenOvertaken MergeKeepsVotes 
PROPERTIES ShortOnlyWhenOvertaken GeneratedOnceUnlessOvertaken EventsFirst
