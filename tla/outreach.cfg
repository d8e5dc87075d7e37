SPECIFICATION MCSpec
CONSTANTS
  Clients = {p1, p2}
  p1 = p1
  p2 = p2
  None = None
  Users = {u1, u2, u3}
  u1 = u1
  u2 = u2
  u3 = u3
  MaxRows = 2
  MaxCalls = 6
  Invites = {1, 2}
  MaxLosses = 1
  Gigs = Gigs
  jam = jam
  choir = choir
  Closed = {}
  Cron = Cron
  Batches = {1, 2}
  MaxEdits = 3
  MaxFaults = 1
CHECK_DEADLOCK FALSE
PROPERTIES OwnedUnlessOvertaken JoinsOnceUnlessTorn InviteIsResolved TwiceOnlyWhenOvertaken SentToSomebodyUnlessTorn DueIsSent OccurrenceComes
