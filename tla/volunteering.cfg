SPECIFICATION MCSpec
CONSTANTS
  Clients = {p1, p2}
  Workers = {p1}
  p1 = p1
  p2 = p2
  Members = {m1, m2}
  m1 = m1
  m2 = m2
  None = None
  Capacities = {1, 2}
  Moments = {1, 2}
  MaxCalls = 4
  MaxCrashes = 1
  Others = {v1}
  Edits = {1, 2}
  Subs = {s1, s2}
  MaxChanges = 2
  Logs = {1}
  Minutes = {60, 90}
CHECK_DEADLOCK FALSE
INVARIANTS VerdictStands VerdictMatchesText PendingEditIsCurrent
PROPERTIES OverfullOnlyWhenOvertaken SettledUnlessOvertaken WorkIsCompleted PremiumUnlessOvertaken SweepAgrees
