SPECIFICATION Spec
CONSTANTS
  Clients = {p1, p2}
  None = None
  Suggestions = {a, b}
  Voters = {v1}
CHECK_DEADLOCK FALSE
INVARIANT NoMergeCycle
