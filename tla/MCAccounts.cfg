SPECIFICATION Spec
CONSTANTS
  None = None
  Gone = Gone
  u1 = u1
  u2 = u2
  h1 = h1
  h2 = h2
  Users = {u1, u2}
  Callers = {u1, u2}
  Handlers = {h1, h2}
  MaxCalls = 3
  MaxAttempts = 2
  FirstUsers <- MCFirstUsers
SYMMETRY HandlersAlike
INVARIANTS
  TypeOK
  AdminRemains
PROPERTIES
  LockMatchesCount
  UsedOnce
CHECK_DEADLOCK FALSE
