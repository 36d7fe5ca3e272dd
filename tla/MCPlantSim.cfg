SPECIFICATION Spec
CONSTANTS
  None = None
  p1 = p1
  Plants = {p1}
  c1 = c1
  c2 = c2
  Callers = {c1, c2}
  Tasks = {1, 2}
  MaxPower = 2
  Powers = {1, 4}
  SocMin = 1
  SocMax = 5
  EffNum = 1
  EffDen = 2
  InitialSocs = {0, 4}
  RateLimit = 2
  Horizon = 4
INVARIANTS
  TypeOK
  SwitchTellsPower
  AbsentPlantIsClear
  ClientKeepsLimit
PROPERTIES
  SocWithinRating
SYMMETRY CallersAlike
CHECK_DEADLOCK FALSE
