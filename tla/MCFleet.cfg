SPECIFICATION FairSpec
CONSTANTS
  None = None
  b1 = b1
  b2 = b2
  a1 = a1
  w1 = w1
  w2 = w2
  Batteries = {b1, b2}
  Fleets = {{b1}, {}}
  Aggregates = {a1}
  Pollers = {w1, w2}
  Requests = {1, 2}
  Commands = {"charge"}
INVARIANTS
  TypeOK
PROPERTIES
  FleetIsOperators
  HistoryGoesWithBattery
  OldStateGoes
CHECK_DEADLOCK FALSE
