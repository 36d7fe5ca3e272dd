SPECIFICATION FairSpec
CONSTANTS
  b1 = b1
  b2 = b2
  None = None
  HoursPerDay = 3
  EtaNum = 9
  EtaDen = 10
  DefaultPrice = 80
  Specs <- MCSpecs
  Fleet <- MCFleet
  FirstHour = 2
  LastDay = 1
  AskedDays = {1}
  FetchHour = 2
  Market <- MCMarket
  Forced <- MCForced
  MaxCalls = 1
  Readings <- MCReadings
  Outcomes = {"ok", "lost"}
  StopOutcomes = {"ok", "unsent"}
INVARIANTS
  TypeOK
  PlansFeasible
PROPERTIES
  TurnEndsOldCommand
  ReplansFromReading
  LoopsGoOn
CHECK_DEADLOCK FALSE
