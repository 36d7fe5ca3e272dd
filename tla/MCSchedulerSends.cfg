SPECIFICATION Spec
CONSTANTS
  b1 = b1
  b2 = b2
  None = None
  HoursPerDay = 3
  EtaNum = 9
  EtaDen = 10
  DefaultPrice = 80
  Specs <- SlowSpecs
  Fleet <- MCFleet
  FirstHour = 2
  LastDay = 1
  AskedDays = {1}
  FetchHour = 2
  Market <- Valley
  Forced <- MCForced
  MaxCalls = 0
  Readings <- MCReadings
  Outcomes = {"ok"}
  StopOutcomes = {"ok"}
PROPERTY
  SendsEveryCommand
CHECK_DEADLOCK FALSE
