SPECIFICATION FairSpec
CONSTANTS
  None = None
  w1 = w1
  w2 = w2
  script = script
  Workers = {w1, w2}
  Script = script
  FirstDay = 1
  LastDay = 2
  BackfillDays = 2
  BackfillOn = {1}
  ZoneList <- MCZoneList
  Nord = "NORD"
  Pun = "PUN"
  HoursPerDay = 2
  Feed <- MCFeed
  Estimate = 80
  CommitOutcomes = {"ok", "lost", "unseen"}
  MaxRestarts = 1
INVARIANTS
  TypeOK
  NothingInvented
PROPERTIES
  CurveIsFinal
  BackfillRepairs
  FetchersGoOn
CHECK_DEADLOCK FALSE
