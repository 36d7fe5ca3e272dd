SPECIFICATION Spec
CONSTANTS
  b1 = b1
  b2 = b2
  s1 = s1
  r1 = r1
  r2 = r2
  Batteries = {b1, b2}
  Sites = {s1}
  Requests = {r1, r2}
  NoRow = NoRow
  Manual = Manual
  ManualSlots <- TwoSlots
  ManualPowers = {100}
  Dates = {1}
  QHs <- MCQHs
  Horizon = 0
  Calendar <- OneDay
  SiteOf <- MCSiteOf
  Schedules <- MCSchedules
PROPERTY
  SiteDayReplaced
CHECK_DEADLOCK FALSE
