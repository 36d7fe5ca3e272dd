SPECIFICATION FairSpec
CONSTANTS
  b1 = b1
  b2 = b2
  w1 = w1
  w2 = w2
  Workers = {w1, w2}
  NoRow = NoRow
  NoPush = NoPush
  Batteries = {b1}
  Huawei = {b1}
  Dates = {1, 2}
  QHs <- OneQH
  Horizon = 1
  Calendar <- OneSlotADay
  Powers <- LivePowers
  RowPowers = {100}
  DayRows <- LiveDayRows
  MaxPower <- MCMaxPower
  ManualCommands = {}
PROPERTY
  DueGetsPushed
CHECK_DEADLOCK FALSE
