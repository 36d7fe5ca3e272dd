SPECIFICATION Spec
CONSTANTS
  b1 = b1
  b2 = b2
  w1 = w1
  w2 = w2
  Workers = {w1, w2}
  NoRow = NoRow
  NoPush = NoPush
  Batteries = {b1}
  Huawei = {b1}
  Dates = {1, 2}
  QHs <- MCQHs
  Horizon = 2
  Calendar <- Midnight
  Powers <- MCPowers
  RowPowers = {}
  DayRows <- MCDayRows
  MaxPower <- MCMaxPower
  ManualCommands <- MCManualCommands
INVARIANTS
  TypeOK
  OneDayOfMarkers
  RowInHandIsNew
PROPERTIES
  SlotsInOrder
  ImplementsLedger
SYMMETRY WorkersAlike
CHECK_DEADLOCK FALSE
