SPECIFICATION FairSpec
CONSTANTS
  c1 = c1
  c2 = c2
  p1 = p1
  p2 = p2
  i1 = i1
  i2 = i2
  i3 = i3
  NoId = NoId
  StopId = StopId
  Callers = {c1, c2}
  Plants = {p1}
  Ids = {i1, i2}
INVARIANT
  TypeOK
PROPERTIES
  InProgressRefused
  AskingUnlocks
