SPECIFICATION FairSpec
CONSTANTS
  Agent = {a1}
  Proc = {p1, p2}
  Task = {k1}
  Viewer = {v1}
  NoOne = NoOne
  Allocation = Allocation
  Capacity = 1
  MaxGen = 1
PROPERTIES
  RequestsFinish
CHECK_DEADLOCK FALSE
