SPECIFICATION Spec
CONSTANTS
  Agent = {a1, a2}
  Proc = {p1, p2}
  Task = {k1}
  Viewer = {}
  NoOne = NoOne
  Allocation = Allocation
  Capacity = 1
  MaxGen = 1
SYMMETRY Symmetry
INVARIANTS
  CapacityRespected
CHECK_DEADLOCK FALSE
