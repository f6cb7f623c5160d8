SPECIFICATION Spec
CONSTANTS
  Agent = {a1}
  Proc = {p1}
  Task = {k1}
  Viewer = {v1}
  NoOne = NoOne
  Allocation = Allocation
  Capacity = 1
  MaxGen = 3
SYMMETRY Symmetry
INVARIANTS
  ActionsAreViewOnly
CHECK_DEADLOCK FALSE
