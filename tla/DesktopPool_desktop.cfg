SPECIFICATION Spec
CONSTANTS
  Agent = {a1}
  Proc = {p1, p2, p3}
  Task = {k1}
  Viewer = {v1}
  NoOne = NoOne
  Allocation = Allocation
  Capacity = 1
  MaxGen = 1
SYMMETRY Symmetry
INVARIANTS
  TypeOK
  ActionsAreOwned
PROPERTIES
  OwnershipIsFresh
CHECK_DEADLOCK FALSE
