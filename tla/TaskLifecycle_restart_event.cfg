SPECIFICATION Spec
CONSTANTS
  Task = {t1, t2}
  Request = {r1}
  Canceller = {c1}
  NoTask = NoTask
  NoRequest = NoRequest
  MaxChildren = 1
  Proposer = {}
SYMMETRY Symmetry
INVARIANTS
  TerminalRowHasEvent
