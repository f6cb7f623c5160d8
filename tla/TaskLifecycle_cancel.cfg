SPECIFICATION Spec
CONSTANTS
  Task = {t1, t2}
  Request = {r1}
  Canceller = {c1, c2}
  NoTask = NoTask
  NoRequest = NoRequest
  MaxChildren = 1
  Proposer = {t1, t2}
SYMMETRY Symmetry
INVARIANTS
  TypeOK
  IInv
  ResultsAgree
PROPERTIES
  TerminalIsFinal
