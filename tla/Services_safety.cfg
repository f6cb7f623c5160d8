SPECIFICATION ServicesSpec
CONSTANTS
  Part = {"skills", "routines", "turns", "groups", "homes", "memory"}
  Name = {n1}
  Author = {t1, t2}
  Text = {x1, x2}
  MaxRev = 3
  Click = {m1, m2}
  MaxTime = 2
  MaxRevision = 2
  MaxPauses = 2
  MaxFaults = 2
  Task = {u1, u2}
  Conversation = {{u1, u2}}
  Helper = {}
  Compacted = {{u1, u2}}
  MaxRoots = 1
  Slow = FALSE
  Bot = {b1, b2, b3}
  Retiring = {b1}
  Uploader = {b1}
  Letter = {k1}
  MaxChildren = 1
  MaxChats = 2
  MaxMessages = 2
  MaxSecond = 1
  MaxImports = 2
  Page = 1
  Visibility = {g, p}
  Shared = g
  Snapshot = {x1, x2}
  MaxEntries = 3
SYMMETRY Symmetry
INVARIANTS
  TypesOK
  NewestWins
  NoOverlap
  NoOrphan
  GroupIsWhole
  FactsSurface
  OneImport
PROPERTIES
  HistoryIsWhole
  WorkingProcedureKept
  OnlyCurrentSends
  RoutinesImplementOnce
  WithinScope
CHECK_DEADLOCK FALSE
