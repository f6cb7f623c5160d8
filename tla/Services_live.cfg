SPECIFICATION ServicesFairSpec
CONSTANTS
  Part = {"routines", "turns"}
  Name = {n1}
  Author = {t1}
  Text = {x1}
  MaxRev = 1
  Click = {m1, m2}
  MaxTime = 2
  MaxRevision = 2
  MaxPauses = 0
  MaxFaults = 2
  Task = {u1, u2}
  Conversation = {{u1}, {u2}}
  Helper = {u2}
  Compacted = {}
  MaxRoots = 1
  Slow = FALSE
  Bot = {b1, b2, b3}
  Retiring = {b1}
  Uploader = {b1}
  Letter = {k1}
  MaxChildren = 1
  MaxChats = 2
  MaxMessages = 3
  MaxSecond = 1
  MaxImports = 2
  Page = 1
  Visibility = {g, p}
  Shared = g
  Snapshot = {x1, x2}
  MaxEntries = 4
PROPERTIES
  ClaimsSettle
  TurnsEnd
CHECK_DEADLOCK FALSE
