SPECIFICATION EdgesSpec
CONSTANTS
  Part = {"actions", "history", "files", "images", "access", "stream", "keepers", "approvals"}
  Request = {r1, r2}
  Approver = {a1, a2}
  Field = {f1}
  OneTime = {f1}
  Key = {k1, k2}
  MaxRestarts = 1
  Speech = {x1, x2}
  Batch = 2
  MaxRows = 3
  MaxWire = 1
  MaxRestores = 1
  MaxLost = 1
  Path = {p1, p2}
  Blob = {x1, x2}
  MaxShell = 2
  MaxHops = 2
  MaxPolls = 2
  Nonce = {n1, n2}
  Login = {s1, s2}
  LinkLife = 1
  IdleLife = 3
  Cadence = 2
  MaxClock = 3
  MaxAsking = 2
  PageSize = 2
  MaxEvents = 4
  MaxAttempts = 2
  Call = {c1, c2}
  Keeper = {h1, h2, h3}
  MaxGeneration = 2
  MaxStray = 2
  Job = {t1, t2}
  ApprovalId = {q1}
  Decider = {d1, d2}
  MaxApps = 2
SYMMETRY Symmetry
INVARIANTS
  TypesOK
  StatusIsHonest
  DispatchedAsReviewed
  FieldsAreSafe
  ArchiveIsFaithful
  FilesMatchRows
  
  SessionsFollowUse
  WatchIsExact
  LeaseStaysReleased
  ApprovalsFollowTurns
PROPERTIES
  ActionsImplementOnce
CHECK_DEADLOCK FALSE
