SPECIFICATION Spec
CONSTANTS
  JobIds = {j1}
  Callers = {c1, c2}
  Firings = {f1}
  Crons = {daily}
  BadCrons = {}
  Uuids = {u1, u2}
  None = None
  Lost = Lost
  MaxCrashes = 1
  MayAsk = FALSE
  MaxFailures = 1
SYMMETRY Symmetry
CHECK_DEADLOCK FALSE
INVARIANTS
  TokenLive
  FlagBacked
  SessionLive
  DiskAgrees
