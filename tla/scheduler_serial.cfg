SPECIFICATION FairSpec
CONSTANTS
  JobIds = {j1}
  Callers = {c1}
  Firings = {f1}
  Crons = {daily, hourly}
  BadCrons = {bad}
  Uuids = {u1, u2, u3}
  None = None
  Lost = Lost
  MaxCrashes = 1
  MayAsk = TRUE
  MaxFailures = 1
CHECK_DEADLOCK FALSE
INVARIANTS
  TypeOK
  OneEntryPerJob
  RecipeKept
  DiskAgrees
PROPERTIES
  RestartKeepsJobs
  KillTerminates
