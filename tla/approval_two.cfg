SPECIFICATION Spec
CONSTANTS
  Replies = {r1, r2}
  Ids = {1, 2}
  Tools = {shell, plan}
  Dangerous = {shell}
  ReadOnly = {}
  Eager = {plan}
  Unparsable = {}
  Modes = {"Approve"}
  OtherVerdicts = {"Allow", "Ask"}
  InitLevels <- MCLevels
  Capacity = 2
  MaxBatch = 2
  MaxRepeats = 1
  None = None
SYMMETRY Symmetry
INVARIANTS
  TypeOK
  RunsOnlyIfAllowed
  OneResponseEach
CHECK_DEADLOCK FALSE
