SPECIFICATION Spec
CONSTANTS
  Replies = {r1}
  Ids = {1, 2}
  Tools = {shell, read, plan, bad}
  Dangerous = {shell}
  ReadOnly = {read}
  Eager = {plan}
  Unparsable = {bad}
  Modes = {"Auto", "Approve", "Chat"}
  OtherVerdicts = {"Allow", "Ask"}
  InitLevels <- MCLevels
  Capacity = 2
  MaxBatch = 2
  MaxRepeats = 1
  None = None
PROPERTIES
  Settles
CHECK_DEADLOCK FALSE
