CONSTANTS
  Retries = {FALSE}
  Finals <- NoFinals
  MaxTurns = 2
  Cutoff = 1
  MaxPrompts = 2
  MaxCalls = 2
  MaxItems = 2
  MaxCompactions = 1
  MaxElicits = 0
  MaxClock = 2
SPECIFICATION Spec
INVARIANTS
  TypeOK
  MemoryStored
  SentPaired
  PromptsKept
CHECK_DEADLOCK FALSE
