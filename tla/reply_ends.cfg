CONSTANTS
  Retries = {TRUE, FALSE}
  Finals <- MCFinals
  MaxTurns = 2
  Cutoff = 1
  MaxPrompts = 1
  MaxCalls = 2
  MaxItems = 2
  MaxCompactions = 1
  MaxElicits = 1
  MaxClock = 1
SPECIFICATION Spec
INVARIANTS
  ReloadAgreesInASecond
PROPERTY
  Finishes
CHECK_DEADLOCK FALSE
