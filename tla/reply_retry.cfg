CONSTANTS
  Retries = {TRUE, FALSE}
  Finals <- MCFinals
  MaxTurns = 2
  Cutoff = 1
  MaxPrompts = 1
  MaxCalls = 2
  MaxItems = 1
  MaxCompactions = 1
  MaxElicits = 1
  MaxClock = 1
SPECIFICATION Spec
PROPERTY
  RetryProceeds
CHECK_DEADLOCK FALSE
