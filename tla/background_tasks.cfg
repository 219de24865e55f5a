\* Two calls at a time and three sub-agents, with a limit of one.
CONSTANTS
  Callers = {c1, c2}
  Tasks = {1, 2, 3}
  MaxTasks = 1
  None = None
SPECIFICATION Spec
INVARIANTS TypeOK OnePlace NoneUnattended LimitBound NotFoundAlone
PROPERTY CallsReturn
CHECK_DEADLOCK FALSE
