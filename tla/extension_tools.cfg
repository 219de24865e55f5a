\* Three tasks on one agent, up to two changes of its extensions.
CONSTANTS
  Keys <- MCKeys
  Configs <- MCConfigs
  None = None
  Nobody = Nobody
  Tasks = {t1, t2, t3}
  MaxChanges = 2
SYMMETRY Perms
SPECIFICATION Spec
INVARIANTS TypeOK CacheCurrent ShownToolRuns
PROPERTY Listing
CHECK_DEADLOCK FALSE
