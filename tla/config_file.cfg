SPECIFICATION Spec
CONSTANTS
  c1 = c1
  c2 = c2
  k = k
  shipped = shipped
  Callers <- MCCallers
  Keys <- MCKeys
  Shipped <- MCShipped
  Defaults <- MCDefaults
  Backups = 1
  Bad = Bad
  NotUtf8 = NotUtf8
  None = None
CONSTRAINT GoneOnFrom
SYMMETRY Symmetric
INVARIANTS TypeOK BackupRecent
PROPERTY AsSettings
