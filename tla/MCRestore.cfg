SPECIFICATION BackupSpec
CONSTANTS
  Creds = {c1, c2}
  Objects <- MCObjects
  Imports = {i1, i2}
  MaxKills = 1
  Nothing = Nothing
CHECK_DEADLOCK FALSE
INVARIANT RestoreIsWhole
