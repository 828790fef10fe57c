SPECIFICATION Spec
CONSTANTS
  Capacity = 2
  Configs <- MCConfigs
  MaxTime = 4
  MaxFailures = 2
  MaxDrops = 1
INVARIANTS
  NoStaleOnset
PROPERTIES
  RecoveredIsAdmitted
  RefusalIsEarned
