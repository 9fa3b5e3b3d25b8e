SPECIFICATION WSpec
CONSTANTS
  SoftLimit = 0
  HardLimit = 2
  PageSize = 1
  RepairLimit = 1
  MaxLog = 6
  MaxTraces = 2
  MaxOpens = 2
  MaxPages = 1
  MaxResumes = 1
INVARIANTS WindowIsWhole CurrentWhenQuiet
CHECK_DEADLOCK FALSE
