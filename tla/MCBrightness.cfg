SPECIFICATION Spec
CONSTANTS
  Ids <- MCIds
  MaxGap = 2
  Denied = {2}
  VideoBus = {0, 3}
  All = FALSE
  Size = 3
  Min = 1
  Max = 3
  Steps = 4
  Levels = {0, 3}
  MaxRecords = 2
  MaxFaults = 2
  None = None
INVARIANTS
  TypeOK
  RecordsWhole
  ReadyForAll
  ScanBridgesGaps
PROPERTIES
  KeyMovesLevel
  EveryRecordRead
CHECK_DEADLOCK FALSE
