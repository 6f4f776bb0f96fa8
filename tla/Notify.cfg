CONSTANTS
  Web <- MCWeb
  Push = "pushover"
  Server = "ovmsv2"
  MaxId = 3
  JobSize = 1
  BacklogSize = 1
  None = None
SPECIFICATION FairSpec
INVARIANTS
  TypeOK
  Accounted
  HeldIsAliveElse
PROPERTIES
  EntriesDrain
CHECK_DEADLOCK FALSE
