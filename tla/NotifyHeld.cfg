CONSTANTS
  Web <- MCWeb
  Push = "pushover"
  Server = "ovmsv2"
  MaxId = 3
  JobSize = 1
  BacklogSize = 1
  None = None
SPECIFICATION Spec
INVARIANTS
  HeldIsAlive
CHECK_DEADLOCK FALSE
