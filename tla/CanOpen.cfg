CONSTANTS
  Tasks <- MCTasks
  Nodes <- MCNodes
  Registers <- MCRegisters
  Long <- MCLong
  Values <- MCValues
  Commands <- MCCommands
  MaxTries = 2
  QueueSize = 1
  DoneSize = 1
  Uses <- MCUses
  MaxJobs = 2
  Depth = 2
  Back = 1
  None = None
SPECIFICATION FairSpec
INVARIANTS
  TypeOK
  OkIsReal
PROPERTIES
  OwnResult
  JobsEnd
CHECK_DEADLOCK FALSE
