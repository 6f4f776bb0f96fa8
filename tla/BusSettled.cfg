CONSTANTS
  WakeSecs = 4
  RetrySecs = 2
  Amps <- MCAmps
  Currents <- MCOneCurrent
  Rests <- MCTwoRests
  ApplyTicks = 2
  MaxCommands = 2
  MaxLoss = 1
  MaxEdits = 1
  MayReject = TRUE
  Heartbeats = TRUE
  Overlap = FALSE
  EditsAnytime = FALSE
SPECIFICATION FairSpec
INVARIANTS
  ConfirmedIsReal
PROPERTIES
  BridgeReleased
  RunsOwnOp
  KeepsStoredSettings
