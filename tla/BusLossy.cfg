CONSTANTS
  WakeSecs = 20
  RetrySecs = 2
  Amps <- MCAmps
  Currents <- MCCurrents
  Rests <- MCRests
  ApplyTicks = 2
  MaxCommands = 1
  MaxLoss = 4
  MaxEdits = 0
  MayReject = FALSE
  Heartbeats = TRUE
  Overlap = FALSE
  EditsAnytime = FALSE
SPECIFICATION SysSpec
PROPERTIES
  NoFalseFailure
