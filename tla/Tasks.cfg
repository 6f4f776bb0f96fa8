CONSTANTS
  WakeSecs = 2
  RetrySecs = 2
  Amps <- MCAmps
  Currents <- MCCurrents
  Rests <- MCRests
SPECIFICATION TaskSpec
INVARIANTS
  CommandNotLost
