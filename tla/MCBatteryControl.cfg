CONSTANTS
  WakeSecs = 4
  RetrySecs = 2
  Amps <- MCAmps
  Currents <- MCCurrents
  Rests <- MCRests
SPECIFICATION Spec
INVARIANTS
  TypeOK
  HardCap
  BridgeHeld
  TriggerGated
  NotHammered
PROPERTIES
  VerdictStands
  ImplementsLifecycle
