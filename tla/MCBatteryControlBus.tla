------------------------ MODULE MCBatteryControlBus -------------------------
(* Small values of BatteryControlBus's constants for TLC.                  *)
EXTENDS BatteryControlBus

MCAmps == {13}
MCNoAmps == {}
MCCurrents == {10, 13}
MCRests == {"r1"}
MCOneCurrent == {10}
MCTwoRests == {"r1", "r2"}
=============================================================================
