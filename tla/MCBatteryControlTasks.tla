----------------------- MODULE MCBatteryControlTasks ------------------------
(* Small values of BatteryControlTasks's constants for TLC.                *)
EXTENDS BatteryControlTasks

MCAmps == {13}
MCCurrents == {10}
MCRests == {"r1"}
=============================================================================
