-------------------------- MODULE MCBatteryControl --------------------------
(* Small values of BatteryControl's constants for TLC.                     *)
EXTENDS BatteryControl

\* 7 A snaps to 5 A and 200 A to the 32 A ceiling.
MCAmps == {7, 200}
\* A value of the car's own set, and one above the hard limit.
MCCurrents == {10, 40}
MCRests == {"r1"}
=============================================================================
