---------------------------- MODULE MCOvmsNotify ----------------------------
(* Small values of OvmsNotify's constants for TLC.                         *)
EXTENDS OvmsNotify

MCWeb == {"w1", "w2"}
=============================================================================
