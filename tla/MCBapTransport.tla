--------------------------- MODULE MCBapTransport ---------------------------
(* Small values of BapTransport's constants for TLC.                       *)
EXTENDS BapTransport

MCGroups == {0, 1}
=============================================================================
