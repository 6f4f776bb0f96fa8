------------------------------- MODULE MCBoot -------------------------------
(* Small values of Boot's constants for TLC.                               *)
EXTENDS Boot

MCOrder == <<"poller", "modem">>
MCOwnTask == {"modem"}
MCOnce == {"poller"}
MCUpdates == {"partition"}
=============================================================================
