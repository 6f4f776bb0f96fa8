----------------------------- MODULE MCVWeGolf ------------------------------
(* Small values of VWeGolf's constants for TLC.                            *)
EXTENDS VWeGolf

MCRequests == {"mirror", "horn", "lock"}
MCClients == {"shell", "server"}
=============================================================================
