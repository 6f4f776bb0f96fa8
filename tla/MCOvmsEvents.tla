---------------------------- MODULE MCOvmsEvents ----------------------------
(* Small values of OvmsEvents' constants for TLC.                          *)
EXTENDS OvmsEvents

MCHandlers == {"h1", "h2"}
MCCaller == [h1 |-> "vehicle", h2 |-> "logger"]
MCOn == [h1 |-> "boot", h2 |-> "*"]
MCSigs == {"s1", "tick"}
MCNameOf == [s1 |-> "boot", tick |-> "ticker.1"]
MCTickers == {"ticker.1"}
MCTasks == {"shell"}
MCTimers == {"t1", "t2"}
=============================================================================
