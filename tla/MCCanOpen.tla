------------------------------ MODULE MCCanOpen ------------------------------
(* Small values of CanOpen's constants for TLC.  On a calm bus: reads and     *)
(* writes at one node.  On another: a job that may leave a frame, or answer   *)
(* late, and then one that must not take it for its own.                      *)
EXTENDS CanOpen

MCTasks == {"t1", "t2"}
MCNodes == {"n1", "n2"}
MCRegisters == {"a", "b"}
MCLong == {"b"}
MCValues == {"v", "w"}
Timely ==
  {j \in Jobs :
     /\ j.node = "n1"
     /\ \/ j.type = "read" /\ (j.room > 0 \/ j.client = "async")
        \/ j.type = "write" /\ (j.arg = "w" \/ j.client = "sync")
     /\ j.client = "async" => j.reg = "b"}
Leaving ==
  {j \in Jobs :
     /\ j.id = 1 /\ j.client = "async"
     /\ \/ j.type = "read" /\ j.reg = "b" /\ j.room = 0 /\ j.node = "n1"
        \/ j.type = "hb" /\ j.node = "n2"
        \/ j.type = "nmt" /\ j.wait /\ j.arg # "Stop" /\ j.node = "n2"}
Misled ==
  {j \in Jobs :
     /\ j.id > 1 /\ j.node = "n1"
     /\ \/ j.type = "read" /\ j.reg = "a" /\ j.room > 0 /\ j.client = "async"
        \/ j.type = "nmt" /\ j.wait /\ j.arg # "PreOp" /\ j.client = "sync"}
MCUses(onCalm) == IF onCalm THEN Timely ELSE Leaving \cup Misled
MCCommands == {"Stop", "PreOp"}
MCStart == {"Start"}
=============================================================================
