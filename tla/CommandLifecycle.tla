-------------------------- MODULE CommandLifecycle --------------------------
(***************************************************************************)
(* What a BatteryControl command promises its user, with nothing said of   *)
(* BAP: a command gets one verdict, the wake bridge it opened is released  *)
(* within Window seconds, and the user is notified exactly when it is      *)
(* released without a confirmation.  BatteryControl implements this (its   *)
(* definition Lifecycle, and theorem ImplementsLifecycle).                 *)
(***************************************************************************)
EXTENDS Integers

CONSTANT Window   \* VWEGOLF_BATCTRL_WAKE_SECS

VARIABLES
  verdict,    \* "none" (no command), "pending", "confirmed", "rejected"
  remaining,  \* seconds the bridge is still held for
  notice      \* notification raised by the last step

lifevars == <<verdict, remaining, notice>>

LifeInit == verdict = "none" /\ remaining = 0 /\ notice = "none"

\* A new command starts over, whatever is in flight.
Start == verdict' = "pending" /\ remaining' = Window /\ notice' = "none"

Refuse == notice' = "blocked" /\ UNCHANGED <<verdict, remaining>>

Cancel == verdict' = "none" /\ remaining' = 0 /\ notice' = "none"

\* The verdict falls once; a grace of a second or two is left.
Confirm ==
  /\ verdict = "pending"
  /\ verdict' = "confirmed" /\ notice' = "none"
  /\ remaining' \in {r \in 1..2 : r <= remaining}

Reject ==
  /\ verdict = "pending"
  /\ verdict' = "rejected" /\ notice' = "none"
  /\ remaining' = 1

\* An error after the verdict may only release the bridge sooner.
Hasten ==
  /\ verdict \in {"confirmed", "rejected"}
  /\ remaining' = 1 /\ notice' = "none"
  /\ UNCHANGED verdict

Second ==
  /\ remaining > 1
  /\ remaining' = remaining - 1 /\ notice' = "none"
  /\ UNCHANGED verdict

Release ==
  /\ remaining = 1
  /\ verdict' = "none" /\ remaining' = 0
  /\ notice' = IF verdict = "confirmed" THEN "none" ELSE "failure"

\* Steps of the controller the user does not see.
Inner == notice' = "none" /\ UNCHANGED <<verdict, remaining>>

LifeNext == \/ Start \/ Refuse \/ Cancel \/ Confirm \/ Reject \/ Hasten
            \/ Second \/ Release \/ Inner

LifeSpec == LifeInit /\ [][LifeNext]_lifevars
=============================================================================
