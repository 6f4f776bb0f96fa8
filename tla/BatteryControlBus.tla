------------------------- MODULE BatteryControlBus --------------------------
(***************************************************************************)
(* VWeGolfBatteryControl talking to the battery control unit.              *)
(*                                                                         *)
(* BatteryControl's handlers run against a model of the BCU built from     *)
(* what the component's code and docs/bat-ctrl-bap.md say the unit does on *)
(* the car: it acknowledges the channel-open handshake, drops a GET that   *)
(* comes before that acknowledgement, applies a profile-0 write some time  *)
(* after it received it and only then echoes it, runs whatever operation   *)
(* profile 0 holds when a trigger comes, echoes the trigger or rejects it, *)
(* and sends a heartbeat that looks like a handshake acknowledgement.  The *)
(* two directions are FIFO and lose telegrams; the driver may refuse one.  *)
(*                                                                         *)
(* Time is the one-second tick: what takes less than a second happens      *)
(* between two ticks, and a write is applied before ApplyTicks ticks have  *)
(* passed since it was received.                                           *)
(***************************************************************************)
EXTENDS BatteryControl, Sequences

CONSTANTS
  ApplyTicks,   \* ticks within which the BCU applies a write
  MaxCommands,  \* bound: commands issued in a behaviour
  MaxLoss,      \* bound: telegrams lost or refused in a behaviour
  MaxEdits,     \* bound: profile-0 edits by the car's own display
  MayReject,    \* whether the BCU may answer a start with an ERROR
  Heartbeats,   \* whether its periodic frames may be "49 42" heartbeats
  Overlap,      \* commands may be issued before the last one has settled
  EditsAnytime  \* the display may edit profile 0 while a command runs

ASSUME BoundsAssumption ==
  /\ ApplyTicks \in Nat \ {0}
  /\ {MaxCommands, MaxLoss, MaxEdits} \subseteq Nat
  /\ {MayReject, Heartbeats, Overlap, EditsAnytime} \subseteq BOOLEAN

VARIABLES
  to_bcu,     \* telegrams on 0x17332501, each with the command it serves
  to_module,  \* status elements on 0x17332510
  channel,    \* "closed", "acking" (handshake received), "open"
  store,      \* the BCU's profile 0
  pending,    \* writes received and not yet applied, with their age in ticks
  running,    \* the operations that run
  awake,      \* the comfort bus is up
  beat,       \* a periodic frame is due
  ran,        \* history: the last trigger executed
  commands, losses, edits

bcu == <<channel, store, pending, running, awake, beat, ran>>
bounds == <<commands, losses, edits>>
sysvars == <<vars, to_bcu, to_module, bcu, bounds>>

\* A telegram, the command it was sent for, and the operation that wants.
Entry(t) == [tel |-> t, cmd |-> commands',
             want |-> Target(op, apply, profile0'.operation)]

NoRun == [cmd |-> 0, flag |-> FALSE, operation |-> {}]

\* The display's other fields at first: which they are makes no difference.
FirstRest == CHOOSE r \in Rests : TRUE

SysInit ==
  /\ Init
  /\ to_bcu = <<>> /\ to_module = <<>>
  /\ channel = "closed" /\ pending = <<>> /\ running = {}
  /\ store \in {p \in Profile : p.maxCurrent <= HardLimit /\ p.rest = FirstRest}
  /\ awake = FALSE /\ beat = FALSE /\ ran = NoRun
  /\ commands = 0 /\ losses = 0 /\ edits = 0

-----------------------------------------------------------------------------
(* The controller's steps, with what they put on the bus.                  *)

Put == to_bcu' = IF sent' = Nothing THEN to_bcu ELSE Append(to_bcu, Entry(sent'))

\* A transmission refused by the driver counts as a loss.
Refused(tried) == tried /\ sent' = Nothing /\ tx_fail'

CountLoss(lost) ==
  /\ losses' = IF lost THEN losses + 1 ELSE losses
  /\ losses' <= MaxLoss

\* Nothing of an earlier command is left anywhere.
Settled == /\ wake_hold = 0 /\ to_bcu = <<>> /\ to_module = <<>>
           /\ pending = <<>> /\ channel # "acking"

Issue ==
  /\ commands < MaxCommands /\ (Overlap \/ Settled)
  /\ \/ \E on \in BOOLEAN : Climate(on) \/ Charge(on)
     \/ \E amps \in Amps : SetChargeCurrent(amps)
  /\ commands' = commands + 1
  /\ awake' = TRUE
  /\ beat' = TRUE
  /\ UNCHANGED <<to_bcu, to_module, channel, store, pending, running, ran,
                 losses, edits>>

UserAbort ==
  /\ wake_hold > 0 /\ Abort
  /\ UNCHANGED <<to_bcu, to_module, bcu, bounds>>

\* What takes less than a second is over before the tick.
BusQuiet ==
  /\ to_bcu = <<>> /\ to_module = <<>>
  /\ channel # "acking" /\ ~(awake /\ beat)
  /\ \A i \in DOMAIN pending : pending[i].age < ApplyTicks

Tick ==
  /\ BusQuiet
  /\ Ticker1(awake)
  /\ UNCHANGED <<commands, edits>>
  /\ Put
  /\ CountLoss(wake_hold > 0 /\ RetryDue /\
               Refused(phase \notin {"CP_IDLE", "CP_WAKE", "CP_DONE"}))
  /\ pending' = [i \in DOMAIN pending |->
                   [pending[i] EXCEPT !.age = @ + 1]]
  /\ beat' = awake
  /\ UNCHANGED <<to_module, channel, store, running, awake, ran>>

Receive ==
  /\ to_module # <<>>
  /\ IncomingBapStatus(Head(to_module))
  /\ to_module' = Tail(to_module)
  /\ UNCHANGED <<commands, edits>>
  /\ Put
  /\ CountLoss(Refused(TRUE))
  /\ UNCHANGED bcu

\* The clima ECU and the charger report what runs.
Report ==
  /\ awake
  /\ \/ /\ hvac # ("PO_CLIMATE" \in running)
        /\ IncomingClimaEcuStatus("PO_CLIMATE" \in running)
     \/ /\ charging # ("PO_CHARGING" \in running)
        /\ ChargeStatus("PO_CHARGING" \in running)
  /\ UNCHANGED <<to_bcu, to_module, bcu, bounds>>

Lose ==
  /\ CountLoss(TRUE)
  /\ \/ to_bcu # <<>> /\ to_bcu' = Tail(to_bcu) /\ UNCHANGED to_module
     \/ to_module # <<>> /\ to_module' = Tail(to_module) /\ UNCHANGED to_bcu
  /\ UNCHANGED <<vars, bcu, commands, edits>>

-----------------------------------------------------------------------------
(* The battery control unit.                                               *)

Say(e) == to_module' = Append(to_module, e)

Ack == Telegram("ack", FALSE, Unset)

BcuStep(type) ==
  /\ awake /\ to_bcu # <<>> /\ Head(to_bcu).tel.type = type
  /\ to_bcu' = Tail(to_bcu)
  /\ UNCHANGED <<vars, awake, beat, bounds>>

BcuHandshake ==
  /\ BcuStep("handshake")
  /\ channel' = "acking"
  /\ UNCHANGED <<to_module, store, pending, running, ran>>

BcuAck ==
  /\ channel = "acking"
  /\ channel' = "open"
  /\ Say(Ack)
  /\ UNCHANGED <<vars, to_bcu, store, pending, running, awake, beat, ran,
                 bounds>>

BcuGet ==
  /\ BcuStep("get")
  /\ IF channel = "open" THEN Say(Telegram("profiles", FALSE, store))
                         ELSE UNCHANGED to_module
  /\ UNCHANGED <<channel, store, pending, running, ran>>

BcuWrite ==
  /\ BcuStep("write")
  /\ pending' = Append(pending, [profile |-> Head(to_bcu).tel.profile, age |-> 0])
  /\ UNCHANGED <<to_module, channel, store, running, ran>>

BcuApply ==
  /\ pending # <<>>
  /\ store' = Head(pending).profile
  /\ pending' = Tail(pending)
  /\ Say(Telegram("echo", FALSE, Unset))
  /\ UNCHANGED <<vars, to_bcu, channel, running, awake, beat, ran, bounds>>

\* A start or stop acts on the operation profile 0 holds at that moment.
BcuTrigger ==
  /\ BcuStep("trigger")
  /\ LET t == Head(to_bcu)
         on == t.tel.flag
     IN  \/ /\ running' = IF on THEN running \cup store.operation
                                ELSE running \ store.operation
            /\ ran' = [cmd |-> t.cmd, flag |-> on, operation |-> store.operation]
            /\ Say(Telegram("opmode", on, Unset))
         \/ /\ MayReject /\ on
            /\ Say(Telegram("error", FALSE, Unset))
            /\ UNCHANGED <<running, ran>>
  /\ UNCHANGED <<channel, store, pending>>

\* What the BCU sends unasked once a second: a status of some function, or
\* the "49 42" heartbeat, which is also the answer to a handshake.
BcuBroadcast ==
  /\ awake /\ beat
  /\ beat' = FALSE
  /\ \/ Say(Telegram("other", FALSE, Unset))
     \/ Heartbeats /\ Say(Ack)
  /\ UNCHANGED <<vars, to_bcu, channel, store, pending, running, awake, ran,
                 bounds>>

\* With the bridge released and nothing running the bus goes to sleep.
BcuSleep ==
  /\ awake /\ running = {} /\ Settled
  /\ awake' = FALSE /\ beat' = FALSE /\ channel' = "closed"
  /\ UNCHANGED <<vars, to_bcu, to_module, store, pending, running, ran, bounds>>

\* The car's own display edits another field of profile 0.
MibEdit ==
  /\ awake /\ edits < MaxEdits /\ (EditsAnytime \/ Settled)
  /\ \E r \in Rests \ {store.rest} : store' = [store EXCEPT !.rest = r]
  /\ edits' = edits + 1
  /\ UNCHANGED <<vars, to_bcu, to_module, channel, pending, running, awake,
                 beat, ran, commands, losses>>

Bcu == \/ BcuHandshake \/ BcuAck \/ BcuGet \/ BcuWrite \/ BcuApply
       \/ BcuTrigger \/ BcuBroadcast

SysNext ==
  \/ Issue \/ UserAbort \/ Tick \/ Receive \/ Report \/ Lose
  \/ Bcu \/ BcuSleep \/ MibEdit

SysSpec == SysInit /\ [][SysNext]_sysvars

\* The events task ticks, the driver delivers and the BCU answers.
FairSpec == SysSpec /\ WF_sysvars(Tick) /\ WF_sysvars(Receive) /\ WF_sysvars(Bcu)

-----------------------------------------------------------------------------
(* Properties.                                                             *)

\* A start or a stop acts on the operation its command asked for: the BCU is
\* never triggered on a profile 0 that holds another operation, the reason for
\* holding the trigger until the write is echoed (docs/bat-ctrl-bap.md, "the
\* trigger WAITS for the arm-write echo").
RunsOwnOp == [][BcuTrigger => store.operation = Head(to_bcu).want]_sysvars

\* A confirmation is real: the BCU executed this command's own trigger, on or
\* off as asked and on the operation asked for; a write-only current change is
\* in the BCU's profile.
ConfirmedIsReal ==
  confirmed =>
    /\ op # "BC_SET_CURRENT" \/ apply =>
         ran = [cmd |-> commands, flag |-> enable,
                operation |-> Target(op, apply, profile0.operation)]
    /\ op = "BC_SET_CURRENT" => store.maxCurrent = param

\* A command does not fail for want of an answer while the wake window is long
\* enough to repeat what was lost; with one exception.  The periodic "49 42" is
\* taken for the acknowledgement of a handshake that was lost: then only the GET
\* is repeated, and the BCU, whose channel is closed, drops it to the end.
NoFalseFailure ==
  [][Tick /\ alert' \in {"tx_error", "no_profile", "timeout"} =>
       /\ Heartbeats /\ losses > 0
       /\ phase = "CP_PROFILE" /\ channel = "closed"]_sysvars

\* A write puts back the other fields of profile 0 as they are in the car
\* ("Re-encoding the car's own bytes means no other stored setting can be
\* clobbered", SendArm).
KeepsStoredSettings ==
  [][BcuApply => /\ store'.rest = store.rest
                 /\ op # "BC_SET_CURRENT" => store'.maxCurrent = store.maxCurrent]_sysvars

\* Every command ends: the NM wake bridge it holds is released.
BridgeReleased == wake_hold > 0 ~> wake_hold = 0
=============================================================================
