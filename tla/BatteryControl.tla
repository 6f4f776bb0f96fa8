--------------------------- MODULE BatteryControl ---------------------------
(***************************************************************************)
(* VWeGolfBatteryControl (vehicle_vwegolf_bat_ctrl.{h,cpp}): the command   *)
(* state machine that starts and stops remote climate and charging, and    *)
(* sets the charge current, by BAP telegrams to the battery control unit   *)
(* (BCU).  Each handler of the class is one action.  Its inputs are not    *)
(* constrained here: the BCU may say anything at any time, a transmission  *)
(* may be refused, the tick, the frames and the commands come in any       *)
(* order.  BatteryControlBus composes this module with the BCU and a lossy *)
(* bus.                                                                    *)
(*                                                                         *)
(* A step's outputs are the variables sent (the telegram put on the bus,   *)
(* at most one a step), nm (an NM wake frame went out) and alert (the      *)
(* notification raised): they describe the step that led to the state.     *)
(***************************************************************************)
EXTENDS Integers, FiniteSets

CONSTANTS
  WakeSecs,   \* VWEGOLF_BATCTRL_WAKE_SECS, 20 in the build
  RetrySecs,  \* VWEGOLF_BATCTRL_RETRY_SECS, 2 in the build
  Amps,       \* the currents a user may ask for
  Currents,   \* the maxCurrent bytes the BCU may report
  Rests       \* what the record's other bytes may be, as opaque values

ASSUME SecsAssumption == WakeSecs \in Nat \ {0} /\ RetrySecs \in Nat \ {0}
ASSUME CurrentsAssumption == Amps \subseteq Nat /\ Currents \subseteq 0..255

VARIABLES
  phase, op, param, enable, apply,   \* the command in flight
  have_profile0, profile0,           \* the record read for it
  arm_skipped, confirmed, error, tx_fail,
  wake_hold, phase_secs,             \* Ticker1's two counters
  hvac, charging, climit,            \* v.e.hvac, v.c.charging, v.c.climit
  sent, nm, alert,                   \* outputs of the last step
  writes, acked                      \* history of the command: accepted
                                     \* profile-0 writes; one was echoed

command == <<op, param, enable, apply>>
metrics == <<hvac, charging, climit>>
history == <<writes, acked>>
vars == <<phase, command, have_profile0, profile0, arm_skipped, confirmed,
          error, tx_fail, wake_hold, phase_secs, metrics, sent, nm, alert,
          history>>

Ops == {"BC_CLIMATE", "BC_CHARGE", "BC_SET_CURRENT"}
Phases == {"CP_IDLE", "CP_WAKE", "CP_HANDSHAKE", "CP_PROFILE", "CP_ARM_WAIT",
           "CP_CONFIRM", "CP_DONE"}

-----------------------------------------------------------------------------
(* The profile record and what a command writes into it.                   *)

Flags == {"PO_CHARGING", "PO_CLIMATE", "PO_ALLOW_BATTERY"}
HardLimit == 32
Steps == {5, 10, 13, 32}

Profile == [operation : SUBSET Flags, maxCurrent : Currents, rest : Rests]

Record == [operation : SUBSET Flags, maxCurrent : 0..255,
           rest : Rests \cup {"unset"}]

\* A default-constructed Profile, before any array was read.
Unset == [operation |-> {}, maxCurrent |-> 0, rest |-> "unset"]

Lesser(a, b) == IF a <= b THEN a ELSE b

Dist(a, b) == IF a > b THEN a - b ELSE b - a

clampMaxCurrent(amps) ==
  LET a == Lesser(amps, HardLimit)
  IN  CHOOSE v \in Steps :
        \A w \in Steps : \/ Dist(a, v) < Dist(a, w)
                         \/ Dist(a, v) = Dist(a, w) /\ v <= w

\* The operation bits a command makes the immediate trigger run.
Target(o, app, old) ==
  CASE o = "BC_CLIMATE"
         -> (old \cup {"PO_CLIMATE", "PO_ALLOW_BATTERY"}) \ {"PO_CHARGING"}
    [] o = "BC_CHARGE" \/ (o = "BC_SET_CURRENT" /\ app)
         -> (old \cup {"PO_CHARGING"}) \ {"PO_CLIMATE", "PO_ALLOW_BATTERY"}
    [] OTHER -> old

\* Mutant of Armed: without the hard cap, a value above it is written back.
ArmedUncapped(p) ==
  [operation  |-> Target(op, apply, p.operation),
   maxCurrent |-> IF op = "BC_SET_CURRENT" THEN param ELSE p.maxCurrent,
   rest       |-> p.rest]

\* What SendArm makes of the record p it read.
Armed(p) ==
  [operation  |-> Target(op, apply, p.operation),
   maxCurrent |-> Lesser(IF op = "BC_SET_CURRENT" THEN param ELSE p.maxCurrent,
                         HardLimit),
   rest       |-> p.rest]

\* Mutant of SkipsWrite: the operation bits are not compared.
SkipsOnCurrent(p) ==
  op # "BC_SET_CURRENT" /\ Armed(p).maxCurrent = p.maxCurrent

SkipsWrite(p) ==
  /\ op # "BC_SET_CURRENT"
  /\ Armed(p).operation = p.operation
  /\ Armed(p).maxCurrent = p.maxCurrent

-----------------------------------------------------------------------------
(* Telegrams: what the controller sends, and what it may hear.             *)

Telegram(type, flag, p) == [type |-> type, flag |-> flag, profile |-> p]

Nothing   == Telegram("none", FALSE, Unset)
Handshake == Telegram("handshake", FALSE, Unset)
GetArray  == Telegram("get", FALSE, Unset)
Write(p)  == Telegram("write", FALSE, p)
Trigger(on) == Telegram("trigger", on, Unset)

Sendable == [type : {"none", "handshake", "get", "write", "trigger"},
             flag : BOOLEAN, profile : Record]

\* Status elements of LSG 0x25, by what IncomingBapStatus tells apart:
\*   ack      "49 42" or "49 41", also the BCU's periodic heartbeat
\*   error    an ERROR opcode, on any function
\*   opmode   "49 58 <flag>"
\*   echo     "49 59 bx", the acknowledgement of a write by this client id
\*   profiles "49 59 3x", a well-formed array with a record at position 0
\*   other    everything else: other functions, other clients' arrays,
\*            empty bodies, arrays that do not decode or lack position 0
Heard ==
       {Telegram(t, FALSE, Unset) : t \in {"ack", "error", "echo", "other"}}
  \cup {Telegram("opmode", f, Unset) : f \in BOOLEAN}
  \cup {Telegram("profiles", FALSE, p) : p \in Profile}

\* One telegram handed to the CAN driver: accepted (sent or queued), or
\* refused.  fail is what tx_fail is worth before the call.
Transmit(t, fail) ==
  \/ sent' = t /\ tx_fail' = fail
  \/ sent' = Nothing /\ tx_fail' = TRUE

SendHandshake(fail) ==
  \/ Transmit(Handshake, fail)
  \/ sent' = Handshake /\ tx_fail' = TRUE   \* one of its two GETs refused

SendProfileGet(fail) == Transmit(GetArray, fail)

SendTrigger(on, fail) == Transmit(Trigger(on), fail)

Quiet == sent' = Nothing /\ nm' = FALSE /\ alert' = "none"

-----------------------------------------------------------------------------
Init ==
  /\ phase = "CP_IDLE" /\ op = "BC_CLIMATE" /\ param = 0
  /\ enable = FALSE /\ apply = FALSE
  /\ have_profile0 = FALSE /\ profile0 = Unset
  /\ arm_skipped = FALSE /\ confirmed = FALSE
  /\ error = FALSE /\ tx_fail = FALSE
  /\ wake_hold = 0 /\ phase_secs = 0
  /\ hvac = FALSE /\ charging = FALSE /\ climit = 0
  /\ sent = Nothing /\ nm = FALSE /\ alert = "none"
  /\ writes = 0 /\ acked = FALSE

(* Command entry.  A command is accepted whatever is in flight.            *)

\* Mutant of ClearCommand: the last command's record is kept as a cache.
ClearAllButProfile ==
  /\ confirmed' = FALSE /\ error' = FALSE /\ tx_fail' = FALSE
  /\ arm_skipped' = FALSE /\ UNCHANGED have_profile0

ClearCommand ==
  /\ confirmed' = FALSE /\ error' = FALSE /\ tx_fail' = FALSE
  /\ have_profile0' = FALSE /\ arm_skipped' = FALSE

Begin(o, on, prm) ==
  /\ op' = o /\ param' = prm /\ enable' = on
  /\ apply' = (o = "BC_SET_CURRENT" /\ charging)
  /\ ClearCommand
  /\ phase' = "CP_WAKE" /\ phase_secs' = 0
  /\ wake_hold' = WakeSecs
  /\ sent' = Nothing /\ nm' = TRUE /\ alert' = "none"
  /\ writes' = 0 /\ acked' = FALSE
  /\ UNCHANGED <<profile0, metrics>>

Climate(on) == Begin("BC_CLIMATE", on, 0)

Charge(on) == (on \/ ~hvac) /\ Begin("BC_CHARGE", on, 0)

\* A charge stop while climate is on is refused with a notification.
ChargeStopBlocked ==
  /\ hvac
  /\ sent' = Nothing /\ nm' = FALSE /\ alert' = "blocked"
  /\ UNCHANGED <<phase, command, have_profile0, profile0, arm_skipped,
                 confirmed, error, tx_fail, wake_hold, phase_secs, metrics,
                 history>>

\* Mutant of SetChargeCurrent: the request is not snapped to a step.
SetRawCurrent(amps) == Begin("BC_SET_CURRENT", TRUE, amps)

SetChargeCurrent(amps) ==
  Begin("BC_SET_CURRENT", TRUE, clampMaxCurrent(amps))

\* Mutant of Abort: the bridge is forgotten.
AbortPhaseOnly ==
  /\ phase' = "CP_IDLE"
  /\ Quiet
  /\ UNCHANGED <<command, have_profile0, profile0, arm_skipped, confirmed,
                 error, tx_fail, wake_hold, phase_secs, metrics, history>>

Abort ==
  /\ phase' = "CP_IDLE" /\ wake_hold' = 0
  /\ Quiet
  /\ UNCHANGED <<command, have_profile0, profile0, arm_skipped, confirmed,
                 error, tx_fail, phase_secs, metrics, history>>

-----------------------------------------------------------------------------
(* SendArm, alone and with the step its two callers take after it.         *)

SendArm(p, fail) ==
  /\ arm_skipped' = SkipsWrite(p)
  /\ IF SkipsWrite(p) THEN sent' = Nothing /\ tx_fail' = fail
                      ELSE Transmit(Write(Armed(p)), fail)
  /\ writes' = IF sent' = Nothing THEN writes ELSE writes + 1

\* A current change while nothing charges ends with its write: no trigger.
WriteOnly == op = "BC_SET_CURRENT" /\ ~apply

\* next is the phase after the arm: unchanged when its transmission failed.
ArmAndAdvance(p, fail, next) ==
  IF SkipsWrite(p)
  THEN /\ arm_skipped' = TRUE
       /\ SendTrigger(enable, fail)
       /\ next = "CP_CONFIRM"
       /\ writes' = writes
  ELSE /\ SendArm(p, fail)
       /\ next = IF sent' = Nothing THEN phase
                 ELSE IF WriteOnly THEN "CP_CONFIRM" ELSE "CP_ARM_WAIT"

-----------------------------------------------------------------------------
(* The tick, once a second on the events task.                             *)

\* The phases in which a missing reply is the echo of a write, and those in
\* which it is the echo of a trigger.
AwaitsWriteEcho == phase = "CP_ARM_WAIT" \/ (phase = "CP_CONFIRM" /\ WriteOnly)
AwaitsOpMode == phase = "CP_CONFIRM" /\ ~WriteOnly

\* Mutant of ResendArm: a write whose echo is missing is taken for applied.
ResendTrigger(next) ==
  /\ AwaitsWriteEcho
  /\ SendTrigger(enable, tx_fail)
  /\ next = phase /\ UNCHANGED <<arm_skipped, writes>>

\* Mutant of ResendArm: nothing is sent again.
ResendNoArm(next) ==
  /\ AwaitsWriteEcho
  /\ sent' = Nothing
  /\ next = phase /\ UNCHANGED <<tx_fail, arm_skipped, writes>>

ResendArm(next) ==
  /\ AwaitsWriteEcho
  /\ SendArm(profile0, tx_fail)
  /\ next = phase

\* The step Ticker1 sends again when its reply has been missing RetrySecs.
Resend(next) ==
  \/ /\ phase = "CP_HANDSHAKE"
     /\ SendHandshake(tx_fail)
     /\ next = phase /\ UNCHANGED <<arm_skipped, writes>>
  \/ /\ phase = "CP_PROFILE" /\ have_profile0
     /\ ArmAndAdvance(profile0, tx_fail, next)
  \/ /\ phase = "CP_PROFILE" /\ ~have_profile0
     /\ SendProfileGet(tx_fail)
     /\ next = phase /\ UNCHANGED <<arm_skipped, writes>>
  \/ ResendArm(next)
  \/ /\ AwaitsOpMode
     /\ SendTrigger(enable, tx_fail)
     /\ next = phase /\ UNCHANGED <<arm_skipped, writes>>
  \/ /\ phase \in {"CP_WAKE", "CP_DONE"}
     /\ sent' = Nothing
     /\ next = phase /\ UNCHANGED <<tx_fail, arm_skipped, writes>>

\* Mutant of RetryDue: every tick sends the step again.
RetryEveryTick == ~confirmed

RetryDue == ~confirmed /\ phase_secs + 1 >= RetrySecs

\* Counts the second, and sends the step again when it is due.
Backstop(next) ==
  \/ /\ RetryDue
     /\ phase_secs' = 0
     /\ Resend(next)
  \/ /\ ~RetryDue
     /\ phase_secs' = phase_secs + 1
     /\ sent' = Nothing
     /\ next = phase /\ UNCHANGED <<tx_fail, arm_skipped, writes>>

\* What the user is told when the wake window closes on this command.
Outcome ==
  IF confirmed THEN "none"
  ELSE IF error THEN "rejected"
  ELSE IF tx_fail' THEN "tx_error"
  ELSE IF ~have_profile0 THEN "no_profile" ELSE "timeout"

TickIdle(bus_alive) ==
  /\ phase = "CP_IDLE" \/ wake_hold = 0
  /\ hvac' = (hvac /\ bus_alive)
  /\ Quiet
  /\ UNCHANGED <<phase, command, have_profile0, profile0, arm_skipped,
                 confirmed, error, tx_fail, wake_hold, phase_secs, charging,
                 climit, history>>

\* Mutant of CountDown: a retry opens the wake window anew.
CountDownAfresh ==
  wake_hold' = IF RetryDue THEN WakeSecs ELSE wake_hold - 1

CountDown == wake_hold' = wake_hold - 1

TickActive(bus_alive) ==
  /\ phase # "CP_IDLE" /\ wake_hold > 0
  /\ hvac' = (hvac /\ bus_alive)
  /\ nm' = TRUE
  /\ CountDown
  /\ \E next \in Phases :
       /\ Backstop(next)
       /\ phase' = IF wake_hold = 1 THEN "CP_IDLE" ELSE next
  /\ alert' = IF wake_hold = 1 THEN Outcome ELSE "none"
  /\ UNCHANGED <<command, have_profile0, profile0, confirmed, error, charging,
                 climit, acked>>

Ticker1(bus_alive) == TickIdle(bus_alive) \/ TickActive(bus_alive)

-----------------------------------------------------------------------------
(* IncomingBapStatus, on the CAN receive task: one action for each thing   *)
(* a status element can do.  Every element clears tx_fail first, and an    *)
(* OperationMode echo is reflected first, whatever the phase.              *)

Reflect(e) ==
  /\ hvac' = IF e.type = "opmode" /\ op = "BC_CLIMATE" THEN e.flag ELSE hvac
  /\ nm' = FALSE /\ alert' = "none"

\* A good status supersedes an error, except one that ended the command.
Pardon(e) == error' = (error /\ (e.type = "opmode" => phase = "CP_DONE"))

FirstContact(e) ==
  /\ phase = "CP_WAKE"
  /\ Reflect(e) /\ Pardon(e)
  /\ SendHandshake(FALSE)
  /\ phase' = "CP_HANDSHAKE" /\ phase_secs' = 0
  /\ UNCHANGED <<command, have_profile0, profile0, arm_skipped, confirmed,
                 wake_hold, charging, climit, history>>

HandshakeAck(e) ==
  /\ phase = "CP_HANDSHAKE" /\ e.type = "ack"
  /\ Reflect(e)
  /\ SendProfileGet(FALSE)
  /\ phase' = "CP_PROFILE" /\ phase_secs' = 0
  /\ UNCHANGED <<command, have_profile0, profile0, arm_skipped, confirmed,
                 error, wake_hold, charging, climit, history>>

\* Mutant of CutShort: the window is set, not shortened, also after its end.
CutTo(secs) == wake_hold' = secs

\* What is left of the wake window once the verdict is in.
CutShort(secs) == wake_hold' = Lesser(wake_hold, secs)

BapError(e) ==
  /\ phase # "CP_WAKE" /\ e.type = "error"
  /\ Reflect(e)
  /\ error' = TRUE /\ tx_fail' = FALSE
  /\ phase' = "CP_DONE"
  /\ CutShort(1)
  /\ sent' = Nothing
  /\ UNCHANGED <<command, have_profile0, profile0, arm_skipped, confirmed,
                 phase_secs, charging, climit, history>>

\* Mutant of Confirms: an echo confirms in any phase.
ConfirmsAnytime(e) == ~WriteOnly /\ e.flag = enable

\* The echo that confirms the command: flag as requested, in CP_CONFIRM.
Confirms(e) == AwaitsOpMode /\ e.flag = enable

OpModeEcho(e) ==
  /\ phase # "CP_WAKE" /\ e.type = "opmode"
  /\ Reflect(e) /\ Pardon(e)
  /\ tx_fail' = FALSE
  /\ confirmed' = (confirmed \/ Confirms(e))
  /\ phase' = IF Confirms(e) THEN "CP_DONE" ELSE phase
  /\ IF Confirms(e) THEN CutShort(2) ELSE UNCHANGED wake_hold
  /\ sent' = Nothing
  /\ UNCHANGED <<command, have_profile0, profile0, arm_skipped, phase_secs,
                 charging, climit, history>>

\* What the echo of a write lets go: the trigger held back for it, or the
\* confirmation of a write-only command.
ReleasesTrigger == phase = "CP_ARM_WAIT" /\ ~WriteOnly

\* Mutant of ConfirmsWrite: the echo confirms whatever command is running.
ConfirmsAnyWrite == phase = "CP_CONFIRM"

ConfirmsWrite == phase = "CP_CONFIRM" /\ WriteOnly

\* An echo of a profile-0 write.  The transaction id it carries is not
\* compared: any echo to this client id counts.
WriteEcho(e) ==
  /\ phase # "CP_WAKE" /\ e.type = "echo"
  /\ Reflect(e)
  /\ climit' = IF op = "BC_SET_CURRENT" THEN param ELSE climit
  /\ \/ /\ ReleasesTrigger
        /\ SendTrigger(enable, FALSE)
        /\ phase' = "CP_CONFIRM" /\ phase_secs' = 0
        /\ UNCHANGED <<confirmed, wake_hold>>
     \/ /\ ConfirmsWrite
        /\ confirmed' = TRUE /\ phase' = "CP_DONE"
        /\ CutShort(2)
        /\ sent' = Nothing /\ tx_fail' = FALSE
        /\ UNCHANGED phase_secs
     \/ /\ ~ReleasesTrigger /\ ~ConfirmsWrite
        /\ sent' = Nothing /\ tx_fail' = FALSE
        /\ UNCHANGED <<phase, phase_secs, confirmed, wake_hold>>
  /\ acked' = (acked \/ writes > 0)
  /\ UNCHANGED <<command, have_profile0, profile0, arm_skipped, error,
                 charging, writes>>

ProfileReply(e) ==
  /\ phase = "CP_PROFILE" /\ ~have_profile0 /\ e.type = "profiles"
  /\ Reflect(e)
  /\ profile0' = e.profile /\ have_profile0' = TRUE
  /\ climit' = IF op = "BC_SET_CURRENT" THEN climit ELSE e.profile.maxCurrent
  /\ ArmAndAdvance(e.profile, FALSE, phase')
  /\ phase_secs' = IF phase' = phase THEN phase_secs ELSE 0
  /\ UNCHANGED <<command, confirmed, error, wake_hold, charging, acked>>

\* Elements the phase has no use for.
Ignored(e) ==
  /\ \/ e.type = "ack" /\ phase \notin {"CP_WAKE", "CP_HANDSHAKE"}
     \/ e.type = "profiles" /\ phase # "CP_WAKE"
        /\ ~(phase = "CP_PROFILE" /\ ~have_profile0)
     \/ e.type = "other" /\ phase # "CP_WAKE"
  /\ Reflect(e)
  /\ tx_fail' = FALSE /\ sent' = Nothing
  /\ UNCHANGED <<phase, command, have_profile0, profile0, arm_skipped,
                 confirmed, error, wake_hold, phase_secs, charging, climit,
                 history>>

IncomingBapStatus(e) ==
  \/ FirstContact(e)
  \/ HandshakeAck(e)
  \/ BapError(e)
  \/ OpModeEcho(e)
  \/ WriteEcho(e)
  \/ ProfileReply(e)
  \/ Ignored(e)

-----------------------------------------------------------------------------
(* Metrics other code writes: the clima ECU's conditioning bit (0x5EA) and *)
(* the charge state (0x594).                                               *)

IncomingClimaEcuStatus(on) ==
  /\ hvac' = on
  /\ Quiet
  /\ UNCHANGED <<phase, command, have_profile0, profile0, arm_skipped,
                 confirmed, error, tx_fail, wake_hold, phase_secs, charging,
                 climit, history>>

ChargeStatus(on) ==
  /\ charging' = on
  /\ Quiet
  /\ UNCHANGED <<phase, command, have_profile0, profile0, arm_skipped,
                 confirmed, error, tx_fail, wake_hold, phase_secs, hvac,
                 climit, history>>

Command ==
  \/ \E on \in BOOLEAN : Climate(on) \/ Charge(on)
  \/ ChargeStopBlocked
  \/ \E amps \in Amps : SetChargeCurrent(amps)
  \/ Abort

Next ==
  \/ Command
  \/ \E bus_alive \in BOOLEAN : Ticker1(bus_alive)
  \/ \E e \in Heard : IncomingBapStatus(e)
  \/ \E on \in BOOLEAN : IncomingClimaEcuStatus(on) \/ ChargeStatus(on)

Spec == Init /\ [][Next]_vars

-----------------------------------------------------------------------------
(* Properties.                                                             *)

\* Every variable keeps its type (the members of the class, .h:148-171).
TypeOK ==
  /\ phase \in Phases /\ op \in Ops /\ param \in {0} \cup Steps
  /\ enable \in BOOLEAN /\ apply \in BOOLEAN
  /\ have_profile0 \in BOOLEAN /\ profile0 \in Record
  /\ arm_skipped \in BOOLEAN /\ confirmed \in BOOLEAN
  /\ error \in BOOLEAN /\ tx_fail \in BOOLEAN
  /\ wake_hold \in 0..WakeSecs /\ phase_secs \in Nat
  /\ hvac \in BOOLEAN /\ charging \in BOOLEAN /\ climit \in 0..255
  /\ sent \in Sendable
  /\ nm \in BOOLEAN
  /\ alert \in {"none", "blocked", "rejected", "tx_error", "no_profile",
                "timeout"}
  /\ writes \in Nat /\ acked \in BOOLEAN

\* No profile write ever carries a maxCurrent above 0x20, whatever was read
\* back and whatever was asked for: a higher value breaks the car's charging
\* (battery_control.h:88-93, SendArm's clamp).
HardCap == sent.type = "write" => sent.profile.maxCurrent <= HardLimit

\* The wake bridge is held exactly while a command may still act: a released
\* bridge leaves nothing in flight, and a held one is being counted down by
\* Ticker1, which ignores a command in CP_IDLE.
BridgeHeld ==
  /\ wake_hold > 0 => phase # "CP_IDLE"
  /\ wake_hold = 0 => phase \in {"CP_IDLE", "CP_DONE"}

\* "No arm, no trigger": a start or stop leaves only after profile 0 was read
\* for this command and either already held the command's operation, or was
\* written for it and an echo of a write came back
\* (docs/bat-ctrl-bap.md, "the trigger is gated on a successful arm").
Armed4Trigger ==
  /\ have_profile0
  /\ \/ writes > 0 /\ acked
     \/ arm_skipped /\ profile0.operation = Target(op, apply, profile0.operation)

TriggerGated == sent.type = "trigger" => Armed4Trigger

\* The lost-reply backstop does not hammer the BCU: within one command at most
\* one profile write goes out in each RetrySecs of the wake window.
NotHammered == (writes - 1) * RetrySecs <= WakeSecs - wake_hold

\* Once a command has its verdict (or there is none) nothing more is sent for
\* it and the verdict stands: a BAP ERROR stops the retries and no later echo
\* confirms the command (the BAP ERROR branch of IncomingBapStatus).
KeepsVerdict ==
  /\ sent' = Nothing
  /\ phase' # "CP_WAKE" => (confirmed' = confirmed)
  /\ phase' = "CP_DONE" => (error => error')

VerdictStands == [][(phase \in {"CP_IDLE", "CP_DONE"}) => KeepsVerdict]_vars

-----------------------------------------------------------------------------
(* The abstract specification this module implements.                      *)

Verdict == IF wake_hold = 0 THEN "none"
           ELSE IF confirmed THEN "confirmed"
           ELSE IF phase = "CP_DONE" THEN "rejected" ELSE "pending"

Notice == IF alert \in {"none", "blocked"} THEN alert ELSE "failure"

Lifecycle == INSTANCE CommandLifecycle
               WITH Window <- WakeSecs, verdict <- Verdict,
                    remaining <- wake_hold, notice <- Notice

\* Every command gets one verdict that stands, its wake bridge is released
\* within the window, and the user is notified exactly when it is released
\* without a confirmation (Begin, Ticker1, IncomingBapStatus and Abort
\* together).
ImplementsLifecycle == Lifecycle!LifeSpec
=============================================================================
