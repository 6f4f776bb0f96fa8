------------------------ MODULE BatteryControlProofs ------------------------
(***************************************************************************)
(* Proofs about BatteryControl, for every wake window, retry period, set   *)
(* of currents and record.  The inductive invariant is IInv; the lemmas    *)
(* before it say what the operators that clamp, arm and transmit do, so    *)
(* that the proof of a step needs none of their definitions.               *)
(***************************************************************************)
EXTENDS BatteryControl, TLAPS

(* Helpers.                                                                *)

LEMMA LesserFacts ==
  ASSUME NEW a \in Nat, NEW b \in Nat
  PROVE  /\ Lesser(a, b) \in Nat
         /\ Lesser(a, b) <= a /\ Lesser(a, b) <= b
         /\ a > 0 /\ b > 0 => Lesser(a, b) > 0
  BY DEF Lesser

\* clampMaxCurrent returns one of the steps the BCU accepts.
LEMMA ClampInSteps ==
  ASSUME NEW amps \in Nat
  PROVE  clampMaxCurrent(amps) \in Steps
<1> DEFINE a == Lesser(amps, HardLimit)
           Nearest(v) == \A w \in Steps : \/ Dist(a, v) < Dist(a, w)
                                          \/ Dist(a, v) = Dist(a, w) /\ v <= w
<1>1. a \in Nat /\ a <= 32
  BY LesserFacts DEF HardLimit
<1> HIDE DEF a
<1>2. \E v \in Steps : Nearest(v)
  <2>1. CASE a <= 7
    <3>1. Nearest(5)
      BY <1>1, <2>1 DEF Steps, Dist
    <3> QED BY <3>1 DEF Steps
  <2>2. CASE 8 <= a /\ a <= 11
    <3>1. Nearest(10)
      BY <1>1, <2>2 DEF Steps, Dist
    <3> QED BY <3>1 DEF Steps
  <2>3. CASE 12 <= a /\ a <= 22
    <3>1. Nearest(13)
      BY <1>1, <2>3 DEF Steps, Dist
    <3> QED BY <3>1 DEF Steps
  <2>4. CASE 23 <= a
    <3>1. Nearest(32)
      BY <1>1, <2>4 DEF Steps, Dist
    <3> QED BY <3>1 DEF Steps
  <2> QED BY <1>1, <2>1, <2>2, <2>3, <2>4
<1>3. clampMaxCurrent(amps) = CHOOSE v \in Steps : Nearest(v)
  BY DEF clampMaxCurrent, a
<1> HIDE DEF Nearest
<1> QED BY <1>2, <1>3

\* An armed record is a record, within the hard cap, whatever was read.
LEMMA ArmedFacts ==
  ASSUME TypeOK, NEW p \in Record
  PROVE  /\ Armed(p) \in Record
         /\ Armed(p).maxCurrent <= HardLimit
         /\ Armed(p).operation = Target(op, apply, p.operation)
<1> DEFINE amp == IF op = "BC_SET_CURRENT" THEN param ELSE p.maxCurrent
           cap == Lesser(amp, HardLimit)
           target == Target(op, apply, p.operation)
           armed == [operation |-> target, maxCurrent |-> cap, rest |-> p.rest]
<1>1. p.operation \in SUBSET Flags /\ p.maxCurrent \in 0..255
  BY DEF Record
<1>2. amp \in Nat
  BY <1>1 DEF TypeOK, Steps
<1> HIDE DEF amp
<1>3. cap \in Nat /\ cap <= 32
  BY <1>2, LesserFacts DEF HardLimit
<1>4. target \in SUBSET Flags
  BY <1>1 DEF Target, Flags
<1>5. Armed(p) = armed
  BY DEF Armed, amp
<1> HIDE DEF cap, target
<1>6. armed \in Record /\ armed.maxCurrent = cap /\ armed.operation = target
  BY <1>3, <1>4 DEF Record
<1> HIDE DEF armed
<1> QED BY <1>3, <1>5, <1>6 DEF HardLimit, target

LEMMA UnsetIsRecord == Unset \in Record
  BY DEF Unset, Record

LEMMA ProfileIsRecord == Profile \subseteq Record
  BY CurrentsAssumption DEF Profile, Record

LEMMA TelegramFacts ==
  /\ {Nothing, Handshake, GetArray} \subseteq Sendable
  /\ Nothing.type = "none" /\ Handshake.type = "handshake"
  /\ GetArray.type = "get"
  /\ \A on \in BOOLEAN : Trigger(on) \in Sendable /\ Trigger(on).type = "trigger"
  /\ \A p \in Record : /\ Write(p) \in Sendable /\ Write(p).type = "write"
                       /\ Write(p).profile = p /\ Write(p) # Nothing
  BY UnsetIsRecord
     DEF Nothing, Handshake, GetArray, Trigger, Write, Telegram, Sendable

-----------------------------------------------------------------------------
(* What a transmission leaves in sent and tx_fail.                         *)

Harmless == sent' \in Sendable /\ tx_fail' \in BOOLEAN

LEMMA QuietSends ==
  sent' = Nothing => sent' \in Sendable /\ sent'.type = "none"
  BY TelegramFacts

LEMMA SendHandshakeFacts ==
  ASSUME NEW fail \in BOOLEAN, SendHandshake(fail)
  PROVE  Harmless /\ sent'.type \notin {"write", "trigger"}
  BY TelegramFacts DEF SendHandshake, Transmit, Harmless

LEMMA SendProfileGetFacts ==
  ASSUME NEW fail \in BOOLEAN, SendProfileGet(fail)
  PROVE  Harmless /\ sent'.type \notin {"write", "trigger"}
  BY TelegramFacts DEF SendProfileGet, Transmit, Harmless

LEMMA SendTriggerFacts ==
  ASSUME NEW on \in BOOLEAN, NEW fail \in BOOLEAN, SendTrigger(on, fail)
  PROVE  Harmless /\ sent'.type # "write"
  BY TelegramFacts DEF SendTrigger, Transmit, Harmless

\* SendArm writes at most once, within the cap, and never triggers.
LEMMA SendArmFacts ==
  ASSUME TypeOK, NEW p \in Record, NEW fail \in BOOLEAN, SendArm(p, fail)
  PROVE  /\ Harmless /\ HardCap' /\ sent'.type # "trigger"
         /\ arm_skipped' \in BOOLEAN
         /\ \/ sent' = Nothing /\ writes' = writes
            \/ sent'.type = "write" /\ writes' = writes + 1
<1>1. arm_skipped' \in BOOLEAN
  BY DEF SendArm, SkipsWrite
<1>2. CASE SkipsWrite(p)
  BY <1>1, <1>2, TelegramFacts DEF SendArm, Harmless, HardCap
<1>3. CASE ~SkipsWrite(p)
  <2>1. Transmit(Write(Armed(p)), fail)
    BY <1>3 DEF SendArm
  <2>2. /\ Write(Armed(p)) \in Sendable /\ Write(Armed(p)).type = "write"
        /\ Write(Armed(p)).profile.maxCurrent <= HardLimit
        /\ Write(Armed(p)) # Nothing
    BY ArmedFacts, TelegramFacts
  <2>3. CASE sent' = Nothing
    BY <1>1, <2>1, <2>3, TelegramFacts DEF SendArm, Transmit, Harmless, HardCap
  <2>4. CASE sent' = Write(Armed(p))
    BY <1>1, <2>1, <2>2, <2>4, TelegramFacts
       DEF SendArm, Transmit, Harmless, HardCap
  <2> QED BY <2>1, <2>3, <2>4 DEF Transmit
<1> QED BY <1>2, <1>3

\* Arming a record either finds it armed and triggers at once, or fails and
\* stays, or writes it and waits.
LEMMA ArmAndAdvanceFacts ==
  ASSUME TypeOK, NEW p \in Record, NEW fail \in BOOLEAN, NEW next,
         ArmAndAdvance(p, fail, next)
  PROVE  /\ Harmless /\ HardCap' /\ arm_skipped' \in BOOLEAN
         /\ \/ /\ next = "CP_CONFIRM" /\ writes' = writes /\ arm_skipped'
               /\ p.operation = Target(op, apply, p.operation)
               /\ ~WriteOnly
            \/ next = phase /\ sent' = Nothing /\ writes' = writes
            \/ /\ next = IF WriteOnly THEN "CP_CONFIRM" ELSE "CP_ARM_WAIT"
               /\ writes' = writes + 1 /\ sent'.type = "write"
<1>1. CASE SkipsWrite(p)
  <2>1. p.operation = Target(op, apply, p.operation) /\ ~WriteOnly
    BY <1>1, ArmedFacts DEF SkipsWrite, WriteOnly
  <2>2. SendTrigger(enable, fail)
    BY <1>1 DEF ArmAndAdvance
  <2>3. Harmless /\ HardCap'
    BY <2>2, SendTriggerFacts DEF TypeOK, HardCap
  <2> QED BY <1>1, <2>1, <2>3 DEF ArmAndAdvance
<1>2. CASE ~SkipsWrite(p)
  <2>1. SendArm(p, fail)
    BY <1>2 DEF ArmAndAdvance
  <2>2. next = IF sent' = Nothing THEN phase
               ELSE IF WriteOnly THEN "CP_CONFIRM" ELSE "CP_ARM_WAIT"
    BY <1>2 DEF ArmAndAdvance
  <2>3. /\ Harmless /\ HardCap' /\ arm_skipped' \in BOOLEAN
        /\ \/ sent' = Nothing /\ writes' = writes
           \/ sent'.type = "write" /\ writes' = writes + 1
    BY <2>1, SendArmFacts
  <2>4. sent'.type = "write" => sent' # Nothing
    BY TelegramFacts
  <2>5. CASE sent' = Nothing
    BY <2>2, <2>3, <2>4, <2>5
  <2>6. CASE sent' # Nothing
    BY <2>2, <2>3, <2>6
  <2> QED BY <2>5, <2>6
<1> QED BY <1>1, <1>2

-----------------------------------------------------------------------------
(* The inductive invariant.                                                *)

\* What a phase says of the command that reached it.
Progress ==
  /\ phase \in {"CP_ARM_WAIT", "CP_CONFIRM"} => have_profile0
  /\ phase = "CP_ARM_WAIT" => writes > 0
  /\ AwaitsOpMode => Armed4Trigger
  /\ confirmed /\ wake_hold > 0 => phase = "CP_DONE"

\* Each write after the first took RetrySecs of the window, and phase_secs
\* seconds have passed since the last one.
Pace ==
  /\ ~have_profile0 => writes = 0
  /\ writes > 0 =>
       (writes - 1) * RetrySecs + phase_secs <= WakeSecs - wake_hold

IInv == TypeOK /\ BridgeHeld /\ HardCap /\ TriggerGated /\ Progress /\ Pace

LEMMA InitIInv == Init => IInv
<1> SUFFICES ASSUME Init PROVE IInv
  OBVIOUS
<1>1. TypeOK
  <2>1. sent \in Sendable /\ profile0 \in Record
    BY UnsetIsRecord, TelegramFacts DEF Init
  <2>2. /\ wake_hold \in 0..WakeSecs /\ phase_secs \in Nat /\ writes \in Nat
        /\ climit \in 0..255
    BY SecsAssumption DEF Init
  <2>3. phase \in Phases /\ op \in Ops /\ param \in {0} \cup Steps
    BY DEF Init, Phases, Ops
  <2>4. /\ {enable, apply, have_profile0, arm_skipped, confirmed, error,
            tx_fail, hvac, charging, nm, acked} \subseteq BOOLEAN
        /\ alert = "none"
    BY DEF Init
  <2> QED BY <2>1, <2>2, <2>3, <2>4 DEF TypeOK
<1>2. BridgeHeld /\ Progress /\ Pace
  BY DEF Init, BridgeHeld, Progress, AwaitsOpMode, Pace
<1>3. HardCap /\ TriggerGated
  BY TelegramFacts DEF Init, HardCap, TriggerGated
<1> QED BY <1>1, <1>2, <1>3 DEF IInv

\* A step that sends nothing cannot break what is said of telegrams.
LEMMA NothingSent ==
  ASSUME sent' = Nothing
  PROVE  sent' \in Sendable /\ HardCap' /\ TriggerGated'
  BY TelegramFacts DEF HardCap, TriggerGated

-----------------------------------------------------------------------------
(* Commands.                                                               *)

LEMMA BeginKeeps ==
  ASSUME IInv, NEW o \in Ops, NEW on \in BOOLEAN, NEW prm \in {0} \cup Steps,
         Begin(o, on, prm)
  PROVE  IInv'
<1> USE DEF Begin, ClearCommand
<1>1. TypeOK'
  <2>1. sent' \in Sendable
    BY NothingSent
  <2>2. wake_hold' \in 0..WakeSecs /\ phase_secs' \in Nat /\ writes' \in Nat
    BY SecsAssumption
  <2>3. apply' \in BOOLEAN
    BY DEF IInv, TypeOK
  <2> QED BY <2>1, <2>2, <2>3 DEF IInv, TypeOK, Phases, metrics
<1>2. BridgeHeld' /\ Progress' /\ Pace'
  BY SecsAssumption
     DEF BridgeHeld, Progress, AwaitsOpMode, AwaitsWriteEcho, Pace
<1>3. HardCap' /\ TriggerGated'
  BY NothingSent
<1> QED BY <1>1, <1>2, <1>3 DEF IInv

\* A step that leaves the command alone and sends nothing.
LEMMA IdleStepKeeps ==
  ASSUME IInv, sent' = Nothing, nm' \in BOOLEAN,
         alert' \in {"none", "blocked"},
         hvac' \in BOOLEAN, charging' \in BOOLEAN, climit' = climit,
         UNCHANGED <<phase, command, have_profile0, profile0, arm_skipped,
                     confirmed, error, wake_hold, phase_secs, history>>,
         tx_fail' \in BOOLEAN
  PROVE  IInv'
<1> USE DEF command, history
<1>1. TypeOK'
  BY NothingSent DEF IInv, TypeOK
<1>2. BridgeHeld' /\ Progress' /\ Pace'
  BY DEF IInv, BridgeHeld, Progress, AwaitsOpMode, WriteOnly, Armed4Trigger,
         Pace
<1>3. HardCap' /\ TriggerGated'
  BY NothingSent
<1> QED BY <1>1, <1>2, <1>3 DEF IInv

LEMMA AbortKeeps == IInv /\ Abort => IInv'
<1> SUFFICES ASSUME IInv, Abort PROVE IInv'
  OBVIOUS
<1> USE DEF Abort, Quiet, command, metrics, history
<1>1. TypeOK'
  <2>1. sent' \in Sendable /\ wake_hold' \in 0..WakeSecs
    BY NothingSent, SecsAssumption
  <2>2. phase' \in Phases /\ nm' \in BOOLEAN /\ alert' = "none"
    BY DEF Phases
  <2>3. UNCHANGED <<op, param, enable, apply, have_profile0, profile0,
                    arm_skipped, confirmed, error, tx_fail, phase_secs, hvac,
                    charging, climit, writes, acked>>
    OBVIOUS
  <2> HIDE DEF Abort
  <2> QED BY <2>1, <2>2, <2>3 DEF IInv, TypeOK
<1>2. BridgeHeld' /\ Progress' /\ Pace'
  <2>1. (writes - 1) * RetrySecs + phase_secs <= WakeSecs - wake_hold
          => (writes - 1) * RetrySecs + phase_secs <= WakeSecs - 0
    BY SecsAssumption DEF IInv, TypeOK
  <2> QED BY <2>1, SecsAssumption
          DEF IInv, TypeOK, BridgeHeld, Progress, AwaitsOpMode, Pace
<1>3. HardCap' /\ TriggerGated'
  BY NothingSent
<1> QED BY <1>1, <1>2, <1>3 DEF IInv

LEMMA CommandKeeps == IInv /\ Command => IInv'
<1> SUFFICES ASSUME IInv, Command PROVE IInv'
  OBVIOUS
<1>1. ASSUME NEW on \in BOOLEAN, Climate(on) PROVE IInv'
  BY <1>1, BeginKeeps DEF Climate, Ops
<1>2. ASSUME NEW on \in BOOLEAN, Charge(on) PROVE IInv'
  BY <1>2, BeginKeeps DEF Charge, Ops
<1>3. CASE ChargeStopBlocked
  BY <1>3, IdleStepKeeps
     DEF IInv, TypeOK, ChargeStopBlocked, metrics, command, history
<1>4. ASSUME NEW amps \in Amps, SetChargeCurrent(amps) PROVE IInv'
  <2>1. clampMaxCurrent(amps) \in Steps
    BY ClampInSteps, CurrentsAssumption
  <2> QED BY <1>4, <2>1, BeginKeeps DEF SetChargeCurrent, Ops
<1>5. CASE Abort
  BY <1>5, AbortKeeps
<1> QED BY <1>1, <1>2, <1>3, <1>4, <1>5 DEF Command

-----------------------------------------------------------------------------
(* The tick.                                                               *)

\* What the triggers of a command rest on, with the arm_skipped of the step.
Ready ==
  /\ have_profile0 /\ ~WriteOnly
  /\ \/ writes > 0 /\ acked
     \/ arm_skipped' /\ profile0.operation = Target(op, apply, profile0.operation)

\* The step that is repeated writes at most once, triggers only when ready,
\* and moves on only from a record that was read.
LEMMA ResendFacts ==
  ASSUME IInv, phase # "CP_IDLE", NEW next, Resend(next)
  PROVE  /\ Harmless /\ HardCap' /\ arm_skipped' \in BOOLEAN
         /\ sent'.type = "trigger" => Ready
         /\ phase = "CP_DONE" => sent' = Nothing
         /\ writes' = writes \/ (writes' = writes + 1 /\ have_profile0)
         /\ \/ next = phase /\ (AwaitsOpMode => arm_skipped' = arm_skipped)
            \/ /\ phase = "CP_PROFILE" /\ next = "CP_CONFIRM" /\ have_profile0
               /\ WriteOnly \/ Ready
            \/ /\ phase = "CP_PROFILE" /\ next = "CP_ARM_WAIT" /\ have_profile0
               /\ writes' > 0
<1> USE DEF Resend
<1>t. /\ TypeOK /\ tx_fail \in BOOLEAN /\ enable \in BOOLEAN
      /\ arm_skipped \in BOOLEAN /\ profile0 \in Record /\ writes \in Nat
  BY DEF IInv, TypeOK
<1>p. Progress
  BY DEF IInv
<1>1. CASE phase = "CP_HANDSHAKE" /\ SendHandshake(tx_fail) /\ next = phase
           /\ UNCHANGED <<arm_skipped, writes>>
  BY <1>1, <1>t, SendHandshakeFacts DEF HardCap
<1>2. CASE phase = "CP_PROFILE" /\ have_profile0
           /\ ArmAndAdvance(profile0, tx_fail, next)
  <2>1. /\ Harmless /\ HardCap' /\ arm_skipped' \in BOOLEAN
        /\ \/ /\ next = "CP_CONFIRM" /\ writes' = writes /\ arm_skipped'
              /\ profile0.operation = Target(op, apply, profile0.operation)
              /\ ~WriteOnly
           \/ next = phase /\ sent' = Nothing /\ writes' = writes
           \/ /\ next = IF WriteOnly THEN "CP_CONFIRM" ELSE "CP_ARM_WAIT"
              /\ writes' = writes + 1 /\ sent'.type = "write"
    BY <1>2, <1>t, ArmAndAdvanceFacts
  <2>2. CASE /\ next = "CP_CONFIRM" /\ writes' = writes /\ arm_skipped'
             /\ profile0.operation = Target(op, apply, profile0.operation)
             /\ ~WriteOnly
    BY <1>2, <2>1, <2>2 DEF Ready
  <2>3. CASE next = phase /\ sent' = Nothing /\ writes' = writes
    BY <1>2, <2>1, <2>3, TelegramFacts DEF AwaitsOpMode
  <2>4. CASE /\ next = IF WriteOnly THEN "CP_CONFIRM" ELSE "CP_ARM_WAIT"
             /\ writes' = writes + 1 /\ sent'.type = "write"
    BY <1>2, <1>t, <2>1, <2>4
  <2> QED BY <2>1, <2>2, <2>3, <2>4
<1>3. CASE phase = "CP_PROFILE" /\ SendProfileGet(tx_fail) /\ next = phase
           /\ UNCHANGED <<arm_skipped, writes>>
  BY <1>3, <1>t, SendProfileGetFacts DEF HardCap
<1>4. CASE ResendArm(next)
  <2>1. SendArm(profile0, tx_fail) /\ next = phase /\ AwaitsWriteEcho
    BY <1>4 DEF ResendArm
  <2>2. /\ Harmless /\ HardCap' /\ sent'.type # "trigger"
        /\ arm_skipped' \in BOOLEAN
        /\ writes' = writes \/ writes' = writes + 1
    BY <1>t, <2>1, SendArmFacts
  <2>3. have_profile0 /\ ~AwaitsOpMode /\ phase # "CP_DONE"
    BY <1>p, <2>1 DEF Progress, AwaitsWriteEcho, AwaitsOpMode
  <2> QED BY <2>1, <2>2, <2>3
<1>5. CASE AwaitsOpMode /\ SendTrigger(enable, tx_fail) /\ next = phase
           /\ UNCHANGED <<arm_skipped, writes>>
  <2>1. Harmless /\ HardCap'
    BY <1>5, <1>t, SendTriggerFacts DEF HardCap
  <2>2. Ready /\ phase # "CP_DONE"
    BY <1>5, <1>p DEF Progress, AwaitsOpMode, Armed4Trigger, Ready
  <2> QED BY <1>5, <1>t, <2>1, <2>2
<1>6. CASE sent' = Nothing /\ next = phase
           /\ UNCHANGED <<tx_fail, arm_skipped, writes>>
  BY <1>6, <1>t, NothingSent, TelegramFacts DEF Harmless
<1> QED BY <1>1, <1>2, <1>3, <1>4, <1>5, <1>6

LEMMA BackstopFacts ==
  ASSUME IInv, phase # "CP_IDLE", NEW next, Backstop(next)
  PROVE  /\ Harmless /\ HardCap' /\ arm_skipped' \in BOOLEAN
         /\ sent'.type = "trigger" => Ready
         /\ phase = "CP_DONE" => sent' = Nothing
         /\ phase_secs' \in Nat
         /\ \/ writes' = writes /\ phase_secs' <= phase_secs + 1
            \/ /\ writes' = writes + 1 /\ have_profile0
               /\ phase_secs' = 0 /\ phase_secs + 1 >= RetrySecs
         /\ \/ next = phase /\ (AwaitsOpMode => arm_skipped' = arm_skipped)
            \/ /\ phase = "CP_PROFILE" /\ next = "CP_CONFIRM" /\ have_profile0
               /\ WriteOnly \/ Ready
            \/ /\ phase = "CP_PROFILE" /\ next = "CP_ARM_WAIT" /\ have_profile0
               /\ writes' > 0
         /\ confirmed => next = phase
<1>t. /\ tx_fail \in BOOLEAN /\ phase_secs \in Nat /\ writes \in Nat
      /\ arm_skipped \in BOOLEAN
  BY DEF IInv, TypeOK
<1>1. CASE RetryDue
  <2>1. Resend(next) /\ phase_secs' = 0
    BY <1>1 DEF Backstop
  <2>2. ~confirmed /\ phase_secs + 1 >= RetrySecs
    BY <1>1 DEF RetryDue
  <2> QED BY <1>t, <2>1, <2>2, ResendFacts
<1>2. CASE ~RetryDue
  <2>1. /\ phase_secs' = phase_secs + 1 /\ sent' = Nothing /\ next = phase
        /\ UNCHANGED <<tx_fail, arm_skipped, writes>>
    BY <1>2 DEF Backstop
  <2> QED BY <1>t, <2>1, NothingSent, TelegramFacts DEF Harmless
<1> QED BY <1>1, <1>2

LEMMA TickActiveKeeps ==
  ASSUME IInv, NEW bus_alive \in BOOLEAN, TickActive(bus_alive)
  PROVE  IInv'
<1>1. PICK next \in Phases :
        /\ Backstop(next)
        /\ phase' = IF wake_hold = 1 THEN "CP_IDLE" ELSE next
  BY DEF TickActive
<1>2. /\ phase # "CP_IDLE" /\ wake_hold > 0 /\ wake_hold' = wake_hold - 1
      /\ hvac' = (hvac /\ bus_alive) /\ nm' = TRUE
      /\ alert' = IF wake_hold = 1 THEN Outcome ELSE "none"
      /\ UNCHANGED <<op, param, enable, apply, have_profile0, profile0,
                     confirmed, error, charging, climit, acked>>
  BY DEF TickActive, CountDown, command
<1>3. /\ Harmless /\ HardCap' /\ arm_skipped' \in BOOLEAN
      /\ sent'.type = "trigger" => Ready
      /\ phase_secs' \in Nat
      /\ \/ writes' = writes /\ phase_secs' <= phase_secs + 1
         \/ /\ writes' = writes + 1 /\ have_profile0
            /\ phase_secs' = 0 /\ phase_secs + 1 >= RetrySecs
      /\ \/ next = phase /\ (AwaitsOpMode => arm_skipped' = arm_skipped)
         \/ /\ phase = "CP_PROFILE" /\ next = "CP_CONFIRM" /\ have_profile0
            /\ WriteOnly \/ Ready
         \/ /\ phase = "CP_PROFILE" /\ next = "CP_ARM_WAIT" /\ have_profile0
            /\ writes' > 0
      /\ confirmed => next = phase
  BY <1>1, <1>2, BackstopFacts
<1>4. /\ TypeOK /\ Progress /\ Pace /\ BridgeHeld
      /\ wake_hold \in Nat /\ wake_hold <= WakeSecs /\ writes \in Nat
      /\ phase_secs \in Nat /\ WakeSecs \in Nat /\ RetrySecs \in Nat
  BY SecsAssumption DEF IInv, TypeOK
<1>5. TypeOK'
  <2>1. alert' \in {"none", "blocked", "rejected", "tx_error", "no_profile",
                    "timeout"}
    BY <1>2 DEF Outcome
  <2>2. wake_hold' \in 0..WakeSecs /\ writes' \in Nat
    BY <1>2, <1>3, <1>4
  <2>3. phase' \in Phases /\ hvac' \in BOOLEAN /\ nm' \in BOOLEAN
    BY <1>1, <1>2, <1>4 DEF Phases, TypeOK
  <2>4. sent' \in Sendable /\ tx_fail' \in BOOLEAN
    BY <1>3 DEF Harmless
  <2> QED BY <1>2, <1>3, <1>4, <2>1, <2>2, <2>3, <2>4 DEF TypeOK
<1>6. BridgeHeld'
  BY <1>1, <1>2, <1>3, <1>4 DEF BridgeHeld
<1>7. TriggerGated'
  <2> SUFFICES ASSUME sent'.type = "trigger" PROVE Armed4Trigger'
    BY DEF TriggerGated
  <2>1. Ready
    BY <1>3
  <2>2. writes > 0 => writes' > 0
    BY <1>3, <1>4
  <2> QED BY <1>2, <2>1, <2>2 DEF Ready, Armed4Trigger
<1>8. Progress'
  <2>w. writes > 0 => writes' > 0
    BY <1>3, <1>4
  <2>0. CASE wake_hold = 1
    BY <1>1, <1>2, <1>4, <2>0 DEF Progress, AwaitsOpMode
  <2>1. CASE wake_hold > 1 /\ next = phase /\ (AwaitsOpMode => arm_skipped' = arm_skipped)
    <3>1. phase' = phase
      BY <1>1, <2>1
    <3>2. ASSUME AwaitsOpMode' PROVE Armed4Trigger'
      <4>1. AwaitsOpMode /\ Armed4Trigger /\ arm_skipped' = arm_skipped
        BY <1>2, <1>4, <2>1, <3>1, <3>2 DEF AwaitsOpMode, WriteOnly, Progress
      <4> QED BY <1>2, <2>w, <4>1 DEF Armed4Trigger
    <3> QED BY <1>2, <1>4, <2>1, <2>w, <3>1, <3>2 DEF Progress
  <2>2. CASE wake_hold > 1 /\ phase = "CP_PROFILE" /\ next = "CP_CONFIRM"
             /\ have_profile0 /\ (WriteOnly \/ Ready)
    <3>1. phase' = "CP_CONFIRM" /\ ~confirmed
      BY <1>1, <1>3, <2>2
    <3>2. ASSUME AwaitsOpMode' PROVE Armed4Trigger'
      <4>1. Ready
        BY <1>2, <2>2, <3>2 DEF AwaitsOpMode, WriteOnly
      <4> QED BY <1>2, <2>w, <4>1 DEF Ready, Armed4Trigger
    <3> QED BY <1>2, <2>2, <3>1, <3>2 DEF Progress
  <2>3. CASE wake_hold > 1 /\ phase = "CP_PROFILE" /\ next = "CP_ARM_WAIT"
             /\ have_profile0 /\ writes' > 0
    <3>1. phase' = "CP_ARM_WAIT" /\ ~confirmed
      BY <1>1, <1>3, <1>4, <2>3
    <3> QED BY <1>2, <2>3, <3>1 DEF Progress, AwaitsOpMode
  <2> QED BY <1>2, <1>3, <1>4, <2>0, <2>1, <2>2, <2>3
<1>9. Pace'
  <2>1. ~have_profile0' => writes' = 0
    BY <1>2, <1>3, <1>4 DEF Pace
  <2>2. ASSUME writes' > 0
        PROVE  (writes' - 1) * RetrySecs + phase_secs'
                  <= WakeSecs - wake_hold'
    <3>1. CASE writes' = writes
      <4>1. (writes - 1) * RetrySecs + phase_secs <= WakeSecs - wake_hold
        BY <1>4, <2>2, <3>1 DEF Pace
      <4>2. phase_secs' <= phase_secs + 1
        BY <1>3, <1>4, <3>1
      <4> DEFINE w == (writes - 1) * RetrySecs
      <4>3. w \in Int /\ (writes' - 1) * RetrySecs = w
        BY <1>4, <3>1
      <4> HIDE DEF w
      <4> QED BY <1>2, <1>3, <1>4, <4>1, <4>2, <4>3 DEF w
    <3>2. CASE writes' = writes + 1 /\ writes > 0
      <4>1. (writes - 1) * RetrySecs + phase_secs <= WakeSecs - wake_hold
        BY <1>4, <3>2 DEF Pace
      <4>2. phase_secs' = 0 /\ phase_secs + 1 >= RetrySecs
        BY <1>3, <1>4, <3>2
      <4>3. (writes' - 1) * RetrySecs = (writes - 1) * RetrySecs + RetrySecs
        BY <1>4, <3>2
      <4> QED BY <1>2, <1>4, <4>1, <4>2, <4>3
    <3>3. CASE writes' = writes + 1 /\ writes = 0
      <4>1. phase_secs' = 0 /\ (writes' - 1) * RetrySecs = 0
        BY <1>3, <1>4, <3>3
      <4> QED BY <1>2, <1>4, <4>1
    <3> QED BY <1>3, <1>4, <3>1, <3>2, <3>3
  <2> QED BY <2>1, <2>2 DEF Pace
<1> QED BY <1>3, <1>5, <1>6, <1>7, <1>8, <1>9 DEF IInv

LEMMA TickKeeps ==
  ASSUME IInv, NEW bus_alive \in BOOLEAN, Ticker1(bus_alive)
  PROVE  IInv'
<1>1. CASE TickIdle(bus_alive)
  BY <1>1, IdleStepKeeps DEF IInv, TypeOK, TickIdle, Quiet, command, history
<1>2. CASE TickActive(bus_alive)
  BY <1>2, TickActiveKeeps
<1> QED BY <1>1, <1>2 DEF Ticker1

-----------------------------------------------------------------------------
(* Frames.                                                                 *)

\* Any status element at all, with any record in it: what the steps of the
\* controller are proved for.  On the bus the BCU may report a current that is
\* not one of Currents, because it was written by this module.
Status == [type : {"ack", "error", "opmode", "echo", "profiles", "other"},
           flag : BOOLEAN, profile : Record]

OpenNext ==
  \/ Command
  \/ \E bus_alive \in BOOLEAN : Ticker1(bus_alive)
  \/ \E e \in Status : IncomingBapStatus(e)
  \/ \E on \in BOOLEAN : IncomingClimaEcuStatus(on) \/ ChargeStatus(on)

LEMMA HeardIsStatus == Heard \subseteq Status
<1>1. \A t \in {"ack", "error", "echo", "other"} : Telegram(t, FALSE, Unset) \in Status
  BY UnsetIsRecord DEF Status, Telegram
<1>2. \A f \in BOOLEAN : Telegram("opmode", f, Unset) \in Status
  BY UnsetIsRecord DEF Status, Telegram
<1>3. \A p \in Profile : Telegram("profiles", FALSE, p) \in Status
  BY ProfileIsRecord DEF Status, Telegram
<1> QED BY <1>1, <1>2, <1>3 DEF Heard

LEMMA NextIsOpen == Next => OpenNext
BY HeardIsStatus DEF Next, OpenNext

LEMMA HeardFacts ==
  ASSUME NEW e \in Status
  PROVE  e.flag \in BOOLEAN /\ e.profile \in Record
BY DEF Status

\* Every frame handler leaves the flags, the notification and nm typed.
LEMMA ReflectFacts ==
  ASSUME TypeOK, NEW e \in Status, Reflect(e)
  PROVE  hvac' \in BOOLEAN /\ nm' = FALSE /\ alert' = "none"
  BY HeardFacts DEF TypeOK, Reflect

LEMMA CutShortFacts ==
  ASSUME TypeOK, NEW secs \in Nat \ {0}, CutShort(secs)
  PROVE  /\ wake_hold' \in 0..WakeSecs /\ wake_hold' <= wake_hold
         /\ wake_hold > 0 <=> wake_hold' > 0
         /\ wake_hold' <= secs
<1>1. wake_hold \in Nat /\ wake_hold <= WakeSecs /\ WakeSecs \in Nat
  BY SecsAssumption DEF TypeOK
<1>2. wake_hold' = Lesser(wake_hold, secs)
  BY DEF CutShort
<1> QED BY <1>1, <1>2 DEF Lesser

\* Steps that send neither a write nor a trigger, leave what the command read
\* and wrote, and do not enter a phase that waits for an echo.
LEMMA AdvanceKeeps ==
  ASSUME IInv, NEW e \in Status, Reflect(e),
         Harmless, sent'.type \notin {"write", "trigger"},
         phase' \in {"CP_HANDSHAKE", "CP_PROFILE"}, wake_hold > 0,
         phase # "CP_DONE", phase_secs' = 0, error' \in BOOLEAN,
         UNCHANGED <<command, have_profile0, profile0, arm_skipped, confirmed,
                     wake_hold, charging, climit, history>>
  PROVE  IInv'
<1> USE DEF command, history
<1>1. TypeOK'
  <2>1. hvac' \in BOOLEAN /\ nm' = FALSE /\ alert' = "none"
    BY ReflectFacts DEF IInv
  <2>2. phase' \in Phases
    BY DEF Phases
  <2> QED BY <2>1, <2>2 DEF IInv, TypeOK, Harmless
<1>2. BridgeHeld' /\ Progress'
  BY DEF IInv, TypeOK, BridgeHeld, Progress, AwaitsOpMode
<1>3. Pace'
  <2>1. /\ writes \in Nat /\ RetrySecs \in Nat /\ phase_secs \in Nat
        /\ WakeSecs \in Nat /\ wake_hold \in Nat
    BY SecsAssumption DEF IInv, TypeOK
  <2> DEFINE w == (writes - 1) * RetrySecs
  <2>2. w \in Int
    BY <2>1
  <2>3. writes > 0 => w + phase_secs <= WakeSecs - wake_hold
    BY DEF IInv, Pace
  <2> HIDE DEF w
  <2>4. writes > 0 => w + 0 <= WakeSecs - wake_hold
    BY <2>1, <2>2, <2>3
  <2> QED BY <2>4 DEF IInv, Pace, w
<1>4. HardCap' /\ TriggerGated'
  BY DEF HardCap, TriggerGated
<1> QED BY <1>1, <1>2, <1>3, <1>4 DEF IInv

LEMMA FirstContactKeeps ==
  ASSUME IInv, NEW e \in Status, FirstContact(e)
  PROVE  IInv'
<1>1. Reflect(e) /\ SendHandshake(FALSE) /\ phase = "CP_WAKE"
  BY DEF FirstContact
<1>2. Harmless /\ sent'.type \notin {"write", "trigger"}
  BY <1>1, SendHandshakeFacts
<1>3. wake_hold > 0 /\ error' \in BOOLEAN
  BY <1>1 DEF IInv, TypeOK, BridgeHeld, FirstContact, Pardon
<1> QED BY <1>1, <1>2, <1>3, AdvanceKeeps DEF FirstContact

LEMMA HandshakeAckKeeps ==
  ASSUME IInv, NEW e \in Status, HandshakeAck(e)
  PROVE  IInv'
<1>1. Reflect(e) /\ SendProfileGet(FALSE) /\ phase = "CP_HANDSHAKE"
  BY DEF HandshakeAck
<1>2. Harmless /\ sent'.type \notin {"write", "trigger"}
  BY <1>1, SendProfileGetFacts
<1>3. wake_hold > 0 /\ error' \in BOOLEAN
  BY <1>1 DEF IInv, TypeOK, BridgeHeld, HandshakeAck
<1> QED BY <1>1, <1>2, <1>3, AdvanceKeeps DEF HandshakeAck

LEMMA SlackGrows ==
  ASSUME NEW w \in Int, NEW secs \in Nat, NEW hold \in Nat, NEW window \in Nat,
         NEW secs1 \in Nat, NEW hold1 \in Nat,
         secs1 <= secs, hold1 <= hold, w + secs <= window - hold
  PROVE  w + secs1 <= window - hold1
  OBVIOUS

\* Shortening the window leaves the pace of the writes as it was.
LEMMA PaceKept ==
  ASSUME IInv, wake_hold' \in Nat, wake_hold' <= wake_hold,
         phase_secs' \in Nat, phase_secs' <= phase_secs,
         UNCHANGED <<have_profile0, writes>>
  PROVE  Pace'
<1>1. /\ writes \in Nat /\ RetrySecs \in Nat /\ phase_secs \in Nat
      /\ WakeSecs \in Nat /\ wake_hold \in Nat
  BY SecsAssumption DEF IInv, TypeOK
<1> DEFINE w == (writes - 1) * RetrySecs
<1>2. w \in Int
  BY <1>1
<1>3. writes > 0 => w + phase_secs <= WakeSecs - wake_hold
  BY DEF IInv, Pace
<1> HIDE DEF w
<1>4. ASSUME writes > 0 PROVE w + phase_secs' <= WakeSecs - wake_hold'
  BY <1>1, <1>2, <1>3, <1>4, SlackGrows
<1> QED BY <1>4 DEF IInv, Pace, w

LEMMA BapErrorKeeps ==
  ASSUME IInv, NEW e \in Status, BapError(e)
  PROVE  IInv'
<1> USE DEF BapError, command, history
<1>1. /\ wake_hold' \in 0..WakeSecs /\ wake_hold' <= wake_hold
      /\ wake_hold' \in Nat
  BY CutShortFacts, SecsAssumption DEF IInv
<1>2. hvac' \in BOOLEAN /\ nm' = FALSE /\ alert' = "none"
  BY ReflectFacts DEF IInv
<1>3. TypeOK'
  <2>1. sent' \in Sendable /\ phase' \in Phases
    BY NothingSent DEF Phases
  <2> QED BY <1>1, <1>2, <2>1 DEF IInv, TypeOK
<1>4. BridgeHeld' /\ Progress'
  BY DEF BridgeHeld, Progress, AwaitsOpMode
<1>5. Pace'
  BY <1>1, PaceKept DEF IInv, TypeOK
<1> QED BY <1>3, <1>4, <1>5, NothingSent DEF IInv

\* A frame that the phase has no use for.
LEMMA IgnoredKeeps ==
  ASSUME IInv, NEW e \in Status, Ignored(e)
  PROVE  IInv'
<1>1. hvac' \in BOOLEAN /\ nm' = FALSE /\ alert' = "none"
  BY ReflectFacts DEF IInv, Ignored
<1> QED BY <1>1, IdleStepKeeps DEF IInv, TypeOK, Ignored, command, history

LEMMA OpModeEchoKeeps ==
  ASSUME IInv, NEW e \in Status, OpModeEcho(e)
  PROVE  IInv'
<1> USE DEF OpModeEcho, command, history
<1>1. hvac' \in BOOLEAN /\ nm' = FALSE /\ alert' = "none"
  BY ReflectFacts DEF IInv
<1>t. TypeOK /\ wake_hold \in 0..WakeSecs /\ WakeSecs \in Nat
  BY SecsAssumption DEF IInv, TypeOK
<1>2. /\ wake_hold' \in 0..WakeSecs /\ wake_hold' <= wake_hold
      /\ wake_hold' \in Nat /\ (wake_hold > 0 <=> wake_hold' > 0)
  <2>1. CASE Confirms(e)
    BY <1>t, <2>1, CutShortFacts
  <2>2. CASE ~Confirms(e)
    BY <1>t, <2>2
  <2> QED BY <2>1, <2>2
<1>3. TypeOK'
  <2>1. sent' \in Sendable /\ phase' \in Phases
    BY NothingSent, <1>t DEF Phases, TypeOK
  <2>2. confirmed' \in BOOLEAN /\ error' \in BOOLEAN
    BY <1>t DEF TypeOK, Pardon
  <2> QED BY <1>t, <1>1, <1>2, <2>1, <2>2 DEF TypeOK
<1>4. BridgeHeld'
  BY <1>t, <1>2 DEF IInv, BridgeHeld, Confirms, AwaitsOpMode
<1>5. Progress'
  <2>1. CASE Confirms(e)
    BY <2>1 DEF Progress, AwaitsOpMode
  <2>2. CASE ~Confirms(e)
    BY <1>t, <1>2, <2>2
       DEF IInv, Progress, AwaitsOpMode, WriteOnly, Armed4Trigger
  <2> QED BY <2>1, <2>2
<1>6. Pace'
  BY <1>2, <1>t, PaceKept DEF TypeOK
<1> QED BY <1>3, <1>4, <1>5, <1>6, NothingSent DEF IInv

LEMMA WriteEchoKeeps ==
  ASSUME IInv, NEW e \in Status, WriteEcho(e)
  PROVE  IInv'
<1> USE DEF command
<1>0. /\ Reflect(e) /\ acked' = (acked \/ writes > 0)
      /\ climit' = IF op = "BC_SET_CURRENT" THEN param ELSE climit
      /\ UNCHANGED <<op, param, enable, apply, have_profile0, profile0,
                     arm_skipped, error, charging, writes>>
  BY DEF WriteEcho
<1>1. hvac' \in BOOLEAN /\ nm' = FALSE /\ alert' = "none"
  BY <1>0, ReflectFacts DEF IInv
<1>t. /\ TypeOK /\ wake_hold \in 0..WakeSecs /\ WakeSecs \in Nat
      /\ enable \in BOOLEAN /\ phase_secs \in Nat /\ writes \in Nat
  BY SecsAssumption DEF IInv, TypeOK
<1>c. climit' \in 0..255
  BY <1>0, <1>t DEF TypeOK, Steps
<1>a. (Armed4Trigger => Armed4Trigger') /\ acked' \in BOOLEAN
  BY <1>0, <1>t DEF Armed4Trigger, TypeOK
<1>2. CASE /\ ReleasesTrigger /\ SendTrigger(enable, FALSE)
           /\ phase' = "CP_CONFIRM" /\ phase_secs' = 0
           /\ UNCHANGED <<confirmed, wake_hold>>
  <2>1. Harmless /\ sent'.type # "write"
    BY <1>2, <1>t, SendTriggerFacts
  <2>2. Armed4Trigger'
    BY <1>0, <1>2, <1>t
       DEF IInv, Progress, ReleasesTrigger, Armed4Trigger
  <2>3. TypeOK'
    <3>1. phase' \in Phases
      BY <1>2 DEF Phases
    <3>2. sent' \in Sendable /\ tx_fail' \in BOOLEAN
      BY <2>1 DEF Harmless
    <3> QED BY <1>0, <1>1, <1>2, <1>t, <1>a, <1>c, <3>1, <3>2 DEF TypeOK
  <2>4. HardCap' /\ TriggerGated'
    BY <2>1, <2>2 DEF HardCap, TriggerGated
  <2>5. BridgeHeld' /\ Progress'
    BY <1>0, <1>2, <1>t, <2>2
       DEF IInv, BridgeHeld, Progress, ReleasesTrigger
  <2>6. Pace'
    BY <1>0, <1>2, <1>t, PaceKept
  <2> QED BY <2>3, <2>4, <2>5, <2>6 DEF IInv
<1>3. CASE /\ ConfirmsWrite /\ confirmed' = TRUE /\ phase' = "CP_DONE"
           /\ CutShort(2) /\ sent' = Nothing /\ tx_fail' = FALSE
           /\ UNCHANGED phase_secs
  <2>1. /\ wake_hold' \in 0..WakeSecs /\ wake_hold' <= wake_hold
        /\ wake_hold' \in Nat
    BY <1>3, <1>t, CutShortFacts
  <2>2. TypeOK'
    <3>1. phase' \in Phases /\ sent' \in Sendable
      BY <1>3, NothingSent DEF Phases
    <3> QED BY <1>0, <1>1, <1>3, <1>t, <1>a, <1>c, <2>1, <3>1 DEF TypeOK
  <2>3. BridgeHeld' /\ Progress'
    BY <1>3 DEF BridgeHeld, Progress, AwaitsOpMode
  <2>4. Pace'
    BY <1>0, <1>3, <1>t, <2>1, PaceKept
  <2> QED BY <1>3, <2>2, <2>3, <2>4, NothingSent DEF IInv
<1>4. CASE /\ sent' = Nothing /\ tx_fail' = FALSE
           /\ UNCHANGED <<phase, phase_secs, confirmed, wake_hold>>
  <2>1. TypeOK'
    <3>1. sent' \in Sendable
      BY <1>4, NothingSent
    <3> QED BY <1>0, <1>1, <1>4, <1>t, <1>a, <1>c, <3>1 DEF TypeOK
  <2>2. BridgeHeld' /\ Progress'
    BY <1>0, <1>4, <1>a
       DEF IInv, BridgeHeld, Progress, AwaitsOpMode, WriteOnly
  <2>3. Pace'
    BY <1>0, <1>4, <1>t, PaceKept
  <2> QED BY <1>4, <2>1, <2>2, <2>3, NothingSent DEF IInv
<1> QED BY <1>2, <1>3, <1>4 DEF WriteEcho

LEMMA ProfileReplyKeeps ==
  ASSUME IInv, NEW e \in Status, ProfileReply(e)
  PROVE  IInv'
<1> USE DEF command
<1>0. /\ phase = "CP_PROFILE" /\ ~have_profile0 /\ e.type = "profiles"
      /\ Reflect(e) /\ profile0' = e.profile /\ have_profile0' = TRUE
      /\ climit' = IF op = "BC_SET_CURRENT" THEN climit ELSE e.profile.maxCurrent
      /\ ArmAndAdvance(e.profile, FALSE, phase')
      /\ phase_secs' = IF phase' = phase THEN phase_secs ELSE 0
      /\ UNCHANGED <<op, param, enable, apply, confirmed, error, wake_hold,
                     charging, acked>>
  BY DEF ProfileReply
<1>1. hvac' \in BOOLEAN /\ nm' = FALSE /\ alert' = "none"
  BY <1>0, ReflectFacts DEF IInv
<1>2. e.profile \in Record
  BY <1>0, HeardFacts
<1>t. /\ TypeOK /\ wake_hold \in 0..WakeSecs /\ WakeSecs \in Nat
      /\ RetrySecs \in Nat /\ phase_secs \in Nat /\ writes = 0
  BY <1>0, SecsAssumption DEF IInv, TypeOK, Pace
<1>3. /\ Harmless /\ HardCap' /\ arm_skipped' \in BOOLEAN
      /\ \/ /\ phase' = "CP_CONFIRM" /\ writes' = writes /\ arm_skipped'
            /\ e.profile.operation = Target(op, apply, e.profile.operation)
            /\ ~WriteOnly
         \/ phase' = phase /\ sent' = Nothing /\ writes' = writes
         \/ /\ phase' = IF WriteOnly THEN "CP_CONFIRM" ELSE "CP_ARM_WAIT"
            /\ writes' = writes + 1 /\ sent'.type = "write"
  BY <1>0, <1>2, <1>t, ArmAndAdvanceFacts
<1>4. /\ phase' \in Phases \ {"CP_IDLE", "CP_DONE"} /\ writes' \in {0, 1}
      /\ writes' = 1 => phase_secs' = 0
  BY <1>0, <1>3, <1>t DEF Phases
<1>5. TypeOK'
  <2>1. climit' \in 0..255
    BY <1>0, <1>2, <1>t DEF TypeOK, Record
  <2>2. sent' \in Sendable /\ tx_fail' \in BOOLEAN /\ phase_secs' \in Nat
    BY <1>0, <1>3, <1>t DEF Harmless
  <2>3. phase' \in Phases /\ writes' \in Nat
    BY <1>4
  <2>4. /\ profile0' \in Record /\ have_profile0' \in BOOLEAN
        /\ arm_skipped' \in BOOLEAN
    BY <1>0, <1>2, <1>3
  <2>5. UNCHANGED <<op, param, enable, apply, confirmed, error, wake_hold,
                    charging, acked>>
    BY <1>0
  <2> QED BY <1>1, <1>t, <2>1, <2>2, <2>3, <2>4, <2>5 DEF TypeOK
<1>6. wake_hold > 0 /\ ~confirmed
  BY <1>0, <1>t DEF IInv, BridgeHeld, Progress
<1>7. BridgeHeld'
  BY <1>0, <1>4, <1>6 DEF BridgeHeld
<1>8. Progress' /\ TriggerGated'
  <2>1. CASE /\ phase' = "CP_CONFIRM" /\ writes' = writes /\ arm_skipped'
             /\ e.profile.operation = Target(op, apply, e.profile.operation)
             /\ ~WriteOnly
    <3>1. Armed4Trigger'
      BY <1>0, <2>1 DEF Armed4Trigger
    <3> QED BY <1>0, <1>6, <2>1, <3>1
            DEF Progress, AwaitsOpMode, TriggerGated
  <2>2. CASE phase' = phase /\ sent' = Nothing /\ writes' = writes
    BY <1>0, <1>6, <2>2, NothingSent DEF Progress, AwaitsOpMode
  <2>3. CASE /\ phase' = IF WriteOnly THEN "CP_CONFIRM" ELSE "CP_ARM_WAIT"
             /\ writes' = writes + 1 /\ sent'.type = "write"
    BY <1>0, <1>t, <1>6, <2>3
       DEF Progress, AwaitsOpMode, WriteOnly, TriggerGated
  <2> QED BY <1>3, <2>1, <2>2, <2>3
<1>9. Pace'
  <2>1. have_profile0' /\ wake_hold' = wake_hold /\ WakeSecs - wake_hold >= 0
    BY <1>0, <1>t
  <2>2. ASSUME writes' > 0 PROVE (writes' - 1) * RetrySecs + phase_secs' = 0
    BY <1>t, <1>4, <2>2
  <2> QED BY <2>1, <2>2 DEF Pace
<1> QED BY <1>3, <1>5, <1>7, <1>8, <1>9 DEF IInv

LEMMA IncomingKeeps ==
  ASSUME IInv, NEW e \in Status, IncomingBapStatus(e)
  PROVE  IInv'
BY FirstContactKeeps, HandshakeAckKeeps, BapErrorKeeps, OpModeEchoKeeps,
   WriteEchoKeeps, ProfileReplyKeeps, IgnoredKeeps DEF IncomingBapStatus

-----------------------------------------------------------------------------
(* The safety theorems.                                                    *)

LEMMA OpenNextKeeps == IInv /\ [OpenNext]_vars => IInv'
<1> SUFFICES ASSUME IInv, [OpenNext]_vars PROVE IInv'
  OBVIOUS
<1>1. CASE Command
  BY <1>1, CommandKeeps
<1>2. ASSUME NEW bus_alive \in BOOLEAN, Ticker1(bus_alive) PROVE IInv'
  BY <1>2, TickKeeps
<1>3. ASSUME NEW e \in Status, IncomingBapStatus(e) PROVE IInv'
  BY <1>3, IncomingKeeps
<1>4. ASSUME NEW on \in BOOLEAN, IncomingClimaEcuStatus(on) PROVE IInv'
  BY <1>4, IdleStepKeeps
     DEF IInv, TypeOK, IncomingClimaEcuStatus, Quiet, command, history
<1>5. ASSUME NEW on \in BOOLEAN, ChargeStatus(on) PROVE IInv'
  BY <1>5, IdleStepKeeps
     DEF IInv, TypeOK, ChargeStatus, Quiet, command, history
<1>6. CASE UNCHANGED vars
  BY <1>6 DEF vars, command, metrics, history, IInv, TypeOK, BridgeHeld,
              HardCap, TriggerGated, Progress, Pace, AwaitsOpMode, WriteOnly,
              Armed4Trigger
<1> QED BY <1>1, <1>2, <1>3, <1>4, <1>5, <1>6 DEF OpenNext

LEMMA NextKeeps == IInv /\ [Next]_vars => IInv'
BY OpenNextKeeps, NextIsOpen

\* Every reachable state satisfies the inductive invariant.
THEOREM Invariance == Spec => []IInv
BY InitIInv, NextKeeps, PTL DEF Spec

\* The variables keep their types whatever the BCU says (the members of
\* VWeGolfBatteryControl, .h:148-171).
THEOREM TypeCorrect == Spec => []TypeOK
<1>1. IInv => TypeOK
  BY DEF IInv
<1> QED BY <1>1, Invariance, PTL

\* No write above the hard cap, for every reported and requested current
\* (SendArm's clamp).
THEOREM NeverAboveHardCap == Spec => []HardCap
<1>1. IInv => HardCap
  BY DEF IInv
<1> QED BY <1>1, Invariance, PTL

\* The wake bridge is held exactly while a command may act (Begin, Abort and
\* Ticker1's release).
THEOREM BridgeAlwaysHeld == Spec => []BridgeHeld
<1>1. IInv => BridgeHeld
  BY DEF IInv
<1> QED BY <1>1, Invariance, PTL

\* No trigger without an arm: SendTrigger's callers in Ticker1 and
\* IncomingBapStatus, in every order of ticks, frames and commands.
THEOREM TriggersAreGated == Spec => []TriggerGated
<1>1. IInv => TriggerGated
  BY DEF IInv
<1> QED BY <1>1, Invariance, PTL

\* The backstop of Ticker1 writes profile 0 at most once in each RetrySecs of
\* the window, for every window and retry period.
THEOREM NeverHammered == Spec => []NotHammered
<1>1. IInv => NotHammered
  <2> SUFFICES ASSUME IInv PROVE NotHammered
    OBVIOUS
  <2>1. /\ writes \in Nat /\ RetrySecs \in Nat /\ phase_secs \in Nat
        /\ WakeSecs \in Nat /\ wake_hold \in Nat /\ wake_hold <= WakeSecs
    BY SecsAssumption DEF IInv, TypeOK
  <2>2. CASE writes = 0
    <3>1. (writes - 1) * RetrySecs = -RetrySecs
      BY <2>1, <2>2
    <3> QED BY <2>1, <3>1 DEF NotHammered
  <2>3. CASE writes > 0
    <3> DEFINE w == (writes - 1) * RetrySecs
    <3>1. w \in Int
      BY <2>1
    <3>2. w + phase_secs <= WakeSecs - wake_hold
      BY <2>3 DEF IInv, Pace
    <3> HIDE DEF w
    <3>3. w <= WakeSecs - wake_hold
      BY <2>1, <3>1, <3>2
    <3> QED BY <3>3 DEF NotHammered, w
  <2> QED BY <2>1, <2>2, <2>3
<1> QED BY <1>1, Invariance, PTL

-----------------------------------------------------------------------------
(* Verdicts.                                                               *)

\* What a tick does to a command that has its verdict, or to none.
LEMMA SettledTick ==
  ASSUME IInv, NEW bus_alive \in BOOLEAN, Ticker1(bus_alive),
         phase \in {"CP_IDLE", "CP_DONE"}
  PROVE  sent' = Nothing /\ UNCHANGED <<confirmed, error>>
<1>1. CASE TickIdle(bus_alive)
  BY <1>1 DEF TickIdle, Quiet
<1>2. CASE TickActive(bus_alive)
  <2>1. PICK next \in Phases : Backstop(next)
    BY <1>2 DEF TickActive
  <2>2. phase = "CP_DONE" /\ UNCHANGED <<confirmed, error>>
    BY <1>2 DEF TickActive
  <2> QED BY <2>1, <2>2, BackstopFacts
<1> QED BY <1>1, <1>2 DEF Ticker1

LEMMA SettledFrame ==
  ASSUME IInv, NEW e \in Status, IncomingBapStatus(e),
         phase \in {"CP_IDLE", "CP_DONE"}
  PROVE  KeepsVerdict
<1>1. phase \notin {"CP_WAKE", "CP_HANDSHAKE", "CP_PROFILE", "CP_ARM_WAIT",
                   "CP_CONFIRM"}
  OBVIOUS
<1>2. CASE BapError(e)
  BY <1>2 DEF BapError, KeepsVerdict
<1>3. CASE OpModeEcho(e)
  <2>1. ~Confirms(e)
    BY <1>1 DEF Confirms, AwaitsOpMode
  <2>2. confirmed \in BOOLEAN /\ error \in BOOLEAN
    BY DEF IInv, TypeOK
  <2>3. sent' = Nothing /\ confirmed' = confirmed /\ phase' = phase
        /\ (phase = "CP_DONE" /\ error => error')
    BY <1>3, <2>1, <2>2 DEF OpModeEcho, Pardon
  <2> QED BY <2>3 DEF KeepsVerdict
<1>4. CASE WriteEcho(e)
  <2>1. ~ReleasesTrigger /\ ~ConfirmsWrite
    BY <1>1 DEF ReleasesTrigger, ConfirmsWrite
  <2> QED BY <1>4, <2>1 DEF WriteEcho, KeepsVerdict
<1>5. CASE Ignored(e)
  BY <1>5 DEF Ignored, KeepsVerdict
<1> QED BY <1>1, <1>2, <1>3, <1>4, <1>5
        DEF IncomingBapStatus, FirstContact, HandshakeAck, ProfileReply

LEMMA VerdictStep ==
  ASSUME IInv, [OpenNext]_vars, phase \in {"CP_IDLE", "CP_DONE"},
         ~UNCHANGED vars
  PROVE  KeepsVerdict
<1>1. CASE Command
  BY <1>1 DEF Command, Climate, Charge, SetChargeCurrent, Begin,
              ChargeStopBlocked, Abort, Quiet, KeepsVerdict
<1>2. ASSUME NEW bus_alive \in BOOLEAN, Ticker1(bus_alive) PROVE KeepsVerdict
  BY <1>2, SettledTick DEF KeepsVerdict
<1>3. ASSUME NEW e \in Status, IncomingBapStatus(e) PROVE KeepsVerdict
  BY <1>3, SettledFrame
<1>4. ASSUME NEW on \in BOOLEAN,
             IncomingClimaEcuStatus(on) \/ ChargeStatus(on)
      PROVE  KeepsVerdict
  BY <1>4 DEF IncomingClimaEcuStatus, ChargeStatus, Quiet, KeepsVerdict
<1> QED BY <1>1, <1>2, <1>3, <1>4 DEF OpenNext

\* Once a command is confirmed, rejected or over, nothing more is sent for it
\* and no late echo changes the verdict (the BAP ERROR branch and the CP_DONE
\* guards of IncomingBapStatus, Ticker1's default branch).
THEOREM VerdictsStand == Spec => VerdictStands
<1>1. IInv /\ [Next]_vars
        => [(phase \in {"CP_IDLE", "CP_DONE"}) => KeepsVerdict]_vars
  BY VerdictStep, NextIsOpen
<1> QED BY <1>1, Invariance, PTL DEF Spec, VerdictStands

-----------------------------------------------------------------------------
(* The refinement of CommandLifecycle.                                     *)

\* A step that changes neither the hold nor the verdict is invisible.
LEMMA InnerStep ==
  ASSUME wake_hold' = wake_hold, confirmed' = confirmed,
         wake_hold = 0 \/ confirmed
           \/ (phase = "CP_DONE" <=> phase' = "CP_DONE"),
         alert' = "none"
  PROVE  Lifecycle!LifeNext
BY DEF Lifecycle!LifeNext, Lifecycle!Inner, Verdict, Notice

LEMMA LifecycleCommand ==
  ASSUME IInv, Command
  PROVE  Lifecycle!LifeNext
<1>1. ASSUME NEW o, NEW on, NEW prm, Begin(o, on, prm)
      PROVE  Lifecycle!LifeNext
  BY <1>1, SecsAssumption
     DEF Begin, ClearCommand, Lifecycle!LifeNext, Lifecycle!Start, Verdict,
         Notice
<1>2. CASE ChargeStopBlocked
  BY <1>2 DEF ChargeStopBlocked, Lifecycle!LifeNext, Lifecycle!Refuse, Verdict,
              Notice
<1>3. CASE Abort
  BY <1>3 DEF Abort, Quiet, Lifecycle!LifeNext, Lifecycle!Cancel, Verdict,
              Notice
<1> QED BY <1>1, <1>2, <1>3 DEF Command, Climate, Charge, SetChargeCurrent

LEMMA LifecycleTick ==
  ASSUME IInv, NEW bus_alive \in BOOLEAN, Ticker1(bus_alive)
  PROVE  Lifecycle!LifeNext
<1>1. CASE TickIdle(bus_alive)
  BY <1>1, InnerStep DEF TickIdle, Quiet
<1>2. CASE TickActive(bus_alive)
  <2>1. PICK next \in Phases :
          /\ Backstop(next)
          /\ phase' = IF wake_hold = 1 THEN "CP_IDLE" ELSE next
    BY <1>2 DEF TickActive
  <2>2. /\ phase # "CP_IDLE" /\ wake_hold > 0 /\ wake_hold' = wake_hold - 1
        /\ confirmed' = confirmed
        /\ alert' = IF wake_hold = 1 THEN Outcome ELSE "none"
    BY <1>2 DEF TickActive, CountDown
  <2>3. wake_hold \in Nat
    BY SecsAssumption DEF IInv, TypeOK
  <2>4. CASE wake_hold = 1
    <3>1. wake_hold' = 0
      BY <2>2, <2>4
    <3>2. Verdict' = "none" /\ (Verdict = "confirmed" <=> confirmed)
      BY <2>4, <3>1 DEF Verdict
    <3>3. Notice' = IF confirmed THEN "none" ELSE "failure"
      BY <2>2, <2>4 DEF Notice, Outcome
    <3> QED BY <2>4, <3>1, <3>2, <3>3
            DEF Lifecycle!LifeNext, Lifecycle!Release
  <2>5. CASE wake_hold > 1
    <3>1. phase = "CP_DONE" <=> phase' = "CP_DONE"
      BY <2>1, <2>2, <2>5, BackstopFacts
    <3>2. wake_hold' > 0
      BY <2>2, <2>3, <2>5
    <3>3. Verdict' = Verdict /\ Notice' = "none"
      BY <2>2, <2>3, <2>5, <3>1, <3>2 DEF Verdict, Notice
    <3> QED BY <2>2, <2>5, <3>3 DEF Lifecycle!LifeNext, Lifecycle!Second
  <2> QED BY <2>2, <2>3, <2>4, <2>5
<1> QED BY <1>1, <1>2 DEF Ticker1

\* The confirmation of a command that has no verdict yet.
LEMMA LifecycleConfirm ==
  ASSUME IInv, phase = "CP_CONFIRM", confirmed' = TRUE, CutShort(2),
         alert' = "none"
  PROVE  Lifecycle!LifeNext
<1>1. /\ wake_hold > 0 /\ ~confirmed /\ wake_hold \in Nat
  BY SecsAssumption DEF IInv, TypeOK, BridgeHeld, Progress
<1>2. wake_hold' \in {r \in 1..2 : r <= wake_hold}
  BY <1>1 DEF CutShort, Lesser
<1>3. Verdict = "pending" /\ Verdict' = "confirmed" /\ Notice' = "none"
  BY <1>1, <1>2 DEF Verdict, Notice
<1> QED BY <1>2, <1>3 DEF Lifecycle!LifeNext, Lifecycle!Confirm

LEMMA LifecycleError ==
  ASSUME IInv, NEW e \in Status, BapError(e)
  PROVE  Lifecycle!LifeNext
<1>1. /\ wake_hold \in Nat /\ wake_hold' = Lesser(wake_hold, 1)
      /\ phase' = "CP_DONE" /\ confirmed' = confirmed /\ alert' = "none"
  BY SecsAssumption DEF IInv, TypeOK, BapError, CutShort, Reflect
<1>2. CASE wake_hold = 0
  <2>1. wake_hold' = wake_hold
    BY <1>1, <1>2 DEF Lesser
  <2> QED BY <1>1, <1>2, <2>1, InnerStep
<1>3. CASE wake_hold > 0
  <2>1. wake_hold' = 1
    BY <1>1, <1>3 DEF Lesser
  <2>2. CASE confirmed
    BY <1>1, <1>3, <2>1, <2>2
       DEF Lifecycle!LifeNext, Lifecycle!Hasten, Verdict, Notice
  <2>3. CASE ~confirmed /\ phase = "CP_DONE"
    BY <1>1, <1>3, <2>1, <2>3
       DEF Lifecycle!LifeNext, Lifecycle!Hasten, Verdict, Notice
  <2>4. CASE ~confirmed /\ phase # "CP_DONE"
    BY <1>1, <1>3, <2>1, <2>4
       DEF Lifecycle!LifeNext, Lifecycle!Reject, Verdict, Notice
  <2> QED BY <2>2, <2>3, <2>4
<1> QED BY <1>1, <1>2, <1>3

LEMMA LifecycleFrame ==
  ASSUME IInv, NEW e \in Status, IncomingBapStatus(e)
  PROVE  Lifecycle!LifeNext
<1>t. TypeOK /\ confirmed \in BOOLEAN
  BY DEF IInv, TypeOK
<1>1. CASE FirstContact(e)
  BY <1>1, InnerStep DEF FirstContact, Reflect
<1>2. CASE HandshakeAck(e)
  BY <1>2, InnerStep DEF HandshakeAck, Reflect
<1>3. CASE BapError(e)
  BY <1>3, LifecycleError
<1>4. CASE OpModeEcho(e)
  <2>1. CASE Confirms(e)
    BY <1>4, <2>1, LifecycleConfirm
       DEF OpModeEcho, Confirms, AwaitsOpMode, Reflect
  <2>2. CASE ~Confirms(e)
    BY <1>4, <1>t, <2>2, InnerStep DEF OpModeEcho, Reflect
  <2> QED BY <2>1, <2>2
<1>5. CASE WriteEcho(e)
  <2>1. alert' = "none"
    BY <1>5 DEF WriteEcho, Reflect
  <2>2. CASE /\ ReleasesTrigger /\ phase' = "CP_CONFIRM"
             /\ UNCHANGED <<confirmed, wake_hold>>
    BY <2>1, <2>2, InnerStep DEF ReleasesTrigger
  <2>3. CASE ConfirmsWrite /\ confirmed' = TRUE /\ CutShort(2)
    BY <2>1, <2>3, LifecycleConfirm DEF ConfirmsWrite
  <2>4. CASE UNCHANGED <<phase, confirmed, wake_hold>>
    BY <2>1, <2>4, InnerStep
  <2> QED BY <1>5, <2>2, <2>3, <2>4 DEF WriteEcho
<1>6. CASE ProfileReply(e)
  <2>1. /\ phase = "CP_PROFILE" /\ ArmAndAdvance(e.profile, FALSE, phase')
        /\ e.profile \in Record /\ alert' = "none"
        /\ UNCHANGED <<confirmed, wake_hold>>
    BY <1>6, HeardFacts DEF ProfileReply, Reflect
  <2>2. phase' # "CP_DONE"
    BY <1>t, <2>1, ArmAndAdvanceFacts
  <2> QED BY <2>1, <2>2, InnerStep
<1>7. CASE Ignored(e)
  BY <1>7, InnerStep DEF Ignored, Reflect
<1> QED BY <1>1, <1>2, <1>3, <1>4, <1>5, <1>6, <1>7 DEF IncomingBapStatus

LEMMA LifecycleStep ==
  ASSUME IInv, [OpenNext]_vars
  PROVE  [Lifecycle!LifeNext]_(Lifecycle!lifevars)
<1>1. CASE Command
  BY <1>1, LifecycleCommand
<1>2. ASSUME NEW bus_alive \in BOOLEAN, Ticker1(bus_alive)
      PROVE  Lifecycle!LifeNext
  BY <1>2, LifecycleTick
<1>3. ASSUME NEW e \in Status, IncomingBapStatus(e)
      PROVE  Lifecycle!LifeNext
  BY <1>3, LifecycleFrame
<1>4. ASSUME NEW on \in BOOLEAN,
             IncomingClimaEcuStatus(on) \/ ChargeStatus(on)
      PROVE  Lifecycle!LifeNext
  BY <1>4, InnerStep DEF IncomingClimaEcuStatus, ChargeStatus, Quiet
<1>5. CASE UNCHANGED vars
  BY <1>5 DEF vars, Lifecycle!lifevars, Verdict, Notice
<1> QED BY <1>1, <1>2, <1>3, <1>4, <1>5 DEF OpenNext

LEMMA LifecycleInit == Init => Lifecycle!LifeInit
BY DEF Init, Lifecycle!LifeInit, Verdict, Notice

\* The controller implements the lifecycle a user sees: one verdict for each
\* command, the bridge released within the window, and a notification exactly
\* when it is released without a confirmation.
THEOREM LifecycleImplemented == Spec => ImplementsLifecycle
BY LifecycleInit, LifecycleStep, NextIsOpen, Invariance, PTL
   DEF Spec, ImplementsLifecycle, Lifecycle!LifeSpec
=============================================================================
