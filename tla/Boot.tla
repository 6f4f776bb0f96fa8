-------------------------------- MODULE Boot --------------------------------
(***************************************************************************)
(* Boot (main/ovms_boot.{h,cpp}) with the part of Housekeeping that uses   *)
(* it: what the module remembers across resets, and how it goes down.      *)
(*                                                                         *)
(* boot_data lies in RTC memory: a crash, a restart and a deep sleep leave *)
(* it, a power cycle or a wrong checksum clears it.  Each boot decides     *)
(* from its flags whether the reset was planned or a crash, counts the     *)
(* crashes that came before the system was stable, and Housekeeping starts *)
(* less and less of the firmware when they pile up, and next to nothing    *)
(* for the boot in which a partition update goes on.                       *)
(*                                                                         *)
(* Restart signals system.shuttingdown.  Components that need time         *)
(* announce it (ShutdownPending) from their handler of that event and      *)
(* report (ShutdownReady) when they are done, on the events task or on a   *)
(* task of their own.  The reset comes 2 seconds after the last of them,   *)
(* or when the time given has passed.                                      *)
(* Abstracted: the debug data, the counters that are only displayed and    *)
(* the 12 V calibration.                                                   *)
(***************************************************************************)
EXTENDS Integers, FiniteSets, Sequences

CONSTANTS
  MinimalCount,  \* AUTO_INIT_MINIMAL_CRASHCOUNT, 5 in the build
  DisableCount,  \* AUTO_INIT_DISABLE_CRASHCOUNT, 10
  Grace,         \* the seconds given to shut down, 70
  Width,         \* m_shutdown_pending is unsigned: 2^32 in the build
  Order,         \* the components, in the order their handlers are called
  OwnTask,       \* those that report from a task of their own
  Once,          \* those that announce only for the first Restart (the poller)
  MayBeDown,     \* those that may be off when the restart comes (the modem)
  Updates,       \* the kinds of update that restart: firmware, partition
  MaxCrashes,    \* bound: early crashes in a row
  MaxRestarts    \* bound: Restart calls in one boot

Components == {Order[i] : i \in DOMAIN Order}
Levels == {"off", "minimal", "full"}
Planned == {"SoftReset", "FirmwareUpdate", "PartitionUpdate"}
Reasons == Planned \cup {"PowerOn", "Wakeup", "EarlyCrash", "Crash"}

ASSUME BootAssumption ==
  /\ MinimalCount \in Nat /\ DisableCount \in Nat
  /\ MinimalCount <= DisableCount
  /\ Grace \in Nat /\ Grace > 2
  /\ Width \in Nat /\ Len(Order) + 1 < Width
  /\ Order \in Seq(Components)
  /\ \A i, j \in DOMAIN Order : Order[i] = Order[j] => i = j
  /\ MayBeDown \subseteq OwnTask
  /\ Order # <<>> => Order[1] \notin OwnTask
  /\ Updates \subseteq {"firmware", "partition"}
  /\ MaxCrashes \in Nat /\ MaxRestarts \in Nat

VARIABLES
  power,         \* up, or asleep in deep sleep
  rtc,           \* boot_data: its flags, and crash_count_early
  reason,        \* m_bootreason
  conf, level,   \* the configured init level, and the one in use
  shutting,      \* m_shutting_down
  deepsleep,     \* m_shutdown_deepsleep
  pending,       \* m_shutdown_pending
  timer,         \* m_shutdown_timer
  tickers,       \* how many Ticker1 handlers are registered
  queued,        \* system.shuttingdown events in the queue
  turn,          \* the handler to be called next, 0 when none is dispatched
  going,         \* system.shutdown has been signalled
  busy,          \* components that have announced and not reported
  known,         \* components that have announced in this boot
  down,          \* components that are off: they announce nothing, but their
                 \* task reports when it sees IsShuttingDown
  silent,        \* those of them that have not reported
  rounds,        \* history: Restart calls in this boot
  given,         \* history: seconds given since the last of them
  past           \* history: what really ended the last boot, and the crashes

store == <<rtc, reason, conf, level>>
vote ==
  <<pending, timer, tickers, queued, turn, going, busy, known, down, silent>>
books == <<rounds, given, past>>
vars == <<power, store, shutting, deepsleep, vote, books>>

Cleared == [soft |-> FALSE, firmware |-> FALSE, partition |-> FALSE,
            stable |-> FALSE, early |-> 0]

-----------------------------------------------------------------------------
(* Coming up: the constructor, and Housekeeping::Init.                     *)

Reason(r) ==
  CASE r.soft -> "SoftReset"
    [] ~r.soft /\ r.firmware -> "FirmwareUpdate"
    [] ~r.soft /\ ~r.firmware /\ r.partition -> "PartitionUpdate"
    [] ~r.soft /\ ~r.firmware /\ ~r.partition /\ ~r.stable -> "EarlyCrash"
    [] OTHER -> "Crash"

\* The counter after a reset that was neither a power cycle nor a wakeup.
Counted(r) ==
  CASE Reason(r) \in Planned -> [r EXCEPT !.early = 0]
    [] Reason(r) = "EarlyCrash" -> [r EXCEPT !.early = @ + 1]
    [] OTHER -> r

\* Mutant of FlagsReset: the flag of a restart is left set.
StableReset(r) == [r EXCEPT !.stable = FALSE]

FlagsReset(r) ==
  [r EXCEPT !.soft = FALSE, !.firmware = FALSE, !.partition = FALSE,
            !.stable = FALSE]

\* What is started, for the configured level c, the boot reason why and n early
\* crashes.
InitLevel(c, why, n) ==
  CASE why = "PartitionUpdate" \/ c = "off" \/ n >= DisableCount -> "off"
    [] why # "PartitionUpdate" /\ c = "full" /\ n < DisableCount
         /\ n >= MinimalCount -> "minimal"
    [] OTHER -> c

Idle ==
  /\ shutting' = FALSE /\ deepsleep' = FALSE
  /\ pending' = 0 /\ timer' = 0 /\ tickers' = 0 /\ queued' = 0 /\ turn' = 0
  /\ going' = FALSE /\ busy' = {} /\ known' = {}
  /\ down' \in SUBSET MayBeDown /\ silent' = down'
  /\ rounds' = 0 /\ given' = 0

\* What happened, for the properties only.  fell: what ended the last boot.
\* late: it was a crash, with a Restart under way.  streak: the crashes in a
\* row, each before the system was stable.  hidden: those up to the last late
\* one.
PastWith(fell, late, streak, hidden) ==
  [fell |-> fell, late |-> late, streak |-> streak, hidden |-> hidden]

Restarted == PastWith("restart", FALSE, 0, 0)
PoweredOn == PastWith("power", FALSE, 0, 0)
Slept == [past EXCEPT !.fell = "sleep", !.late = FALSE]

Crashed ==
  LET n == IF rtc.stable THEN past.streak ELSE past.streak + 1 IN
  PastWith(IF rtc.stable THEN "crash" ELSE "early", rounds > 0,
           n, IF rounds > 0 THEN n ELSE past.hidden)

\* The system comes up with the record r, for the reason why.
ComesUp(r, why, p) ==
  /\ power' = "up"
  /\ rtc' = FlagsReset(r) /\ reason' = why
  /\ level' = InitLevel(conf, why, r.early)
  /\ past' = p
  /\ UNCHANGED conf
  /\ Idle

Init ==
  /\ power = "up" /\ rtc = Cleared /\ reason = "PowerOn"
  /\ conf \in Levels /\ level = InitLevel(conf, "PowerOn", 0)
  /\ shutting = FALSE /\ deepsleep = FALSE
  /\ pending = 0 /\ timer = 0 /\ tickers = 0 /\ queued = 0 /\ turn = 0
  /\ going = FALSE /\ busy = {} /\ known = {}
  /\ down \in SUBSET MayBeDown /\ silent = down
  /\ rounds = 0 /\ given = 0
  /\ past = PoweredOn

\* A reset, with the record as it is.
Reboot(p) == ComesUp(Counted(rtc), Reason(rtc), p)

\* A power cycle, or a reset by the hardware in the middle of an update of the
\* record, which the checksum gives away.
PowerCycle == ComesUp(Cleared, "PowerOn", PoweredOn)

\* ErrorCallback brings the checksum up to date; the flags stay as they are.
Crash ==
  /\ power = "up" /\ past.streak < MaxCrashes
  /\ Reboot(Crashed)

\* The wakeup, when the 12 V level allows it; if not it sleeps on.
Wakeup ==
  /\ power = "asleep"
  /\ ComesUp(rtc, "Wakeup", Slept)

-----------------------------------------------------------------------------
(* While up.                                                               *)

\* Mutant of Settled: the early crashes are not forgotten.
SettledKeeping(r) == [r EXCEPT !.stable = TRUE]

Settled(r) == [r EXCEPT !.stable = TRUE, !.early = 0]

\* Housekeeping::Metrics after AUTO_INIT_STABLE_TIME: SetStable.
SetStable ==
  /\ power = "up" /\ ~rtc.stable
  /\ rtc' = Settled(rtc)
  /\ past' = [past EXCEPT !.streak = 0, !.hidden = 0]
  /\ UNCHANGED <<power, reason, conf, level, shutting, deepsleep, vote, rounds,
                 given>>

\* Mutant of TimeGiven: the timer is left to the reports.
NoTimeGiven == timer

TimeGiven == Grace

\* Restart and DeepSleep: the vote begins, or begins again.
Restart(sleep) ==
  /\ power = "up" /\ rounds < MaxRestarts
  /\ rtc' = [rtc EXCEPT !.soft = TRUE]
  /\ deepsleep' = (deepsleep \/ sleep)
  /\ shutting' = TRUE /\ pending' = 0 /\ timer' = TimeGiven
  /\ queued' = queued + 1
  /\ rounds' = rounds + 1 /\ given' = 0
  /\ UNCHANGED <<power, reason, conf, level, tickers, turn, going, busy, known,
                 down, silent, past>>

\* Restart(true).
RestartHard ==
  /\ power = "up"
  /\ ComesUp(Counted([rtc EXCEPT !.soft = TRUE]), "SoftReset", Restarted)

\* SetFirmwareUpdate and SetPartitionUpdate: their callers have called Restart.
SetUpdate(kind) ==
  /\ power = "up" /\ rounds > 0
  /\ rtc' = [rtc EXCEPT !.soft = FALSE, ![kind] = TRUE]
  /\ UNCHANGED <<power, reason, conf, level, shutting, deepsleep, vote, books>>

-----------------------------------------------------------------------------
(* The vote.                                                               *)

BeginShuttingdown ==
  /\ power = "up" /\ queued > 0 /\ turn = 0
  /\ turn' = 1 /\ queued' = queued - 1
  /\ UNCHANGED <<power, store, shutting, deepsleep, pending, timer, tickers,
                 going, busy, known, down, silent, books>>

\* The handler of the next component.
Announce ==
  LET p == Order[turn] IN
  /\ power = "up" /\ turn \in DOMAIN Order
  /\ turn' = turn + 1
  /\ IF p \in down \/ (p \in Once /\ p \in known)
       THEN UNCHANGED <<pending, busy, known>>
       ELSE /\ pending' = (pending + 1) % Width
            /\ busy' = busy \cup {p} /\ known' = known \cup {p}
  /\ UNCHANGED <<power, store, shutting, deepsleep, timer, tickers, queued,
                 going, down, silent, books>>

\* boot_shuttingdown_done, and then the Ticker1 handler that Restart posted
\* behind the event.
EndShuttingdown ==
  /\ power = "up" /\ turn = Len(Order) + 1
  /\ turn' = 0
  /\ timer' = IF pending = 0 THEN 2 ELSE timer
  /\ tickers' = tickers + 1
  /\ UNCHANGED <<power, store, shutting, deepsleep, pending, queued, going,
                 busy, known, down, silent, books>>

\* Mutant of Less: a signed count.
LessSigned == pending - 1

\* Mutant of Less: no look at what is left.
LessAlways == 0

Less == (pending + Width - 1) % Width

Reported ==
  /\ pending' = Less
  /\ timer' = IF Less = 0 THEN 2 ELSE timer

\* ShutdownReady.  The events task does nothing else while it calls handlers.
ShutdownReady(p) ==
  /\ power = "up" /\ p \in busy
  /\ p \in OwnTask \/ turn = 0
  /\ busy' = busy \ {p}
  /\ Reported
  /\ UNCHANGED <<power, store, shutting, deepsleep, tickers, queued, turn,
                 going, known, down, silent, books>>

\* The task of a component that is down already ends (modem::Task).
ReadyUnannounced(p) ==
  /\ power = "up" /\ shutting /\ p \in silent
  /\ silent' = silent \ {p}
  /\ Reported
  /\ UNCHANGED <<power, store, shutting, deepsleep, tickers, queued, turn,
                 going, busy, known, down, books>>

\* A second passes: each Ticker1 handler counts down.
Tick ==
  /\ power = "up" /\ turn = 0 /\ tickers > 0 /\ timer > 0
  /\ timer' = IF timer > tickers THEN timer - tickers ELSE 0
  /\ going' = (going \/ timer <= tickers)
  /\ given' = IF given < Grace THEN given + 1 ELSE given
  /\ UNCHANGED <<power, store, shutting, deepsleep, pending, tickers, queued,
                 turn, busy, known, down, silent, rounds, past>>

\* boot_shutdown_done.
GoDown ==
  /\ power = "up" /\ going /\ turn = 0
  /\ IF deepsleep
       THEN /\ power' = "asleep"
            /\ UNCHANGED <<store, shutting, deepsleep, vote, books>>
       ELSE Reboot(Restarted)

-----------------------------------------------------------------------------
Next ==
  \/ PowerCycle \/ Crash \/ Wakeup
  \/ SetStable
  \/ \E sleep \in BOOLEAN : Restart(sleep)
  \/ RestartHard
  \/ \E kind \in Updates : SetUpdate(kind)
  \/ BeginShuttingdown \/ Announce \/ EndShuttingdown
  \/ \E p \in Components : ShutdownReady(p) \/ ReadyUnannounced(p)
  \/ Tick \/ GoDown

Spec == Init /\ [][Next]_vars

\* The events task goes on, and the ticker runs.  No component need report.
FairSpec ==
  /\ Spec
  /\ WF_vars(BeginShuttingdown) /\ WF_vars(Announce) /\ WF_vars(EndShuttingdown)
  /\ WF_vars(Tick) /\ WF_vars(GoDown)

-----------------------------------------------------------------------------
(* What the module promises.                                               *)

\* The types of the variables.
Record == [soft : BOOLEAN, firmware : BOOLEAN, partition : BOOLEAN,
           stable : BOOLEAN, early : Nat]
History == [fell : {"power", "sleep", "restart", "early", "crash"},
            late : BOOLEAN, streak : Nat, hidden : Nat]

TypeOK ==
  /\ power \in {"up", "asleep"} /\ rtc \in Record /\ reason \in Reasons
  /\ conf \in Levels /\ level \in Levels
  /\ shutting \in BOOLEAN /\ deepsleep \in BOOLEAN
  /\ pending \in 0 .. Width - 1 /\ timer \in 0 .. Grace
  /\ tickers \in 0 .. MaxRestarts /\ queued \in 0 .. MaxRestarts
  /\ turn \in 0 .. Len(Order) + 1 /\ going \in BOOLEAN
  /\ busy \subseteq Components /\ known \subseteq Components
  /\ down \subseteq MayBeDown /\ silent \subseteq down
  /\ rounds \in 0 .. MaxRestarts /\ given \in 0 .. Grace
  /\ past \in History

\* What is started fits the early crashes in a row, until the system is stable:
\* neither a planned restart nor a crash of a stable system takes anything away,
\* and no sleep and no update hides a crash loop.  Nothing is started for a
\* partition update.  The crashes up to one that came with a Restart under way
\* are lost: the record takes that one for the restart and forgets the others.
Lasting == past.streak - past.hidden

LoopProtection ==
  ~rtc.stable =>
    /\ reason = "PartitionUpdate" \/ Lasting >= DisableCount => level = "off"
    /\ Lasting >= MinimalCount => level # "full"
    /\ reason # "PartitionUpdate" /\ Lasting < MinimalCount => level = conf

\* A boot is explained by what really ended the one before: no flag outlives
\* the reset it was set for, in whatever order restarts, updates, sleeps and
\* crashes come.  The exception is a crash with a Restart under way: it is taken
\* for the restart.
ReasonIsTrueElse ==
  /\ reason \in Planned <=> past.fell = "restart" \/ past.late
  /\ reason = "EarlyCrash" <=> past.fell = "early" /\ ~past.late
  /\ reason = "Crash" <=> past.fell = "crash" /\ ~past.late

\* The system goes down for a restart only when every component that announced
\* work has reported, or had the time it was promised ("Give them 70 seconds
\* to shutdown").
NoEarlyReset == going => busy = {} \/ given >= Grace

\* The same, as far as it is true: for one Restart, and components that report
\* only what they announced.
NoEarlyResetElse == rounds <= 1 /\ silent = down => NoEarlyReset

\* A restart that was asked for comes, even if a component never reports.
RestartEnds == shutting ~> (power = "asleep" \/ ~shutting)
=============================================================================
