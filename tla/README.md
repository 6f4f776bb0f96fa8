# Verification of OVMS v3 with the VW e-Golf module

This directory holds TLA+ models of the parts of the Open Vehicle Monitoring
System firmware that have control logic worth a model, the TLC configurations that
check them, and machine-checked proofs (TLAPS).

The repository is a firmware framework (`vehicle/OVMS.V3/main` and its
`components`), some forty vehicle modules, a phone app and a server. Two groups
of components are modelled:

* what this fork adds, `components/vehicle_vwegolf`: remote climate, remote charging
  and the charge current limit, done by a conversation of telegrams with the
  car's battery control unit (BCU) over a bus that is asleep when the
  conversation starts;
* the services of the framework with state and concurrency of their own: events,
  notifications, boot and shutdown, and the CANopen worker.

All source paths below are relative to `src/vehicle/OVMS.V3/`; `vwegolf/` abbreviates
`components/vehicle_vwegolf/src/`.

## 1. Inventory

| Component | State | Operations | Interacts with |
|---|---|---|---|
| **BatteryControl command controller**, `vwegolf/vehicle_vwegolf_bat_ctrl.{h,cpp}` | the command in flight (operation, parameter, on/off), its phase, two second counters, the profile read from the car, four result flags | four user commands, `Ticker1`, `IncomingBapStatus`, `IncomingClimaEcuStatus`, `Abort` | called by three tasks without a lock; sends BAP telegrams and NM wake frames; sets the metrics `v.e.hvac` and `v.c.climit`; notifies the user |
| **BatteryControl codec**, `vwegolf/egolf/battery_control.{h,cpp}` | none (transaction counter) | profile record codec, current clamp, status classification, triggers | used by the controller only |
| **BAP transport**, `vwegolf/bap/bap.{h,cpp}` | per CAN id a pool of four partial telegrams | `sendElementFn`, `AssemblerT::feed`, `reset` | fed by the receive task; sends from whatever task calls it |
| **OCU session and e-Golf vehicle class**, `vwegolf/vehicle_vwegolf.cpp` | session active, grace and idle counters, one-shot body requests, bus activity | heartbeat 0x5A7, wake, lock, horn, indicators, offline; some forty frame decoders | events task, receive task, command tasks, heartbeat timer |
| **Events**, `main/ovms_events.{h,cpp}` | a bounded queue, the registrations, one-shot timers | register, deregister, signal now and later, dispatch | every component's tick comes from it; all tasks post to it |
| **Notifications**, `main/ovms_notify.{h,cpp}`, readers in `components/ovms_webserver`, `ovms_server_v2` | entries with a set of bits, one per reader that has still to process it; per web client a job queue; a shared backlog | raise, mark read, register and clear a reader, clean up | servers and web clients read from their own tasks and keep pointers |
| **Boot and shutdown**, `main/ovms_boot.{h,cpp}`, part of `main/ovms_housekeeping.cpp` | a record in RTC memory with flags and crash counters; the shutdown vote | boot, crash, stable, restart, deep sleep, announce / report readiness | all components that ask to be waited for |
| **CANopen worker**, `components/canopen` | a job queue, one job in progress, the last response, done queues | submit, execute, the four kinds of job, response, timeout, retry | client tasks, receive task, a node on the bus |
| CAN framework, poller, metrics, configuration, commands, scripting, servers, web, OTA, modem, network, other vehicles | — | — | appear only as "a task that calls", "a frame that was accepted or refused" |

Hard behaviours, by component:

* **Controller.** Replies and ticks race on two tasks, commands come from a
  third. Telegrams are lost in both directions, and a missing reply is
  repaired by a retry that must not repeat what is merely slow. A command is
  accepted while another is in flight. The unit keeps an operation in a stored
  profile and acts on whatever it holds when triggered. *Correct* means: no
  trigger before its profile is known to be in place; no maxCurrent above 32 A; a
  verdict that falls once and stands; a bus that is always let go back to sleep;
  the user is told exactly when a command failed.
* **Transport.** Telegrams interleave, frames are lost, the pool is small and
  the continuation numbers wrap. *Correct* means: what arrives whole is
  delivered, what did not is never delivered, nothing accumulates.
* **OCU session.** One-shot requests latched and cleared around an unchecked
  write, two idle counters, a session that must end although its own traffic keeps
  the bus busy.
* **Events.** Handlers that register, deregister and signal from within a
  dispatch, a queue at its limit, timers that are reused. *Correct* means: a signal
  has one place until it is finished, once; each handler is called once for each
  event after its registration, and not after it left.
* **Notifications.** Entries freed by one reader while another holds a pointer;
  clients that close with jobs in three places; a list that is tried and not
  waited for. *Correct* means: every reader gets its entry, the entry goes with
  the last of them, nobody points to one that is gone.
* **Boot.** Flags that must not outlive the reset they were set for; a vote whose
  participants come in any order, or not at all. *Correct* means: a boot explains
  itself truly, a crash loop is noticed, a restart waits and yet comes.
* **CANopen.** Late answers, answers left from an earlier job, notifications that are
  merged, a wait without a limit. *Correct* means: OK is true, each task gets its
  own result, every call returns.

`PROJECT.json` lists each hazard at its line, with the properties that cover it
or the reason that none does.

## 2. Modules

| Module | Models | Extends / uses |
|---|---|---|
| `CommandLifecycle` | what a command promises its user; no BAP in it | |
| `BatteryControl` | the controller, in an environment that may do anything | instances `CommandLifecycle` |
| `BatteryControlBus` | the controller, two lossy FIFO channels and the BCU | extends `BatteryControl` |
| `BatteryControlTasks` | the controller with the closing tick cut where it calls out | extends `BatteryControl` |
| `BapTransport` | segmentation against reassembly on one CAN id | |
| `VWeGolf` | the vehicle class: OCU session, heartbeat, body requests, calls into the controller | extends `CommandLifecycle`, the controller's promise |
| `OvmsEvents` | the event dispatcher with its tasks and timers | |
| `OvmsNotify` | notifications and three kinds of reader | |
| `Boot` | the record across resets, and the shutdown vote | |
| `CanOpen` | the worker, its clients, a node and a lossy bus | |
| `BatteryControlProofs`, `BatteryControlBusProofs`, `BapTransportProofs`, `VWeGolfProofs`, `OvmsEventsProofs`, `OvmsNotifyProofs`, `BootProofs`, `CanOpenProofs` | the theorems | extend the module they name and `TLAPS` (`BatteryControlBusProofs` also `BatteryControlProofs`) |
| `MC...` | values of the constants for TLC | extends the module it names |

### BatteryControl

The variables are the data members of `VWeGolfBatteryControl` without their
`m_`, the three metrics it reads or writes, and two kinds of bookkeeping:

* `sent`, `nm`, `alert` describe the step that led to the state: the telegram
  transmitted, whether an NM frame went out, the notification raised;
* `writes` and `acked` are history: how many profile writes this command got
  out, and whether an echo of a write has come in since the first of them.

| Action | Code |
|---|---|
| `Climate`, `Charge`, `SetChargeCurrent` | the methods of those names, all through `Begin` |
| `ChargeStopBlocked` | the refusal branch of `Charge` |
| `Abort` | `Abort` |
| `TickIdle`, `TickActive` (`Backstop`, `Resend`, `CountDown`, `Outcome`) | `Ticker1` |
| `FirstContact` | `IncomingBapStatus`, `CP_WAKE` branch (and the clearing of the reassembler) |
| `HandshakeAck`, `BapError`, `OpModeEcho`, `WriteEcho`, `ProfileReply`, `Ignored` | its branches for a complete status element |
| `SendArm`, `ArmAndAdvance` | `SendArm` and the statements that follow its two calls |
| `IncomingClimaEcuStatus`, `ChargeStatus` | the 0x5EA handler and the 0x594 decoder that sets `v.c.charging` |

Each action is the whole handler: an element that both reflects the climate
state and confirms the command does both in one step. A transmission the driver
refuses is a second outcome of the step that attempts it (`Transmit`).

Abstracted: the record's bytes other than operation and maxCurrent are one
opaque value; a status element is one of the six kinds the handler tells
apart; the transaction number, which the code never compares; `m_bcu_seen`,
which only decides when the reassembler is reset (`BapTransport` has the reset);
the cabin set point; texts and logging. A multi-frame write that fails half way
counts as not sent. The single-shot build (`VWEGOLF_BATCTRL_RETRY_ENABLED` 0) is
not modelled.

### BatteryControlBus

`to_bcu` and `to_module` are the two directions of the comfort bus. The unit is
external: there is no code for it here, so its actions are what
`docs/bat-ctrl-bap.md` and the controller's comments report it to do. It
acknowledges a handshake, drops a GET that precedes the acknowledgement, applies
a write some time after receiving it and then echoes it, runs the operation the
stored profile holds when triggered, echoes or rejects a trigger, and sends one
unasked frame a second, which may be the `49 42` heartbeat. `Lose` drops the head
of either channel; a refused transmission counts as a loss too.

Time is the tick. Whatever takes less than a second is over before the next one
(`BusQuiet`); a write may stay pending for less than `ApplyTicks` ticks. The
reported apply time is about 1.5 s, hence 2. `Overlap` and `EditsAnytime` are
FALSE in the runs: a command is given when the one before has settled, and the car
is not edited while one is in flight. What happens otherwise is described under
"Known divergences".

### BatteryControlTasks

The class takes no lock and its comment argues that none is needed. This module
cuts the one tick that closes a command in two, where it calls `MyNotify`, and
lets the handlers of the other tasks run in between. The same cut elsewhere
(`SendArm` frame by frame) is left to the plan.

### BapTransport

A sender per group cuts a telegram into a start and numbered continuations, one
frame per step. The receiver's pool is `slots`; `FeedStart`, `FeedCont`,
`allocSlot` and `findPending` are the functions of `AssemblerT`. A frame may be
lost, a sender may give up, the receiver may reset. Lengths are numbers of
chunks, so the byte arithmetic, the DLC and header checks and the routing by CAN
id are not covered.

### VWeGolf

The vehicle class as a node of the comfort bus. `Ticker1`, `IncomingFrameCan3`,
`SendOcuHeartbeat`, `CommandWakeup`, `Request` (the six body commands) and
`Offline` (the shell command) are the functions of those names; `WakeKcanBus` is
cut where it sleeps (`CommandWakeup` with the frame 0x17330301, `WakeRing` with the NM
frame, `OpenSession`), and two clients may be inside it at once. The class forwards
ticks, frames and commands to the controller, which would multiply the state: it appears
by the specification it implements (`CommandLifecycle`), which is what that theorem is
for, and by the NM frames of its bridge (one with the command, one a second). `recent`
stands for the 180 ms throttle; `owed`, `unheard` and `asked` are history. `unheard`
counts every frame that OVMS sends of its own accord to wake the bus or keep it awake
and that nobody has answered: the NM alives of the session, the two frames of
`WakeKcanBus`, the NM frames of the controller. `asked` counts those of them that a
command accounts for: two of a wakeup, `Window + 1` of a battery command. The 0x5A7
heartbeats (at most one for an NM frame of the session, and answers to received frames)
and the BAP requests are not counted.

The grace period is modelled as it is written, and it never ends a session (see
"Known divergences"). Two body requests pending together that share byte 6 are both
reset and only the later one is sent, and a refused frame resets them all the same
(`Cleared`, `SendOcuHeartbeat`): no property can promise their delivery.

### OvmsEvents

| Action | Code (`main/ovms_events.cpp`) |
|---|---|
| `RegisterEvent`, `DeregisterEvent` | the methods; both post to the queue, and `DeregisterEvent` on the events task also clears the callbacks at once |
| `SignalNow`, `SignalLater` | `SignalEvent` without a delay, which posts to the queue, and with one, which takes a timer that is not in use or creates one |
| `Expire`, `SignalScheduledEvent` | the timer service and its callback |
| `EventLoop` and its parts | `EventTask`, `HandleQueueAddHandler`, `HandleQueueRemoveHandlers`, `HandleQueueSignalEvent`: one handler per step, so that other tasks and the handler itself act in between |
| `Post`, `Overflow`, `Abort` | `xQueueSend` without a wait, `CheckQueueOverflow`, and the `abort()` after 100 ms |

The lists of `m_map` are modelled by the place of each handler in its list: `place[h]`
is 0 for one that is in none, `PushBack` gives the next number, and an erasure leaves the
others where they stand, as erasing from a `std::list` does. The loops of a dispatch
visit the handlers of the event and then those of `*`, each by increasing place
(`Before`, `Rest`, `IsNext`); nothing signals `*`.

Each signal is raised once and each handler registered once, which makes them
nameable; a signal's done function, semaphore and copied data are one count
(`done`). `called`, `before`, `silenced`, `going` are history. A caller deregisters at
most once. Left out: the events task's own abort after five seconds without a
message, the trace, the translation of ESP system events, the shell commands.

### OvmsNotify

`NotifyString` and `NotifyCommand` run the callbacks of every reader
(`QueueEntry`: `QueueEntry`, `NotifyReaders`, `Cleanup`); `NotifyCommand` raises a NORMAL
entry and then a VERBOSE one (`NotifyCommandRest`). Three readers: Pushover, done
within its callback; a server, which sends at once or looks for its entries later
(`ServerSends`); the clients of the web server, which keep a POINTER in a job queue
or, when the client list is locked, in a backlog shared by all
(`CreateHandler`, `CloseBegin`, `CloseEnd`, `UpdateTicker`, `StartJob`, `EndJob` are
the functions of `ovms_websockethandler.cpp`). The list is only tried by the
callbacks: `busy` is the set of clients whose attempt failed. `owed`, `unasked` and
`orphaned` are history.

One type stands for info, error and alert, which differ in nothing that matters
here; the types data and stream, the filters that are configured and the
retransmission of V2 are left out.

### Boot

`rtc` is `boot_data`, with its flags and `crash_count_early`. `ComesUp` is the
constructor followed by the part of `Housekeeping::Init` that uses the count;
`PowerCycle`, `Crash`, `Wakeup` and `RestartHard` lead to it, as does `GoDown`
(`boot_shutdown_done`). `Restart` covers `Restart(false)` and `DeepSleep`;
`BeginShuttingdown`, `Announce` (one component's handler of
`system.shuttingdown` each), `EndShuttingdown`, `ShutdownReady`, `ReadyUnannounced`
and `Tick` are the vote. `m_shutdown_pending` is unsigned and wraps (`Width`). The
components are constants: in which order their handlers run, which report from a task
of their own, which announce only once (the poller), which may be off when the
restart comes and then report without having announced (the modem). `InitLevel` has
the branch for a boot after a partition update, which starts nothing, before those that
look at the crash count.

`past`, `rounds` and `given` are history: the truth the record is compared with. `past`
records what ended the last boot (`fell`), a crash as a crash, and the true number of
early crashes in a row (`streak`); the record is nowhere asked. It also remembers whether
a crash came while a `Restart` was under way (`late`), and the early crashes up to the
last such one (`hidden`): there the code errs (see "Known divergences"), and the
properties name the case as their exception.

Left out: debug data and the crash report, displayed counters, 12 V calibration,
`boot clear`.

### CanOpen

One task (`pc`) executes jobs: `read` and `write` of an SDO register with one or two
segments, an NMT command with or without a wait for the state, and the wait for a
heartbeat. `ExecuteJob` and `ReceiveDone` are the synchronous client, shared by tasks
through a mutex; the asynchronous client submits without waiting. The receive
task (`IncomingFrame`) overwrites `response` and sets `note`, the notification that is
not counted twice; the worker's `pc` values `got` and `copy` let a frame arrive between
the notification, the check of the response and the copy of its data. Each wait may
time out, is repeated up to `MaxTries`, and ends with an abort frame.

Frames carry their node, and `RxID` is the ID a job listens to: that of SDO replies, or
of heartbeats, of its node. A notification outlives its job, and so does `m_job` when the
client has vanished (`Drop`): the next job may find what was meant for another, of
another node. `StateIn` is what a job then reads as a state: the first byte of whatever
frame lies in `m_response`, with all bits that the reply of a segment may have, the
number of unused bytes included. `left` (history) tells whether the job in hand took such
a notification from before it.

The nodes and the bus are external. On a `calm` bus an answer comes, if it comes,
before its request has timed out; otherwise it may be late at will. Left out: starting
and stopping workers, parameter checks (`COR_ERR_ParamRange`), EMCY and heartbeat
metrics, the shell, and the unlocked access to `m_clients`.

## 3. Runs

| Run | Bounds | Properties | Shows |
|---|---|---|---|
| `Controller` | window 4, retry 2, requests of 7 and 200 A, reported 10 and 40 A | `TypeOK`, `HardCap`, `BridgeHeld`, `TriggerGated`, `NotHammered`, `VerdictStands`, `ImplementsLifecycle` | the controller is right whatever it hears and whatever is refused |
| `BusLossy` | the build's 20 s and 2 s, 4 losses, heartbeats | `NoFalseFailure` | four losses do not fail a command, unless a heartbeat stands for the acknowledgement of a lost handshake |
| `BusSettled` | window 4, retry 2, 2 commands, 1 loss, 1 edit, rejections, heartbeats | `ConfirmedIsReal`, `RunsOwnOp`, `KeepsStoredSettings`, `BridgeReleased` | commands given one after the other do what they say, and nothing else, and end |
| `Bap` | 2 groups, 2 slots, numbers mod 2, 4 telegrams of up to 4 frames, 2 losses | `TypeOK`, `Genuine`, `Delivers`, `LeaksBounded` | reassembly inverts segmentation |
| `Vehicle` | timeout 3, cap 5, 2 clients, 3 body requests, 2 commands or wakeups | `TypeOK`, `NeverAlone`, `QuietWake`, `OnlyAsked`, `LetsSleep` | OVMS is a polite node of the bus, whichever part of it sends, and lets it sleep |
| `Events` | 2 handlers of 2 callers (one for `*`), 2 signals (one a ticker), queue 2, 2 timers, 1 other task | `TypeOK`, `SignalsConserved`, `NeverForEarlier`, `SilencedAtOnce`, `EverybodyHears`, `HandlerLeaves` | no signal is lost or finished twice, no handler is called too early, passed over, or called when silenced |
| `Notify` | 2 web clients, Pushover, a server, 3 entries, job queue 1, backlog 1 | `TypeOK`, `Accounted`, `HeldIsAliveElse`, `EntriesDrain` | nobody's notification is lost without a trace, and every entry goes one day |
| `Boot` | minimal after 1 early crash, off after 2, grace 3 s, width 8, poller and modem, 2 early crashes in a row, 2 restarts, partition updates | `TypeOK`, `LoopProtection`, `NoEarlyResetElse`, `ReasonIsTrueElse`, `RestartEnds` | boots explain themselves truly, but for a crash with a restart under way; a restart waits and comes |
| `CanOpen` | 2 nodes, 2 tasks, a register of 1 and one of 2 segments, 2 values, 2 tries, queues of 1, 2 jobs, 2 frames under way to the nodes and 1 back | `TypeOK`, `OkIsReal`, `OwnResult`, `JobsEnd` | OK is the job's own node's, and true on a calm bus; results go to who asked, calls return |
| `Tasks` | window 2 | `CommandNotLost` | **violated**, finding 1 |
| `NotifyHeld` | as `Notify` | `HeldIsAlive` | **violated**, finding 2 |
| `CanOpenStart` | as `CanOpen`, the command Start | `StartedIsStarted` | **violated**, finding 3 |

Why the bounds are enough. The controller's environment is unconstrained, so
`Controller` needs a window only long enough for two retries (4 = 2 x 2) and one
current on each side of the 32 A limit; the proofs cover the rest. In
`BusLossy` the window and the period are the build's own; the losses are half of what
the theorem allows for, and a heartbeat may come in every second. `BusSettled` needs the
window to end at every phase, which a short one reaches sooner, and a second command
to meet what the first left behind. In `Bap` the numbers wrap within a telegram
(modulus 2, three continuations), the pool is full with two streams, and four telegrams
let a stale slot meet a new stream more than once. In `Vehicle` the timeout, the cap and
the points where the counters stop are distinct and all reached; two wakeups let a
session follow another or be opened twice, or a wakeup and a battery command overlap.
In `Events` a queue of two overflows with both kinds of message (a ticker is
dropped, anything else ends the system), and the handler of `*` follows the one of the
event in the same dispatch, so that each can be gone, or invalidated, while the loop
stands on the other; two timers let one be reused while the other runs. In `Notify` the
queues of one are full at once, and a slot is closed, reused and closed again while
its former client's jobs are in all three places; three entries let a command with
two entries meet another notification. In `Boot` a width of 8 is more than the two
components can announce and small enough to wrap when one reports without having
announced; two restarts overlap; two crashes in a row pass both limits, and a late crash
hides another. Only the partition update is tried, which changes the level; the firmware
update, whose flag has the same life, is left to the theorems. In `CanOpen` two jobs are
enough for an answer, an abort or a notification of one to meet the next: `MCUses` lets the
first leave something behind (a heartbeat of the other node, the reply of a segment, a
late answer) and the second be the one that might take it. What proofs cover, they cover
for every bound.

`Genuine`, `Delivers` and `LeaksBounded` are stated for the losses the reassembly
is made for (`Tolerable`): interleaved streams without loss, or one stream with
one loss. Beyond that the protocol itself cannot tell: a telegram without its end
followed by one without its first continuation is delivered as one element.

Deadlock is checked in every run except `Events`, `Notify`, `NotifyHeld`, `CanOpen` and
`CanOpenStart`: there signals, entries and jobs are bounded, or the firmware has
aborted, and the model rightly stops.

### Fairness

`BridgeReleased` assumes weak fairness of `Tick` (the events task signals
`ticker.1` every second, whether or not anything else happens), of `Receive` (the
driver hands every received frame to the listener) and of `Bcu` (the unit
processes what it received, and its frame of the second comes). `Tick` waits for
the bus to be quiet, so the last two only say that no frame takes for ever. The
commands, losses, refusals, edits and reports are not fair.

`LetsSleep` assumes weak fairness of `Ticker1` alone. Frames may arrive for ever, as
they do on a bus that OVMS itself keeps awake; the number of commands and wakeups
is bounded, since a user who wakes the car again and again keeps it awake.

`HandlerLeaves` assumes weak fairness of the events task's loop (a handler returns:
the task watchdog resets the module if it does not), of the abort of a task that
has overflowed the queue, and of each timer.

`EntriesDrain` assumes weak fairness of the second half of `NotifyCommand`, of the
server (connected now and then), and of what the web task has begun: closing,
starting and ending a job. `UpdateTicker` is assumed strongly fair: the timer fires
again and again but only tries the lock, which is free between two closings.

`RestartEnds` assumes weak fairness of the events task (`BeginShuttingdown`,
`Announce`, `EndShuttingdown`, `GoDown`) and of the ticker. No component need report.

`JobsEnd` assumes weak fairness of the worker (its waits have timeouts), of the
receive task, of the node (which may lose or refuse) and of a task whose result is
there.

## 4. What is proved

| Module | Theorem | Establishes |
|---|---|---|
| `BatteryControlProofs` | `Invariance` | `Spec => []IInv` |
| | `TypeCorrect`, `NeverAboveHardCap`, `BridgeAlwaysHeld`, `TriggersAreGated` | the invariants of the run `Controller` |
| | `NeverHammered`, `VerdictsStand` | `NotHammered`, `VerdictStands` |
| | `LifecycleImplemented` | `Spec => Lifecycle!LifeSpec`, the refinement |
| | `ClampInSteps`, `ArmedFacts` | what `clampMaxCurrent` and `SendArm`'s record are, for every input |
| `BatteryControlBusProofs` | `BusInvariance`, `BusServesCommand` | `SysSpec => []Typed`, and `[](Typed /\ Own)` for commands that do not overlap |
| | `BusConfirmedIsReal`, `BusRunsOwnOp`, `BusKeepsStoredSettings`, `BusNoFalseFailure` | the safety properties of the runs `BusSettled` and `BusLossy` |
| | `BusImplementsLifecycle` | the refinement, for the composition |
| `BapTransportProofs` | `TransportInvariance` | `Spec => [](Types /\ Sound)` |
| | `TransportTypeCorrect`, `TransportGenuine`, `TransportDelivers`, `TransportLeaksBounded` | all properties of the run `Bap` |
| `VWeGolfProofs` | `VehicleTypeCorrect`, `VehicleNeverAlone`, `WakesQuietly`, `ExecutesOnlyAsked` | the safety properties of the run `Vehicle` |
| `OvmsEventsProofs` | `EventsInvariance`, `EventsTypes`, `EventsSignalsConserved`, `EventsSilencedAtOnce`, `EventsNeverForEarlier`, `EventsEverybodyHears` | `EInv` and the safety properties of the run `Events` |
| | `EventsLoopGoesOn` | while a signal is dispatched there is a next handler or none is left |
| `OvmsNotifyProofs` | `NotifyInvariance`, `NotifyTypes`, `NotifyAccounted`, `NotifyHeldIsAliveElse` | `NInv` and the safety properties of the run `Notify` |
| `BootProofs` | `BootInvariance`, `BootTypeCorrect`, `BootLoopProtection`, `BootReasonIsTrueElse`, `BootNoEarlyReset` | `BInv` and the safety properties of the run `Boot` |
| `CanOpenProofs` | `CanOpenInvariance`, `CanOpenTypes`, `CanOpenOwnResult`, `CanOpenOkIsReal` | `CInv` and the safety properties of the run `CanOpen` |
| | `CanOpenConfirmedByNode` | the parts of `OkIsReal` that need no calm bus |

Each theorem holds for every value of the constants under the named assumptions of
its module: `SecsAssumption` and `CurrentsAssumption` (times are positive, requests are
naturals, reported currents bytes), `PoolAssumption` (no more groups than slots),
`TimesAssumption` (periods positive; the timeout and the cap below the points where
the counters stop), `ClientsAssumption` (finitely many clients), `DispatcherAssumption` (the events task, the timer task and the
others are different, no signal is named `*`, the queue has room for one), `ReadersAssumption` (readers are different, queues have
room for one), `BootAssumption` (the thresholds are ordered, more than two seconds are
given, the counter can hold all components, the first handler belongs to a component
that reports on the events task: the poller), `CanOpenAssumption` and `UsesAssumption`
(sizes are positive, the model value "no job" is no job). The theorems about the
composition state their further hypotheses themselves: `~Overlap` (a command is given
when the one before has settled), `~EditsAnytime` for `BusKeepsStoredSettings`, and
for `BusNoFalseFailure` a window that is long enough.

**The controller.** `BridgeHeld`, `HardCap` and `TriggerGated` are not
inductive. A trigger leaves on an echo in `CP_ARM_WAIT` or on a retry in
`CP_CONFIRM`, so one must know how the command got there: `Progress` says that
`CP_ARM_WAIT` is reached only with a record read and a write out, that a command
awaiting its 49 58 echo was armed, and that a confirmed command with its bridge
held is in `CP_DONE`. `NotHammered` counts writes against elapsed seconds but
says nothing of the seconds since the last write; `Pace` does. `IInv` is the
conjunction of all of these, with one lemma per action (`...Keeps`).

**The refinement.** `Verdict` and `Notice` compute the abstract state;
`LifecycleStep` maps each action to a step of `CommandLifecycle`: a command to
`Start`, a refused stop to `Refuse`, `Abort` to `Cancel`, a tick to `Second` or
`Release`, a confirming echo to `Confirm`, an ERROR to `Reject` or `Hasten`,
and everything else to `Inner` or a stutter. It needs `BridgeHeld` (a released
bridge means no verdict) and `Progress`.

**The composition.** The controller's lemmas are stated for `OpenNext`, its steps in
an environment that may do anything, and a tick's and a reply's step of the composition is
one of these (`Typed` types what is under way). `Own` says what the echo
gate is for: every telegram to the unit, every write pending in it and every reply
under way serves the command in flight, and the unit's profile 0 is, but for its other
fields, the record that command read or the one it armed; once an echo of a write has
come, it is the armed one (`Applied`). A trigger leaves only then, so `BusRunsOwnOp` and
`BusConfirmedIsReal` follow, for any number of losses. `KeepsRest` adds that the
other fields in every record under way, and in the car, are those the command read. Both
rest on `Settled`: nothing of the command before is in the channels, in the unit's
writes, or owed as an acknowledgement.

`Timely` is the argument of `BusNoFalseFailure`: a command's age is bounded by
`RetrySecs` for each loss it has suffered, plus the time of the write, in each of its
phases; as long as nothing was lost since the last transmission, its answer, or the
cause of it, is still under way. A heartbeat taken for the acknowledgement of a handshake
that is still on its way lets the GET come too early; it is dropped and must be repeated,
which costs `Slack`, one more period (`Early`, `Unready`). If the handshake itself was
lost, nothing repairs it (`Deaf`: the channel stays closed, and no handshake is sent any
more): this is the exception that `NoFalseFailure` names. Without heartbeats
`Slack` is 0 and `Deaf` impossible, and no command fails. The bound of the theorem,
`RetrySecs * MaxLoss + Slack + ApplyTicks < WakeSecs`, is the exact one: with heartbeats,
a window of 20 s, a period of 2 s and an apply time of 2, TLC passes seven losses and
finds another false failure with eight. The run `BusLossy` shows four, of which one
is enough for the exception.

**The transport.** `Live`: every telegram that is intact has a slot with exactly the
prefix sent so far, whose next number is the sender's modulo `IndexMod`. Without
loss it is the group's only slot, so a continuation can go nowhere else; and since a
start finds its group without a slot, the pigeonhole principle gives it a free one
(`RoomForAll`, where the assumption on the groups is used). After the one loss of a
single stream, what it left lies in slot 1: while it was under way no other slot was
taken, and the first free one is 1. It can only grow while its own telegram goes on
(`Behind`: it is always short by at least one chunk, so a wrap of the numbers never
completes it), and every later telegram lies above it, where `findPending`, which
searches from the top, finds it first. That is why the search order of the code,
which its comment explains otherwise, is sound for one loss.

**The vehicle class.** The invariant is `SInv`: the bus idle counter never exceeds the
OEM idle counter (an OEM frame is a frame), a set flag is an owed request, and what is
unheard, with what is still due of the commands given (the rest of the controller's
window, the second frame of each wakeup), never exceeds the bus idle counter by more than
`asked`. `asked` is not a licence: a received frame sets it back to what is still due.

**Events.** `EInv` says by predicates what `SignalsConserved` says by counting: a
signal is in the queue at most once, in the payload of one timer at most, in the hands
of one stopping task at most, and in one of these places or in dispatch at most, and
not finished while it is. The delicate step is a timer whose callback is still to
come: it must not be taken for reuse (`Guarded`). `SilencedAtOnce` follows from
`Silent`: a silenced handler has lost its callback for good.

`NeverForEarlier` needs the queue's order: the adding of a handler waits behind every
signal posted before it (`Ahead`), so that these are finished when the handler comes
into a list (`Passed`), while the signal in dispatch never is (`Placed`).
`EverybodyHears` follows from `Heard`: during a dispatch every listed handler with its
callback has been called or is still before the loop; the lists change only between
dispatches. `Apart` (no two listed handlers hold the same place) shows that the order the
model gives the loops is total, so that a dispatch never stands still.

**Notifications.** `Accounted` is inductive once whoever is owed an entry is known
to be registered (`OwedRegistered`): the backlog's timer clears the bit of a client that
is gone, and nobody may be owed that bit. `HInv` adds that a client has an entry in
one of its three places and once, so that the step which clears the bit also removes
the last pointer. `Sizes` adds the bounds of the queues for `NotifyTypes`.

**Boot.** `Flagged` says that a planned reset is marked in the record exactly while a
restart is under way, which is what makes the boot reason true, except for a crash that
comes then; `Counting` ties the counter to the true streak, less what a late crash has
hidden. `Vote` ties `m_shutdown_pending` to the components that still
owe a report, through a dispatch in which some have been asked and some not yet, and
the timer to the time given.

**CANopen.** `CInv`: at most one task waits, its job is in the queue, with the worker or
finished, in one of them and once, and nothing else is there for that client; hence
the one result in the done queue is its own. `TInv` types what the worker, the node and
the frames under way hold. `CanOpenConfirmedByNode` is about any bus, and rests on
`SInv`: each frame under way, and the one in `m_response`, says what its node has said;
the one in `m_response` has the ID of the job in hand, unless it is left from before
(`Own`); and once the first answer to an SDO job was accepted, the node has answered for
the register (`Acknowledged`). The part of `OkIsReal` about contents is about a calm bus,
and its invariant `RInv` follows one exchange:
at most one request or answer is under way, behind aborts at most (`OneExchange`), the
request is one of the job's (`Requested`), the answer to it tells what is so in the node
(`Answered`), the node's transfer, once it has answered, is the job's (`Ours`), what has
been copied is what the register holds (`Copied`), and a write that ended with OK was
taken (`Written`).

**Changes for the proofs.** The handler lists of `OvmsEvents` are places and not a
sequence (a filtered sequence is a recursive library definition, which the provers cannot
follow). `Settled` says too that the unit owes no acknowledgement of a handshake. The
worker of `CanOpen` tells a heartbeat job by its type.

**Only model-checked.** Liveness (`BridgeReleased`, `LetsSleep`, `HandlerLeaves`,
`EntriesDrain`, `RestartEnds`, `JobsEnd`): the provers do not handle fairness and
`ENABLED`. Every other property of a passing run is a theorem. The three runs that expect a
violation show counterexamples, and there is nothing to prove.

## 5. Findings

1. `Tasks`, `vwegolf/vehicle_vwegolf_bat_ctrl.cpp:195`. A command accepted between
   the notification and the last statement of the closing tick is put to `CP_IDLE`
   with its bridge held: never driven, never ended, never reported. The class comment
   says that being lock-free is not harmful.
2. `NotifyHeld`, `main/ovms_notify.cpp:540`. The callbacks of all readers that accept an
   entry run, also of those it was not raised for, and a web client keeps the pointer;
   and a client that closes leaves its jobs in the shared backlog. Either way a client
   holds an entry that has been deleted. `HeldIsAliveElse` shows that these two are
   the only ways.
3. `CanOpenStart`, `components/canopen/src/canopen_worker.cpp:399`. A start command that
   waits for the node's state takes any state from 5 upwards as success, and
   preoperational is 127: it reports OK on a node that has not started.

### Known divergences

Met while modelling; where a constant shows one, it is named. The models have the
code's behaviour, and no property of a passing run says otherwise.

* Controller: the backstop writes profile 0 a second time although nothing was lost
  (`vehicle_vwegolf_bat_ctrl.cpp:147`), because the echo takes about as long as the
  retry period; comments and the document say "never re-arm".
* Controller: with `Overlap` TRUE in `BusSettled.cfg`, `RunsOwnOp` fails: `Begin` accepts a
  command while another is in flight, and the second takes the first one's write
  echo for its own (line 348). With `EditsAnytime` TRUE, `KeepsStoredSettings` fails: the
  write puts back the whole record as it was read (line 499).
* Controller: a `49 42` heartbeat, which `battery_control.h:61` says comes about every
  2 s, is taken for the acknowledgement of a handshake that was lost (lines 265, 144).
  Only the GET is repeated from then on, the unit drops it, and the command fails: one
  lost telegram is enough. `NoFalseFailure` excepts just this case.
* Transport: a continuation goes to the matching slot with the highest index, not to the
  newest as the comment says (`bap.h:416`).
* Vehicle: `m_ocu_grace_secs` is only ever set to 255, "no ACK seen yet", so a session that
  the header says an acknowledgement ends lasts until the 30 s cap; body requests
  pending together that share byte 6 overwrite each other.
* Events: on a full queue the adding or removing of a `ticker.*` handler is dropped
  silently. A handler whose adding is still queued is not silenced by a
  `DeregisterEvent` on the events task; one called from another task leaves the handler
  callable until the message is processed.
* Boot: `NoEarlyReset` holds only for one restart and for components that report what they
  announced (`NoEarlyResetElse`). A second `Restart` sets the pending count to zero while
  the poller, which announces once, is still at work; a modem that is off reports
  unannounced and the unsigned count wraps. A crash after `Restart` was called and before
  the reset is taken for the restart (`ovms_boot.cpp:379`), and the early crashes counted
  so far are forgotten: `ReasonIsTrueElse` and `LoopProtection` except it. The crash
  counters are cleared by a planned restart though commented "since power on".
* CANopen: a job takes the notification that an earlier one left
  (`canopen_worker.cpp:396`), with whatever is in `m_response`: the heartbeat of another
  node, accepted for a dropped job, or the reply of a segment whose control byte happens to
  equal a state (4, of a segment with two unused bytes, is Stopped). `StateIsReal` and
  `AnswerIsReal` except a job that did. On a bus that is not calm a late reply confirms a
  later request for the same register, and `m_response` may be overwritten between its
  check and its copy: `SdoIsReal`, about what was read and written, is stated for a calm
  bus, and the code does not promise it on another.

## 6. Not modelled, and why

The repository holds over 800,000 lines, most of them a vendored JavaScript engine,
generated ECU tables and the decoders of other vehicles; the models cover the
components above and nothing of those. In the modelled files: frame decoders
(stateless scalings), departure timers and power provider windows of the codec
(nothing calls them), shell commands, logging and metrics output. Other components:
metrics, configuration and scripting (keyed storage and text interfaces), servers, OTA
and the modem (network and device I/O), the CAN drivers (a frame is accepted or refused),
the poller (the e-Golf polls nothing), other vehicles, the app and the server
(independent of what is modelled here).

Hazards without a property are listed in `PROJECT.json` with the reason: two profile
writes at once, the throttle of the OCU heartbeat on two tasks, `CheckQueueOverflow` reading
another task's pointer for a log line, the data notifications of the V2 server, and
the notification a CANopen job finds, which only appears as an exception.

## 7. Plan

Done: the controller with its promise, bus and tasks, the transport, the vehicle class,
events, notifications, boot, CANopen, and their proofs. Left, in order of importance:

1. `SendArm` frame by frame on two tasks over `BapTransport`; the OCU heartbeat cut between
   its check and its stamp.
2. `BatteryControlBus`: a charge that ends by itself while a current change is in
   flight (`m_apply` is stale), a second client that starts climate between the check
   and the stop of a charge, the two GETs of the handshake told apart.
3. `OvmsNotify`: data notifications and the retransmission of V2.
4. `CanOpen`: start and stop of workers.
5. The poller and the modem's state machine, once a vehicle module under verification
   depends on them.
