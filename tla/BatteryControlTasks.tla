------------------------ MODULE BatteryControlTasks -------------------------
(***************************************************************************)
(* BatteryControl on the three tasks that run it: Ticker1 on the events    *)
(* task, IncomingBapStatus on the CAN receive task, the commands on the    *)
(* task of the client that gives them.  The class takes no lock, so a      *)
(* handler of one task may run between two statements of another's.        *)
(*                                                                         *)
(* The tick that closes a command is cut where it calls out: it has        *)
(* counted wake_hold down to 0 and notifies the user (a string is          *)
(* formatted, logged and queued to every notification reader) before it    *)
(* sets m_phase.  The other handlers stay whole.                           *)
(***************************************************************************)
EXTENDS BatteryControl

VARIABLE closing   \* Ticker1 is between its notification and m_phase = CP_IDLE

taskvars == <<vars, closing>>

TaskInit == Init /\ closing = FALSE

\* Ticker1 up to and including the notification.
TickNotify(bus_alive) ==
  /\ ~closing
  /\ phase # "CP_IDLE" /\ wake_hold = 1
  /\ hvac' = (hvac /\ bus_alive)
  /\ nm' = TRUE
  /\ wake_hold' = 0
  /\ Backstop(phase')
  /\ alert' = Outcome
  /\ closing' = TRUE
  /\ UNCHANGED <<command, have_profile0, profile0, confirmed, error, charging,
                 climit, acked>>

\* Its last statement.
TickClose ==
  /\ closing
  /\ phase' = "CP_IDLE" /\ closing' = FALSE
  /\ Quiet
  /\ UNCHANGED <<command, have_profile0, profile0, arm_skipped, confirmed,
                 error, tx_fail, wake_hold, phase_secs, metrics, history>>

EventsTask ==
  \/ \E bus_alive \in BOOLEAN :
       \/ TickNotify(bus_alive)
       \/ /\ ~closing /\ (wake_hold = 1 => phase = "CP_IDLE")
          /\ Ticker1(bus_alive) /\ UNCHANGED closing
  \/ TickClose

RxTask == (\E e \in Heard : IncomingBapStatus(e)) /\ UNCHANGED closing

CommandTask == Command /\ UNCHANGED closing

TaskNext == EventsTask \/ RxTask \/ CommandTask

TaskSpec == TaskInit /\ [][TaskNext]_taskvars

\* A command that was accepted stays the tick's business until its bridge is
\* released: Ticker1 returns at once in CP_IDLE, so a held bridge in CP_IDLE is
\* never counted down, nothing is retried and the user never hears of it.  The
\* class comment says that overlapping handlers are "not otherwise harmful".
CommandNotLost == ~closing => (wake_hold > 0 => phase # "CP_IDLE")
=============================================================================
