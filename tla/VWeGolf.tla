------------------------------ MODULE VWeGolf -------------------------------
(***************************************************************************)
(* OvmsVehicleVWeGolf (vehicle_vwegolf.{h,cpp}): the part of the vehicle   *)
(* class that takes part in the comfort bus (KCAN) as the OCU node.  A     *)
(* session is opened by a wakeup on a silent bus; while it lasts an NM     *)
(* alive goes out once a second and a heartbeat (0x5A7), which carries the *)
(* one-shot body requests, on every frame received but at most every       *)
(* 180 ms.  The car's own OCU uses the same identifier, so OVMS stands     *)
(* down while that one is heard.                                           *)
(*                                                                         *)
(* The class also owns the battery controller and forwards it ticks,       *)
(* frames and commands.  It appears here by what it promises, the          *)
(* specification CommandLifecycle, which BatteryControl implements.        *)
(*                                                                         *)
(* Three tasks run this: Ticker1 on the events task, frames on the receive *)
(* task, commands on the task of the client.  A handler is one step, but   *)
(* for WakeKcanBus, which sleeps 50 ms between its two wake frames and     *)
(* 100 ms before it opens the session.                                     *)
(***************************************************************************)
EXTENDS CommandLifecycle, FiniteSets, Sequences

CONSTANTS
  BusTimeout,  \* VWEGOLF_BUS_TIMEOUT_SECS, 10 in the build
  AckGrace,    \* VWEGOLF_OCU_ACK_GRACE_SECS, 5
  SessionCap,  \* VWEGOLF_OCU_SESSION_CAP_SECS, 30
  IdleMax,     \* where the idle counters stop, 254
  SecsMax,     \* where the session counters stop, 255; also "no ACK seen"
  Requests,    \* the body requests in use
  Clients,     \* tasks that give commands
  MaxOrders    \* bound: wakeups and battery commands in a behaviour

\* The body requests that share byte 6 of the heartbeat, in the order in which
\* SendOcuHeartbeat assigns it.
Byte6 == <<"horn", "lock", "unlock", "indicators", "panic">>

ASSUME TimesAssumption ==
  /\ {BusTimeout, AckGrace, SessionCap} \subseteq Nat \ {0}
  /\ IdleMax \in Nat /\ SecsMax \in Nat
  /\ BusTimeout <= IdleMax /\ SessionCap <= SecsMax /\ AckGrace < SecsMax
  /\ Window \in Nat \ {0}

ASSUME ClientsAssumption == IsFiniteSet(Clients)

ASSUME RequestsAssumption ==
  Requests \subseteq {"mirror", "horn", "lock", "unlock", "indicators", "panic"}

VARIABLES
  bus_idle, oem_idle,        \* seconds since a frame, and since the OEM OCU
  active,                    \* m_ocu_active: a session is open
  session_secs, grace_secs,
  recent,                    \* a heartbeat went out less than 180 ms ago
  requested,                 \* the one-shot flags that are set
  waking, woken,             \* clients inside WakeKcanBus: the NM frame is yet
                             \* to be sent, or the session to be opened
  heartbeat,                 \* what the last step's heartbeat carried, if any
  unheard,                   \* history: NM and wake frames sent since a frame
                             \* was received
  asked,                     \* history: those of them, and of the ones still to
                             \* come, that the commands given ask for
  owed,                      \* history: requests given and not carried since
  orders

session == <<active, session_secs, grace_secs>>
airtime == <<unheard, asked>>
vars == <<lifevars, bus_idle, oem_idle, session, recent, requested, waking,
          woken, heartbeat, airtime, owed, orders>>

NoHeartbeat == [sent |-> FALSE, carries |-> {}]

Init ==
  /\ LifeInit
  /\ bus_idle = BusTimeout /\ oem_idle = BusTimeout
  /\ active = FALSE /\ session_secs = 0 /\ grace_secs = SecsMax
  /\ recent = FALSE /\ requested = {} /\ waking = {} /\ woken = {}
  /\ heartbeat = NoHeartbeat
  /\ unheard = 0 /\ asked = 0 /\ owed = {} /\ orders = 0

\* n frames go out, of which a command asks for m more than were still due.
Sends(n, m) == unheard' = unheard + n /\ asked' = asked + m

-----------------------------------------------------------------------------
(* SendOcuHeartbeat.                                                       *)

\* What the frame carries of the requests r: the mirror has a byte of its own,
\* of the others the one assigned last remains.
Carries(r) ==
  (r \cap {"mirror"}) \cup
  {Byte6[i] : i \in {j \in DOMAIN Byte6 :
                       /\ Byte6[j] \in r
                       /\ \A k \in DOMAIN Byte6 : k > j => Byte6[k] \notin r}}

\* Mutant of Cleared: only the requests that share a byte are reset.
MirrorStays(r) == r \cap {"mirror"}

\* The flags left after a heartbeat: all of them are reset, carried or not.
Cleared(r) == {}

\* oem is the idle counter of the OEM OCU at the time of the call.
SendOcuHeartbeat(oem) ==
  \/ /\ oem >= BusTimeout /\ ~recent
     /\ recent' = TRUE
     /\ requested' = Cleared(requested)
     /\ \/ /\ heartbeat' = [sent |-> TRUE, carries |-> Carries(requested)]
           /\ owed' = owed \ Carries(requested)
        \/ heartbeat' = NoHeartbeat /\ owed' = owed    \* refused, unnoticed
  \/ /\ oem < BusTimeout \/ recent
     /\ heartbeat' = NoHeartbeat
     /\ UNCHANGED <<recent, requested, owed>>

Silent == heartbeat' = NoHeartbeat /\ UNCHANGED <<recent, requested, owed>>

-----------------------------------------------------------------------------
(* Events task.                                                            *)

\* Mutant of Count: a counter that does not stop.
CountOn(n, max) == n + 1

Count(n, max) == IF n < max THEN n + 1 ELSE n

\* Mutant of CapExpired: the session has no cap.
NeverExpires(secs) == FALSE

CapExpired(secs) == secs >= SessionCap

\* grace_secs counts from an acknowledgement, SecsMax meaning there was none.
\* Nothing in the class ever sets it to anything else.
GraceExpired(secs) == secs < SecsMax /\ secs >= AckGrace

\* Why a session ends, by the counters as this tick leaves them.
Ends == \/ bus_idle' = BusTimeout
        \/ oem_idle' < BusTimeout
        \/ GraceExpired(grace_secs')
        \/ CapExpired(session_secs')

\* Mutant of Talks: the tick does not look whether anybody is listening.
TalksAlone == active'

Talks == active' /\ bus_idle' < BusTimeout

\* The controller holds its bridge with an NM frame a second.
ControllerTick == IF remaining > 0 THEN Second \/ Release ELSE Inner

Beat == IF Talks THEN 1 ELSE 0          \* SendNmAlive
Hold == IF remaining > 0 THEN 1 ELSE 0  \* SendNmWake

Ticker1 ==
  /\ bus_idle' = Count(bus_idle, IdleMax)
  /\ oem_idle' = Count(oem_idle, IdleMax)
  /\ session_secs' = IF active THEN Count(session_secs, SecsMax) ELSE session_secs
  /\ grace_secs' = IF active THEN Count(grace_secs, SecsMax) ELSE grace_secs
  /\ active' = (active /\ ~Ends)
  /\ Sends(Beat + Hold, 0)
  /\ IF Talks THEN SendOcuHeartbeat(oem_idle') ELSE Silent
  /\ ControllerTick
  /\ UNCHANGED <<waking, woken, orders>>

\* 180 ms have passed since the last heartbeat.
Elapse ==
  /\ recent /\ recent' = FALSE
  /\ heartbeat' = NoHeartbeat
  /\ Inner
  /\ UNCHANGED <<bus_idle, oem_idle, session, requested, waking, woken, airtime,
                 owed, orders>>

-----------------------------------------------------------------------------
(* Receive task.  A frame is "oem" (a 0x5A7 of the car's own OCU that is   *)
(* not all zero), "bcu" (0x17332510) or any other frame of the bus.        *)

\* Mutant of HeardOn: only the frames that are decoded count as traffic.
HeardOnBcu(kind) == IF kind = "bcu" THEN 0 ELSE bus_idle

\* The bus idle counter after a frame.
HeardOn(kind) == 0

ControllerFrame(kind) ==
  \/ kind = "bcu" /\ (Confirm \/ Reject \/ Hasten)
  \/ Inner

\* Only what is under way is still asked for.
IncomingFrameCan3(kind) ==
  /\ bus_idle' = HeardOn(kind)
  /\ IF active THEN SendOcuHeartbeat(oem_idle) ELSE Silent
  /\ oem_idle' = IF kind = "oem" THEN 0 ELSE oem_idle
  /\ ControllerFrame(kind)
  /\ unheard' = 0 /\ asked' = remaining' + Cardinality(waking)
  /\ UNCHANGED <<session, waking, woken, orders>>

-----------------------------------------------------------------------------
(* Command tasks.                                                          *)

Order == orders < MaxOrders /\ orders' = orders + 1

Idle == heartbeat' = NoHeartbeat

\* CommandLock, CommandHorn and the others only set their flag.
Request(r) ==
  /\ requested' = requested \cup {r} /\ owed' = owed \cup {r}
  /\ Idle /\ Inner
  /\ UNCHANGED <<bus_idle, oem_idle, session, recent, waking, woken, airtime,
                 orders>>

\* CommandWakeup does nothing on a bus that is alive; else WakeKcanBus resets
\* the CAN controller and sends 0x17330301.
CommandWakeup(c) ==
  /\ c \notin waking \cup woken /\ bus_idle >= BusTimeout
  /\ Order
  /\ waking' = waking \cup {c}
  /\ Sends(1, 2)
  /\ Idle /\ Inner
  /\ UNCHANGED <<bus_idle, oem_idle, session, recent, requested, woken, owed>>

\* WakeKcanBus goes on with the frame that SendNmAlive sends too, whatever came
\* in meanwhile.
WakeRing(c) ==
  /\ c \in waking /\ waking' = waking \ {c} /\ woken' = woken \cup {c}
  /\ Sends(1, 0)
  /\ Idle /\ Inner
  /\ UNCHANGED <<bus_idle, oem_idle, session, recent, requested, owed, orders>>

\* The last statements of WakeKcanBus.
OpenSession(c) ==
  /\ c \in woken /\ woken' = woken \ {c}
  /\ active' = TRUE /\ session_secs' = 0 /\ grace_secs' = SecsMax
  /\ Idle /\ Inner
  /\ UNCHANGED <<bus_idle, oem_idle, recent, requested, waking, airtime, owed,
                 orders>>

\* Climate control, charge start and stop, charge current.  A command that is
\* accepted sends an NM frame at once and one in each of Window seconds; what is
\* left of an earlier bridge is part of it.
BatteryCommand ==
  /\ Order
  /\ \/ Start /\ Sends(1, Window + 1 - remaining)
     \/ Refuse /\ Sends(0, 0)
  /\ Idle
  /\ UNCHANGED <<bus_idle, oem_idle, session, recent, requested, waking, woken,
                 owed>>

\* "xvg offline".
Offline ==
  /\ active' = FALSE /\ Cancel
  /\ Idle
  /\ UNCHANGED <<bus_idle, oem_idle, session_secs, grace_secs, recent,
                 requested, waking, woken, airtime, owed, orders>>

Next ==
  \/ Ticker1 \/ Elapse
  \/ \E kind \in {"oem", "bcu", "other"} : IncomingFrameCan3(kind)
  \/ \E r \in Requests : Request(r)
  \/ \E c \in Clients : CommandWakeup(c) \/ WakeRing(c) \/ OpenSession(c)
  \/ BatteryCommand \/ Offline

Spec == Init /\ [][Next]_vars

\* The events task ticks once a second.
FairSpec == Spec /\ WF_vars(Ticker1)

-----------------------------------------------------------------------------
(* Properties.                                                             *)

\* Every member keeps its type: the idle and session counters stop short of
\* wrapping.
TypeOK ==
  /\ bus_idle \in 0..IdleMax /\ oem_idle \in 0..IdleMax
  /\ active \in BOOLEAN /\ recent \in BOOLEAN
  /\ session_secs \in 0..SecsMax /\ grace_secs \in 0..SecsMax
  /\ requested \subseteq Requests /\ owed \subseteq Requests
  /\ waking \subseteq Clients /\ woken \subseteq Clients
  /\ heartbeat \in [sent : BOOLEAN, carries : SUBSET Requests]
  /\ unheard \in Nat /\ asked \in Nat /\ orders \in Nat

\* The bus is not woken while the car's own OCU may still be there ("Must not
\* wake while this is <", the comment on m_oem_ocu_idle_ticks): CommandWakeup
\* looks at the other counter, which is enough because an OEM frame is also a
\* frame and both counters stop at the same value.
QuietWake ==
  [][\A c \in Clients : CommandWakeup(c) => oem_idle >= BusTimeout]_vars

\* OVMS does not talk to itself ("every TX fails ACK, TEC storms for minutes",
\* the comment on the session bounds): of the NM and wake frames it sends without
\* a frame received in between, whichever part of the class sends them, fewer
\* than BusTimeout go out on its own account, over any number of sessions.  The
\* others are those that the commands given since ask for: two for a wakeup,
\* Window + 1 for a battery command.
NeverAlone == unheard < BusTimeout + asked

\* The car honks, locks, unlocks or folds its mirrors only if it was asked to
\* since it last did: a request is carried by at most one heartbeat, whichever
\* of the receive task and the tick sends it.
OnlyAsked == [][heartbeat'.carries \subseteq owed]_vars

\* What OVMS does to keep the bus awake, the OCU session and the controller's
\* wake bridge, ends although traffic, which it sustains itself, never stops.
LetsSleep == (active \/ remaining > 0) ~> (~active /\ remaining = 0)
=============================================================================
