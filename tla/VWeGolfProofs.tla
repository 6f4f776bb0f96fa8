---------------------------- MODULE VWeGolfProofs ---------------------------
(***************************************************************************)
(* Proofs about VWeGolf, for every value of its constants.  The inductive  *)
(* invariant is SInv: the two idle counters are ordered, the frames nobody *)
(* answered and those still due are counted by the bus idle counter and    *)
(* the commands, and a flag that is set is a request not yet carried.      *)
(***************************************************************************)
EXTENDS VWeGolf, FiniteSetTheorems, TLAPS

\* A frame of the OEM OCU is a frame of the bus.
Ordered == bus_idle <= oem_idle

\* What has been sent unheard, and what the bridge and the wakeups under way
\* will send, is asked for by a command or is an alive of this silence.
Alives == IF bus_idle < BusTimeout THEN bus_idle ELSE BusTimeout - 1

Counted ==
  /\ remaining \in 0..Window
  /\ unheard + remaining + Cardinality(waking) <= Alives + asked

Asked == requested \subseteq owed

SInv == TypeOK /\ Ordered /\ Counted /\ Asked

\* A heartbeat carries nothing that was not requested.
LEMMA CarriesFacts ==
  ASSUME NEW r PROVE Carries(r) \subseteq r
  BY DEF Carries

\* Count stays within its bound and never falls.
LEMMA CountFacts ==
  ASSUME NEW max \in Nat, NEW n \in 0..max
  PROVE  /\ Count(n, max) \in 0..max
         /\ Count(n, max) < max => Count(n, max) = n + 1
         /\ n <= Count(n, max)
  BY DEF Count

LEMMA CountOrder ==
  ASSUME NEW max \in Nat, NEW m \in 0..max, NEW n \in 0..max, m <= n
  PROVE  Count(m, max) <= Count(n, max)
  BY DEF Count

\* How the clients in a wakeup are counted.
LEMMA WakingFacts ==
  ASSUME waking \subseteq Clients
  PROVE  /\ Cardinality(waking) \in Nat
         /\ \A c : c \notin waking
              => Cardinality(waking \cup {c}) = Cardinality(waking) + 1
         /\ \A c : c \in waking
              => Cardinality(waking \ {c}) = Cardinality(waking) - 1
<1>1. IsFiniteSet(waking)
  BY ClientsAssumption, FS_Subset
<1> QED BY <1>1, FS_CardinalityType, FS_AddElement, FS_RemoveElement

\* What the steps of the controller do to its bridge.
LEMMA BridgeFacts ==
  ASSUME Counted, Inner \/ Confirm \/ Reject \/ Hasten \/ Second \/ Release
                  \/ Start \/ Refuse \/ Cancel
  PROVE  remaining' \in 0..Window
  BY TimesAssumption
     DEF Counted, Inner, Confirm, Reject, Hasten, Second, Release, Start,
         Refuse, Cancel

LEMMA InitSInv == Init => SInv
<1> SUFFICES ASSUME Init PROVE SInv
  OBVIOUS
<1>1. TypeOK
  <2>1. /\ bus_idle \in 0..IdleMax /\ oem_idle \in 0..IdleMax
        /\ session_secs \in 0..SecsMax /\ grace_secs \in 0..SecsMax
        /\ unheard \in Nat /\ asked \in Nat /\ orders \in Nat
    BY TimesAssumption DEF Init
  <2> QED BY <2>1 DEF Init, TypeOK, NoHeartbeat
<1>2. Ordered /\ Counted /\ Asked
  <2>1. Cardinality(waking) = 0
    BY FS_EmptySet DEF Init
  <2> QED
    BY <2>1, TimesAssumption
       DEF Init, LifeInit, Ordered, Counted, Alives, Asked
<1> QED BY <1>1, <1>2 DEF SInv

-----------------------------------------------------------------------------
(* The heartbeat, for whichever task sends it.                             *)

\* What a handler does to the flags, whether it sends a heartbeat or not.
Beats ==
  /\ heartbeat' \in [sent : BOOLEAN, carries : SUBSET Requests]
  /\ recent' \in BOOLEAN
  /\ requested' \subseteq Requests /\ owed' \subseteq Requests
  /\ heartbeat'.carries \subseteq owed
  /\ Asked'

LEMMA SilentBeats ==
  ASSUME SInv, heartbeat' = NoHeartbeat,
         UNCHANGED <<recent, requested, owed>>
  PROVE  Beats
  BY DEF SInv, TypeOK, Asked, NoHeartbeat, Beats

LEMMA HeartbeatBeats ==
  ASSUME SInv, NEW oem, SendOcuHeartbeat(oem)
  PROVE  Beats
<1>1. CASE requested' = Cleared(requested) /\ recent' = TRUE
  <2>1. requested' = {}
    BY <1>1 DEF Cleared
  <2>2. Carries(requested) \subseteq requested
    BY CarriesFacts
  <2>3. CASE /\ heartbeat' = [sent |-> TRUE, carries |-> Carries(requested)]
             /\ owed' = owed \ Carries(requested)
    BY <1>1, <2>1, <2>2, <2>3 DEF SInv, TypeOK, Asked, Beats
  <2>4. CASE heartbeat' = NoHeartbeat /\ owed' = owed
    BY <1>1, <2>1, <2>4 DEF SInv, TypeOK, Asked, NoHeartbeat, Beats
  <2> QED
    BY <1>1, <2>3, <2>4, SilentBeats DEF SendOcuHeartbeat
<1>2. CASE heartbeat' = NoHeartbeat /\ UNCHANGED <<recent, requested, owed>>
  BY <1>2, SilentBeats
<1> QED BY <1>1, <1>2 DEF SendOcuHeartbeat

-----------------------------------------------------------------------------
(* The steps.                                                              *)

LEMMA Ticker1Keeps ==
  ASSUME SInv, Ticker1 PROVE SInv' /\ Beats
<1>1. Beats
  <2>1. CASE Talks
    BY <2>1, HeartbeatBeats DEF Ticker1
  <2>2. CASE ~Talks
    BY <2>2, SilentBeats DEF Ticker1, Silent
  <2> QED BY <2>1, <2>2
<1>2. /\ bus_idle \in 0..IdleMax /\ oem_idle \in 0..IdleMax
      /\ session_secs \in 0..SecsMax /\ grace_secs \in 0..SecsMax
      /\ IdleMax \in Nat /\ SecsMax \in Nat /\ BusTimeout \in Nat \ {0}
      /\ BusTimeout <= IdleMax /\ unheard \in Nat
  BY TimesAssumption DEF SInv, TypeOK
<1>3. /\ bus_idle' = Count(bus_idle, IdleMax)
      /\ oem_idle' = Count(oem_idle, IdleMax)
  BY DEF Ticker1
<1>4. /\ bus_idle' \in 0..IdleMax /\ oem_idle' \in 0..IdleMax
      /\ session_secs' \in 0..SecsMax /\ grace_secs' \in 0..SecsMax
      /\ bus_idle <= bus_idle'
      /\ bus_idle' < IdleMax => bus_idle' = bus_idle + 1
  BY <1>2, <1>3, CountFacts DEF Ticker1
<1>5. Ordered'
  BY <1>2, <1>3, CountOrder DEF SInv, Ordered
<1>6. Counted' /\ unheard' \in Nat /\ asked' \in Nat
  <2>1. /\ unheard' = unheard + (Beat + Hold) /\ asked' = asked + 0
        /\ waking' = waking /\ ControllerTick /\ asked \in Nat
        /\ Cardinality(waking) \in Nat
    BY WakingFacts DEF Ticker1, Sends, SInv, TypeOK
  <2>2. remaining' = remaining - Hold /\ Hold \in 0..1 /\ remaining' \in 0..Window
    BY <2>1, TimesAssumption
       DEF ControllerTick, Second, Release, Inner, Hold, SInv, Counted
  <2>3. Alives + Beat <= Alives' /\ Beat \in 0..1 /\ Alives' \in Nat
        /\ Alives \in Nat
    <3>1. CASE Talks
      <4>1. bus_idle' < BusTimeout /\ Beat = 1
        BY <3>1 DEF Talks, Beat
      <4>2. bus_idle' = bus_idle + 1
        BY <1>2, <1>4, <4>1
      <4> QED BY <1>2, <4>1, <4>2 DEF Alives
    <3>2. CASE ~Talks
      <4>1. Beat = 0
        BY <3>2 DEF Beat
      <4> QED BY <1>2, <1>4, <4>1 DEF Alives
    <3> QED BY <3>1, <3>2
  <2>4. unheard + remaining + Cardinality(waking) <= Alives + asked
        /\ remaining \in Nat
    BY TimesAssumption DEF SInv, Counted
  <2>5. /\ unheard' + remaining' + Cardinality(waking') <= Alives' + asked'
        /\ unheard' \in Nat /\ asked' \in Nat
    BY <1>2, <2>1, <2>2, <2>3, <2>4
  <2> QED BY <2>2, <2>5 DEF Counted
<1>7. active' \in BOOLEAN
  BY DEF Ticker1
<1>8. UNCHANGED <<waking, woken, orders>>
  BY DEF Ticker1
<1> QED
  BY <1>1, <1>4, <1>5, <1>6, <1>7, <1>8 DEF SInv, TypeOK, Beats

LEMMA FrameKeeps ==
  ASSUME SInv, NEW kind, IncomingFrameCan3(kind)
  PROVE  SInv' /\ Beats
<1>1. Beats
  <2>1. CASE active
    BY <2>1, HeartbeatBeats DEF IncomingFrameCan3
  <2>2. CASE ~active
    BY <2>2, SilentBeats DEF IncomingFrameCan3, Silent
  <2> QED BY <2>1, <2>2
<1>2. /\ bus_idle' = 0 /\ unheard' = 0
      /\ asked' = remaining' + Cardinality(waking)
  BY DEF IncomingFrameCan3, HeardOn
<1>3. oem_idle' \in 0..IdleMax /\ bus_idle' \in 0..IdleMax
  BY <1>2, TimesAssumption DEF IncomingFrameCan3, SInv, TypeOK
<1>4. Ordered' /\ Counted' /\ asked' \in Nat
  <2>1. remaining' \in 0..Window
    BY BridgeFacts DEF IncomingFrameCan3, ControllerFrame, SInv
  <2>2. waking' = waking /\ Cardinality(waking) \in Nat
    BY WakingFacts DEF IncomingFrameCan3, SInv, TypeOK
  <2>3. Alives' = 0
    BY <1>2, TimesAssumption DEF Alives
  <2> QED
    BY <1>2, <1>3, <2>1, <2>2, <2>3, TimesAssumption DEF Ordered, Counted
<1>5. UNCHANGED <<session, waking, woken, orders>>
  BY DEF IncomingFrameCan3
<1> QED
  BY <1>1, <1>2, <1>3, <1>4, <1>5 DEF SInv, TypeOK, Beats, session

\* Steps that touch neither the counters of the bus nor the heartbeat.
LEMMA OtherKeeps ==
  ASSUME SInv,
         Elapse \/ (\E c \in Clients : CommandWakeup(c) \/ WakeRing(c)
                                       \/ OpenSession(c))
         \/ BatteryCommand \/ Offline
  PROVE  SInv' /\ Beats
<1>1. /\ heartbeat' = NoHeartbeat
      /\ UNCHANGED <<bus_idle, oem_idle, requested, owed>>
  BY DEF Elapse, CommandWakeup, WakeRing, OpenSession, BatteryCommand, Offline,
         Idle
<1>2. recent' \in BOOLEAN /\ orders' \in Nat /\ active' \in BOOLEAN
  <2>1. orders' = orders \/ orders' = orders + 1
    BY DEF Elapse, CommandWakeup, WakeRing, OpenSession, BatteryCommand,
           Offline, Order
  <2>2. /\ recent' = recent \/ recent' = FALSE
        /\ active' = active \/ active' = TRUE \/ active' = FALSE
    BY DEF Elapse, CommandWakeup, WakeRing, OpenSession, BatteryCommand,
           Offline, session
  <2>3. recent \in BOOLEAN /\ active \in BOOLEAN /\ orders \in Nat
    BY DEF SInv, TypeOK
  <2>4. orders' \in Nat
    BY <2>1, <2>3
  <2>5. recent' \in BOOLEAN /\ active' \in BOOLEAN
    BY <2>2, <2>3, Zenon
  <2> QED BY <2>4, <2>5
<1>3. session_secs' \in 0..SecsMax /\ grace_secs' \in 0..SecsMax
  BY TimesAssumption
     DEF Elapse, CommandWakeup, WakeRing, OpenSession, BatteryCommand, Offline,
         SInv, TypeOK, session
<1>4. waking' \subseteq Clients /\ woken' \subseteq Clients
  BY DEF Elapse, CommandWakeup, WakeRing, OpenSession, BatteryCommand, Offline,
         SInv, TypeOK
<1>5. Beats
  BY <1>1, <1>2 DEF SInv, TypeOK, Asked, NoHeartbeat, Beats
<1>6. Ordered'
  BY <1>1 DEF SInv, Ordered
<1>7. Counted' /\ unheard' \in Nat /\ asked' \in Nat
  <2>1. Alives' = Alives
    BY <1>1 DEF Alives
  <2>2. /\ unheard \in Nat /\ asked \in Nat /\ Cardinality(waking) \in Nat
        /\ remaining \in 0..Window /\ Window \in Nat \ {0} /\ Alives \in Int
        /\ unheard + remaining + Cardinality(waking) <= Alives + asked
    BY WakingFacts, TimesAssumption DEF SInv, TypeOK, Counted, Alives
  <2>3. CASE Elapse \/ \E c \in Clients : OpenSession(c)
    <3>1. UNCHANGED <<unheard, asked, waking, remaining>>
      BY <2>3 DEF Elapse, OpenSession, airtime, Inner
    <3> QED BY <2>1, <2>2, <3>1 DEF Counted
  <2>4. ASSUME NEW c \in Clients, CommandWakeup(c)
        PROVE  Counted' /\ unheard' \in Nat /\ asked' \in Nat
    <3>1. /\ c \notin waking /\ waking' = waking \cup {c}
          /\ unheard' = unheard + 1 /\ asked' = asked + 2
          /\ remaining' = remaining
      BY <2>4 DEF CommandWakeup, Sends, Inner
    <3>2. Cardinality(waking') = Cardinality(waking) + 1
      BY <3>1, WakingFacts DEF SInv, TypeOK
    <3> QED BY <2>1, <2>2, <3>1, <3>2 DEF Counted
  <2>5. ASSUME NEW c \in Clients, WakeRing(c)
        PROVE  Counted' /\ unheard' \in Nat /\ asked' \in Nat
    <3>1. /\ c \in waking /\ waking' = waking \ {c}
          /\ unheard' = unheard + 1 /\ asked' = asked + 0
          /\ remaining' = remaining
      BY <2>5 DEF WakeRing, Sends, Inner
    <3>2. Cardinality(waking') = Cardinality(waking) - 1
      BY <3>1, WakingFacts DEF SInv, TypeOK
    <3> QED BY <2>1, <2>2, <3>1, <3>2 DEF Counted
  <2>6. CASE BatteryCommand
    <3>1. CASE Start /\ Sends(1, Window + 1 - remaining)
      <4>1. /\ unheard' = unheard + 1
            /\ asked' = asked + (Window + 1 - remaining)
            /\ remaining' = Window /\ waking' = waking
        BY <2>6, <3>1 DEF BatteryCommand, Start, Sends
      <4> QED BY <2>1, <2>2, <4>1 DEF Counted
    <3>2. CASE Refuse /\ Sends(0, 0)
      <4>1. /\ unheard' = unheard + 0 /\ asked' = asked + 0
            /\ remaining' = remaining /\ waking' = waking
        BY <2>6, <3>2 DEF BatteryCommand, Refuse, Sends
      <4> QED BY <2>1, <2>2, <4>1 DEF Counted
    <3> QED BY <2>6, <3>1, <3>2 DEF BatteryCommand
  <2>7. CASE Offline
    <3>1. remaining' = 0 /\ UNCHANGED <<unheard, asked, waking>>
      BY <2>7 DEF Offline, Cancel, airtime
    <3> QED BY <2>1, <2>2, <3>1 DEF Counted
  <2> QED BY <2>3, <2>4, <2>5, <2>6, <2>7
<1> QED
  BY <1>1, <1>2, <1>3, <1>4, <1>5, <1>6, <1>7 DEF SInv, TypeOK, Beats

LEMMA RequestKeeps ==
  ASSUME SInv, NEW r \in Requests, Request(r)
  PROVE  SInv' /\ Beats
<1>1. /\ heartbeat' = NoHeartbeat /\ remaining' = remaining
      /\ requested' = requested \cup {r} /\ owed' = owed \cup {r}
      /\ UNCHANGED <<bus_idle, oem_idle, session, recent, waking, woken, unheard,
                     asked, orders>>
  BY DEF Request, Idle, Inner, airtime
<1>2. Beats
  BY <1>1 DEF SInv, TypeOK, Asked, NoHeartbeat, Beats
<1>3. Ordered' /\ Counted'
  BY <1>1 DEF SInv, Ordered, Counted, Alives
<1> QED BY <1>1, <1>2, <1>3 DEF SInv, TypeOK, Beats, session

LEMMA StepKeeps == SInv /\ Next => SInv' /\ Beats
<1> SUFFICES ASSUME SInv, Next PROVE SInv' /\ Beats
  OBVIOUS
<1>1. CASE Ticker1
  BY <1>1, Ticker1Keeps
<1>2. CASE \E kind \in {"oem", "bcu", "other"} : IncomingFrameCan3(kind)
  BY <1>2, FrameKeeps
<1>3. CASE \E r \in Requests : Request(r)
  BY <1>3, RequestKeeps
<1>4. CASE Elapse \/ (\E c \in Clients : CommandWakeup(c) \/ WakeRing(c)
                                           \/ OpenSession(c))
           \/ BatteryCommand \/ Offline
  BY <1>4, OtherKeeps
<1> QED BY <1>1, <1>2, <1>3, <1>4 DEF Next

LEMMA SInvKept == SInv /\ [Next]_vars => SInv'
<1>1. ASSUME SInv, UNCHANGED vars PROVE SInv'
  BY <1>1 DEF SInv, TypeOK, Ordered, Counted, Alives, Asked, vars, session,
             airtime, lifevars
<1> QED BY <1>1, StepKeeps

-----------------------------------------------------------------------------
\* The counters of the vehicle class stay ordered and within their types
\* whatever the frames, ticks and commands.
THEOREM VehicleInvariance == Spec => []SInv
  BY InitSInv, SInvKept, PTL DEF Spec

\* The run's type invariant: no counter passes the point where it stops.
THEOREM VehicleTypeCorrect == Spec => []TypeOK
<1>1. SInv => TypeOK
  BY DEF SInv
<1> QED BY <1>1, VehicleInvariance, PTL

\* Of the NM and wake frames OVMS sends without hearing anybody, fewer than
\* BusTimeout are not asked for by a command: NeverAlone, for every timeout, cap,
\* window and set of clients.
THEOREM VehicleNeverAlone == Spec => []NeverAlone
<1>1. SInv => NeverAlone
  <2> SUFFICES ASSUME SInv PROVE NeverAlone
    OBVIOUS
  <2>1. Cardinality(waking) \in Nat
    BY WakingFacts DEF SInv, TypeOK
  <2> QED
    BY <2>1, TimesAssumption DEF SInv, TypeOK, Counted, Alives, NeverAlone
<1> QED BY <1>1, VehicleInvariance, PTL

\* A wakeup starts only when the car's own OCU has been silent too: QuietWake.
THEOREM WakesQuietly == Spec => QuietWake
<1>1. SInv /\ [Next]_vars
        => [\A c \in Clients : CommandWakeup(c) => oem_idle >= BusTimeout]_vars
  <2> SUFFICES ASSUME SInv, NEW c \in Clients, CommandWakeup(c)
               PROVE  oem_idle >= BusTimeout
    OBVIOUS
  <2> QED
    BY TimesAssumption DEF SInv, TypeOK, Ordered, CommandWakeup
<1> QED BY <1>1, VehicleInvariance, PTL DEF Spec, QuietWake

\* No body request is executed that was not given since its last execution:
\* OnlyAsked.
THEOREM ExecutesOnlyAsked == Spec => OnlyAsked
<1>1. SInv /\ [Next]_vars => [heartbeat'.carries \subseteq owed]_vars
  BY StepKeeps DEF Beats
<1> QED BY <1>1, VehicleInvariance, PTL DEF Spec, OnlyAsked
=============================================================================
