----------------------- MODULE BatteryControlBusProofs -----------------------
(***************************************************************************)
(* Proofs about BatteryControlBus, for every wake window, retry period,    *)
(* number of commands, of losses and of edits.                             *)
(*                                                                         *)
(* What the controller keeps against any BCU (IInv) it keeps on this bus.  *)
(* When commands do not overlap, all that is on its way serves the command *)
(* in flight (Own), which makes its confirmation real.  And the time since  *)
(* the command began is paid for by the losses (Timely): each loss costs   *)
(* at most RetrySecs, applying a write at most ApplyTicks, a heartbeat     *)
(* taken for an acknowledgement another RetrySecs; unless a heartbeat      *)
(* stood for the acknowledgement of a lost handshake (Deaf).               *)
(***************************************************************************)
EXTENDS BatteryControlBus, BatteryControlProofs, FiniteSetTheorems

-----------------------------------------------------------------------------
(* Telegrams in a sequence.                                                *)

Elems(s) == {s[i] : i \in 1..Len(s)}

LEMMA EmptyElems == Elems(<<>>) = {}
BY DEF Elems

LEMMA AppendElems ==
  ASSUME NEW S, NEW s \in Seq(S), NEW e \in S
  PROVE  /\ Append(s, e) \in Seq(S)
         /\ Elems(Append(s, e)) = Elems(s) \cup {e}
         /\ Len(Append(s, e)) = Len(s) + 1
         /\ \A i \in 1..Len(s) : Append(s, e)[i] = s[i]
         /\ Append(s, e)[Len(s) + 1] = e
<1>1. /\ Append(s, e) \in Seq(S) /\ Len(Append(s, e)) = Len(s) + 1
      /\ \A i \in 1..Len(s) : Append(s, e)[i] = s[i]
      /\ Append(s, e)[Len(s) + 1] = e /\ Len(s) \in Nat
  OBVIOUS
<1>2. 1..(Len(s) + 1) = 1..Len(s) \cup {Len(s) + 1}
  BY <1>1
<1> QED BY <1>1, <1>2 DEF Elems

LEMMA TailElems ==
  ASSUME NEW S, NEW s \in Seq(S), s # <<>>
  PROVE  /\ Tail(s) \in Seq(S) /\ Head(s) \in S /\ Head(s) = s[1]
         /\ Len(s) \in Nat \ {0} /\ Len(Tail(s)) = Len(s) - 1
         /\ \A i \in 1..Len(Tail(s)) : Tail(s)[i] = s[i + 1]
         /\ Elems(s) = Elems(Tail(s)) \cup {Head(s)}
<1>1. /\ Tail(s) \in Seq(S) /\ Head(s) \in S /\ Head(s) = s[1]
      /\ Len(s) \in Nat \ {0} /\ Len(Tail(s)) = Len(s) - 1
      /\ \A i \in 1..Len(Tail(s)) : Tail(s)[i] = s[i + 1]
  OBVIOUS
<1>2. ASSUME NEW x \in Elems(s) PROVE x \in Elems(Tail(s)) \cup {Head(s)}
  <2>1. PICK i \in 1..Len(s) : x = s[i]
    BY <1>2 DEF Elems
  <2>2. CASE i = 1
    BY <1>1, <2>1, <2>2
  <2>3. CASE i # 1
    <3>1. i - 1 \in 1..Len(Tail(s)) /\ Tail(s)[i - 1] = s[(i - 1) + 1]
      BY <1>1, <2>3
    <3> QED BY <2>1, <3>1 DEF Elems
  <2> QED BY <2>2, <2>3
<1>3. ASSUME NEW x \in Elems(Tail(s)) PROVE x \in Elems(s)
  <2>1. PICK i \in 1..Len(Tail(s)) : x = Tail(s)[i]
    BY <1>3 DEF Elems
  <2>2. i + 1 \in 1..Len(s) /\ x = s[i + 1]
    BY <1>1, <2>1
  <2> QED BY <2>2 DEF Elems
<1>4. Head(s) \in Elems(s)
  BY <1>1 DEF Elems
<1> QED BY <1>1, <1>2, <1>3, <1>4

LEMMA ElemsTyped ==
  ASSUME NEW S, NEW s \in Seq(S)
  PROVE  /\ Elems(s) \subseteq S /\ Len(s) \in Nat
         /\ s = <<>> <=> Len(s) = 0
         /\ s = <<>> <=> Elems(s) = {}
<1>1. Len(s) \in Nat /\ (s = <<>> <=> Len(s) = 0)
  OBVIOUS
<1>2. Elems(s) \subseteq S
  BY DEF Elems
<1>3. ASSUME Len(s) # 0 PROVE Elems(s) # {}
  <2>1. 1 \in 1..Len(s)
    BY <1>1, <1>3
  <2> QED BY <2>1 DEF Elems
<1> QED BY <1>1, <1>2, <1>3, EmptyElems

\* The echoes of writes in a sequence of status elements.
Echoes(s) == Cardinality({i \in 1..Len(s) : s[i].type = "echo"})

LEMMA EchoesFinite ==
  ASSUME NEW s \in Seq(Status)
  PROVE  /\ IsFiniteSet({i \in 1..Len(s) : s[i].type = "echo"})
         /\ Echoes(s) \in Nat
         /\ s = <<>> => Echoes(s) = 0
<1>1. 0 \in Int /\ 1 \in Int /\ Len(s) \in Int
  OBVIOUS
<1>2. IsFiniteSet(1..Len(s))
  BY <1>1, FS_Interval
<1>3. {i \in 1..Len(s) : s[i].type = "echo"} \in SUBSET (1..Len(s))
  OBVIOUS
<1>4. IsFiniteSet({i \in 1..Len(s) : s[i].type = "echo"})
  BY <1>2, <1>3, FS_Subset
<1>5. s = <<>> => {i \in 1..Len(s) : s[i].type = "echo"} = {}
  OBVIOUS
<1> QED BY <1>4, <1>5, FS_CardinalityType, FS_EmptySet DEF Echoes

LEMMA EchoesAppend ==
  ASSUME NEW s \in Seq(Status), NEW e \in Status
  PROVE  Echoes(Append(s, e)) = IF e.type = "echo" THEN Echoes(s) + 1 ELSE Echoes(s)
<1> DEFINE A(q) == {i \in 1..Len(q) : q[i].type = "echo"}
           t == Append(s, e)
<1>1. /\ Len(s) \in Nat /\ Len(t) = Len(s) + 1 /\ t[Len(s) + 1] = e
      /\ \A i \in 1..Len(s) : t[i] = s[i]
  BY AppendElems
<1>2. IsFiniteSet(A(s)) /\ Len(s) + 1 \notin A(s)
  <2>1. IsFiniteSet(A(s))
    BY EchoesFinite
  <2> QED BY <1>1, <2>1
<1>3. CASE e.type = "echo"
  <2>1. A(t) = A(s) \cup {Len(s) + 1}
    BY <1>1, <1>3
  <2> QED BY <1>2, <1>3, <2>1, FS_AddElement DEF Echoes
<1>4. CASE e.type # "echo"
  <2>1. A(t) = A(s)
    BY <1>1, <1>4
  <2> QED BY <1>4, <2>1 DEF Echoes
<1> QED BY <1>3, <1>4

LEMMA EchoesTail ==
  ASSUME NEW s \in Seq(Status), s # <<>>
  PROVE  Echoes(s) = IF Head(s).type = "echo" THEN Echoes(Tail(s)) + 1
                                              ELSE Echoes(Tail(s))
<1> DEFINE A(q) == {i \in 1..Len(q) : q[i].type = "echo"}
           t == Tail(s)
           B == A(s) \ {1}
           f == [i \in A(t) |-> i + 1]
<1>1. /\ t \in Seq(Status) /\ Head(s) = s[1] /\ Len(s) \in Nat \ {0}
      /\ Len(t) = Len(s) - 1 /\ \A i \in 1..Len(t) : t[i] = s[i + 1]
  BY TailElems
<1>2. IsFiniteSet(A(t)) /\ IsFiniteSet(A(s))
  BY <1>1, EchoesFinite
<1>3. f \in Bijection(A(t), B)
  <2>1. f \in [A(t) -> B]
    BY <1>1
  <2>2. \A a, b \in A(t) : f[a] = f[b] => a = b
    OBVIOUS
  <2>3. ASSUME NEW b \in B PROVE \E a \in A(t) : f[a] = b
    <3>1. b \in 2..Len(s) /\ s[b].type = "echo"
      BY <1>1
    <3>2. b - 1 \in 1..Len(t) /\ t[b - 1] = s[(b - 1) + 1] /\ (b - 1) + 1 = b
      BY <1>1, <3>1
    <3>3. b - 1 \in A(t)
      BY <3>1, <3>2
    <3> QED BY <3>2, <3>3
  <2> HIDE DEF f, A, B
  <2> QED BY <2>1, <2>2, <2>3 DEF Bijection, Injection, Surjection, IsInjective
<1>4. Cardinality(B) = Cardinality(A(t))
  <2>1. ExistsBijection(A(t), B)
    BY <1>3 DEF ExistsBijection
  <2> HIDE DEF A, B
  <2> QED BY <1>2, <2>1, FS_Bijection
<1>5. 1 \in A(s) <=> Head(s).type = "echo"
  BY <1>1
<1>6. /\ Cardinality(B) = IF 1 \in A(s) THEN Cardinality(A(s)) - 1
                                        ELSE Cardinality(A(s))
      /\ Cardinality(A(s)) \in Nat
  BY <1>2, FS_RemoveElement, FS_CardinalityType
<1>7. Echoes(s) = Cardinality(A(s)) /\ Echoes(t) = Cardinality(A(t))
  BY DEF Echoes
<1> HIDE DEF A, B, t
<1> QED BY <1>4, <1>5, <1>6, <1>7 DEF t
-----------------------------------------------------------------------------
(* Types, and the controller's own invariant on this bus.                  *)

Entries == [tel : Sendable, cmd : Nat, want : SUBSET Flags]
Waiting == [profile : Record, age : Nat]

BusTypes ==
  /\ to_bcu \in Seq(Entries) /\ to_module \in Seq(Status)
  /\ pending \in Seq(Waiting)
  /\ store \in Record /\ channel \in {"closed", "acking", "open"}
  /\ running \in SUBSET Flags /\ awake \in BOOLEAN /\ beat \in BOOLEAN
  /\ commands \in Nat /\ losses \in 0..MaxLoss /\ edits \in Nat

Typed == IInv /\ BusTypes

\* The controller's step in a step of the whole, if it takes part in it.
LEMMA ControllerStep ==
  ASSUME BusTypes, [SysNext]_sysvars
  PROVE  [OpenNext]_vars
<1>1. CASE Issue \/ UserAbort
  BY <1>1 DEF Issue, UserAbort, OpenNext, Command
<1>2. CASE Tick
  <2>1. awake \in BOOLEAN /\ Ticker1(awake)
    BY <1>2 DEF Tick, BusTypes
  <2> QED BY <2>1 DEF OpenNext
<1>3. CASE Receive
  <2>1. Head(to_module) \in Status /\ IncomingBapStatus(Head(to_module))
    BY <1>3, TailElems DEF Receive, BusTypes
  <2> QED BY <2>1 DEF OpenNext
<1>4. CASE Report
  <2>1. ("PO_CLIMATE" \in running) \in BOOLEAN /\ ("PO_CHARGING" \in running) \in BOOLEAN
    OBVIOUS
  <2> QED BY <1>4, <2>1 DEF Report, OpenNext
<1>5. CASE Lose \/ Bcu \/ BcuSleep \/ MibEdit
  BY <1>5 DEF Lose, Bcu, BcuHandshake, BcuAck, BcuGet, BcuWrite, BcuApply,
              BcuTrigger, BcuBroadcast, BcuStep, BcuSleep, MibEdit
<1>6. CASE UNCHANGED sysvars
  BY <1>6 DEF sysvars
<1> QED BY <1>1, <1>2, <1>3, <1>4, <1>5, <1>6 DEF SysNext

LEMMA TargetIsSet ==
  ASSUME NEW o, NEW app, NEW old \in SUBSET Flags
  PROVE  Target(o, app, old) \in SUBSET Flags
BY DEF Target, Flags

\* A step puts what was sent at the end, or nothing.
LEMMA PutFacts ==
  ASSUME BusTypes, TypeOK, TypeOK', commands' = commands, Put
  PROVE  /\ to_bcu' \in Seq(Entries)
         /\ \/ sent' = Nothing /\ to_bcu' = to_bcu
            \/ /\ sent' # Nothing /\ Entry(sent') \in Entries
               /\ to_bcu' = Append(to_bcu, Entry(sent'))
<1>1. CASE sent' = Nothing
  BY <1>1 DEF Put, BusTypes
<1>2. CASE sent' # Nothing
  <2>1. profile0'.operation \in SUBSET Flags
    BY DEF TypeOK, Record
  <2>2. sent' \in Sendable /\ commands' \in Nat
    BY DEF TypeOK, BusTypes
  <2>3. Target(op, apply, profile0'.operation) \in SUBSET Flags
    BY <2>1, TargetIsSet
  <2>4. Entry(sent') \in Entries
    BY <2>2, <2>3 DEF Entry, Entries
  <2> QED BY <1>2, <2>4, AppendElems DEF Put, BusTypes
<1> QED BY <1>1, <1>2

\* Everything the BCU says is a status element.
LEMMA SayFacts ==
  ASSUME BusTypes, NEW e \in Status, Say(e)
  PROVE  to_module' \in Seq(Status) /\ to_module' = Append(to_module, e)
BY AppendElems DEF Say, BusTypes

LEMMA SaidFacts ==
  /\ Ack \in Status
  /\ \A t \in {"echo", "error", "other"} : Telegram(t, FALSE, Unset) \in Status
  /\ \A f \in BOOLEAN : Telegram("opmode", f, Unset) \in Status
  /\ \A p \in Record : Telegram("profiles", FALSE, p) \in Status
BY UnsetIsRecord DEF Ack, Telegram, Status

LEMMA CountLossFacts ==
  ASSUME BusTypes, NEW lost \in BOOLEAN, CountLoss(lost)
  PROVE  /\ losses' \in 0..MaxLoss /\ losses \in Nat /\ losses' \in Nat
         /\ losses' = IF lost THEN losses + 1 ELSE losses
BY BoundsAssumption DEF BusTypes, CountLoss

LEMMA BcuStepFacts ==
  ASSUME BusTypes, NEW type, BcuStep(type)
  PROVE  /\ to_bcu' \in Seq(Entries) /\ Head(to_bcu) \in Entries
         /\ Head(to_bcu) \in Elems(to_bcu) /\ Head(to_bcu).tel.type = type
         /\ to_bcu # <<>> /\ to_bcu' = Tail(to_bcu) /\ awake
         /\ UNCHANGED <<vars, awake, beat, bounds>>
BY TailElems DEF BusTypes, BcuStep

LEMMA InitTyped == SysInit => Typed
<1> SUFFICES ASSUME SysInit PROVE BusTypes
  BY InitIInv DEF Typed, SysInit
<1>1. to_bcu \in Seq(Entries) /\ to_module \in Seq(Status) /\ pending \in Seq(Waiting)
  BY DEF SysInit
<1>2. store \in Record
  BY ProfileIsRecord DEF SysInit
<1>3. 0 \in 0..MaxLoss
  BY BoundsAssumption
<1> QED BY <1>1, <1>2, <1>3 DEF SysInit, BusTypes

LEMMA TypedTick ==
  ASSUME Typed, IInv', Tick
  PROVE  BusTypes'
<1>0. BusTypes /\ TypeOK /\ TypeOK' /\ commands' = commands
  BY DEF Typed, IInv, Tick
<1>1. to_bcu' \in Seq(Entries)
  BY <1>0, PutFacts DEF Tick
<1>2. pending' \in Seq(Waiting)
  <2>1. pending \in Seq(Waiting) /\ Len(pending) \in Nat
    BY <1>0, ElemsTyped DEF BusTypes
  <2>2. \A i \in 1..Len(pending) :
          [pending[i] EXCEPT !.age = @ + 1] \in Waiting
    <3>1. \A w \in Waiting : [w EXCEPT !.age = @ + 1] \in Waiting
      BY DEF Waiting
    <3>2. \A i \in 1..Len(pending) : pending[i] \in Waiting
      BY <2>1
    <3> QED BY <3>1, <3>2
  <2>3. pending' = [i \in 1..Len(pending) |-> [pending[i] EXCEPT !.age = @ + 1]]
    BY <2>1 DEF Tick
  <2> QED BY <2>1, <2>2, <2>3
<1>3. losses' \in 0..MaxLoss
  <2>1. (wake_hold > 0 /\ RetryDue
           /\ Refused(phase \notin {"CP_IDLE", "CP_WAKE", "CP_DONE"})) \in BOOLEAN
    OBVIOUS
  <2> QED BY <1>0, <2>1, CountLossFacts DEF Tick
<1> QED BY <1>0, <1>1, <1>2, <1>3 DEF BusTypes, Tick

LEMMA TypedReceive ==
  ASSUME Typed, IInv', Receive
  PROVE  BusTypes'
<1>0. BusTypes /\ TypeOK /\ TypeOK' /\ commands' = commands
  BY DEF Typed, IInv, Receive
<1>1. to_bcu' \in Seq(Entries)
  BY <1>0, PutFacts DEF Receive
<1>2. to_module' \in Seq(Status)
  BY <1>0, TailElems DEF Receive, BusTypes
<1>3. losses' \in 0..MaxLoss
  <2>1. Refused(TRUE) \in BOOLEAN
    BY DEF Refused
  <2> QED BY <1>0, <2>1, CountLossFacts DEF Receive
<1> QED BY <1>0, <1>1, <1>2, <1>3 DEF BusTypes, Receive, bcu

LEMMA TypedBcu ==
  ASSUME Typed, Bcu
  PROVE  BusTypes'
<1>0. BusTypes
  BY DEF Typed
<1> USE DEF bounds
<1>1. CASE BcuHandshake
  BY <1>0, <1>1, BcuStepFacts DEF BusTypes, BcuHandshake
<1>2. CASE BcuAck
  BY <1>0, <1>2, SayFacts, SaidFacts DEF BusTypes, BcuAck
<1>3. CASE BcuGet
  <2>1. to_module' \in Seq(Status)
    BY <1>0, <1>3, SayFacts, SaidFacts DEF BusTypes, BcuGet
  <2> QED BY <1>0, <1>3, <2>1, BcuStepFacts DEF BusTypes, BcuGet
<1>4. CASE BcuWrite
  <2>1. [profile |-> Head(to_bcu).tel.profile, age |-> 0] \in Waiting
    BY <1>0, <1>4, BcuStepFacts DEF BcuWrite, Entries, Sendable, Waiting
  <2>2. pending' \in Seq(Waiting)
    BY <1>0, <1>4, <2>1, AppendElems DEF BusTypes, BcuWrite
  <2> QED BY <1>0, <1>4, <2>2, BcuStepFacts DEF BusTypes, BcuWrite
<1>5. CASE BcuApply
  <2>1. to_module' \in Seq(Status)
    BY <1>0, <1>5, SayFacts, SaidFacts DEF BcuApply
  <2>2. pending' \in Seq(Waiting) /\ Head(pending) \in Waiting
    BY <1>0, <1>5, TailElems DEF BusTypes, BcuApply
  <2>3. store' \in Record
    BY <1>5, <2>2 DEF BcuApply, Waiting
  <2> QED BY <1>0, <1>5, <2>1, <2>2, <2>3 DEF BusTypes, BcuApply
<1>6. CASE BcuTrigger
  <2>1. Head(to_bcu).tel.flag \in BOOLEAN
    BY <1>0, <1>6, BcuStepFacts DEF BcuTrigger, Entries, Sendable
  <2>2. to_module' \in Seq(Status)
    BY <1>0, <1>6, <2>1, SayFacts, SaidFacts DEF BcuTrigger
  <2>3. store.operation \in SUBSET Flags
    BY <1>0 DEF BusTypes, Record
  <2>4. running' \in SUBSET Flags
    BY <1>0, <1>6, <2>3 DEF BusTypes, BcuTrigger
  <2> QED BY <1>0, <1>6, <2>2, <2>4, BcuStepFacts DEF BusTypes, BcuTrigger
<1>7. CASE BcuBroadcast
  <2>1. to_module' \in Seq(Status)
    BY <1>0, <1>7, SayFacts, SaidFacts DEF BcuBroadcast
  <2> QED BY <1>0, <1>7, <2>1 DEF BusTypes, BcuBroadcast
<1> QED BY <1>1, <1>2, <1>3, <1>4, <1>5, <1>6, <1>7 DEF Bcu

LEMMA TypedKept ==
  ASSUME Typed, [SysNext]_sysvars
  PROVE  Typed'
<1>0. BusTypes /\ IInv'
  BY ControllerStep, OpenNextKeeps DEF Typed
<1>1. CASE Issue
  BY <1>0, <1>1 DEF Typed, BusTypes, Issue
<1>2. CASE UserAbort \/ Report
  BY <1>0, <1>2 DEF Typed, BusTypes, UserAbort, Report, bcu, bounds
<1>3. CASE Tick
  BY <1>0, <1>3, TypedTick DEF Typed
<1>4. CASE Receive
  BY <1>0, <1>4, TypedReceive DEF Typed
<1>5. CASE Lose
  <2>1. losses' \in 0..MaxLoss
    BY <1>0, <1>5, CountLossFacts DEF Lose
  <2>2. to_bcu' \in Seq(Entries) /\ to_module' \in Seq(Status)
    <3>1. CASE to_bcu # <<>> /\ to_bcu' = Tail(to_bcu) /\ UNCHANGED to_module
      BY <1>0, <3>1, TailElems DEF BusTypes
    <3>2. CASE to_module # <<>> /\ to_module' = Tail(to_module) /\ UNCHANGED to_bcu
      BY <1>0, <3>2, TailElems DEF BusTypes
    <3> QED BY <1>5, <3>1, <3>2 DEF Lose
  <2> QED BY <1>0, <1>5, <2>1, <2>2 DEF Typed, BusTypes, Lose, bcu
<1>6. CASE Bcu
  BY <1>0, <1>6, TypedBcu DEF Typed
<1>7. CASE BcuSleep
  BY <1>0, <1>7 DEF Typed, BusTypes, BcuSleep, bounds
<1>8. CASE MibEdit
  <2>1. PICK r \in Rests \ {store.rest} : store' = [store EXCEPT !.rest = r]
    BY <1>8 DEF MibEdit
  <2>2. store' \in Record
    BY <1>0, <2>1 DEF BusTypes, Record
  <2> QED BY <1>0, <1>8, <2>2 DEF Typed, BusTypes, MibEdit
<1>9. CASE UNCHANGED sysvars
  BY <1>0, <1>9 DEF Typed, BusTypes, sysvars, bcu, bounds
<1> QED BY <1>1, <1>2, <1>3, <1>4, <1>5, <1>6, <1>7, <1>8, <1>9 DEF SysNext

\* On this bus the controller keeps what it keeps against any BCU, and what is
\* on the bus is well formed: no guard of a handler of the class relies on what
\* the BCU of the other theorems may say and this one may not.
THEOREM BusInvariance == SysSpec => []Typed
BY InitTyped, TypedKept, PTL DEF SysSpec

\* The whole with its bus, losses and BCU implements the lifecycle the user
\* sees: one verdict for each command, the bridge released in the window, and a
\* notification exactly when it is released unconfirmed (Begin, Ticker1,
\* IncomingBapStatus, Abort).
THEOREM BusImplementsLifecycle == SysSpec => ImplementsLifecycle
<1>1. SysInit => Lifecycle!LifeInit
  BY LifecycleInit DEF SysInit
<1>2. Typed /\ [SysNext]_sysvars => [Lifecycle!LifeNext]_(Lifecycle!lifevars)
  BY ControllerStep, LifecycleStep DEF Typed
<1> QED BY <1>1, <1>2, BusInvariance, PTL
        DEF SysSpec, ImplementsLifecycle, Lifecycle!LifeSpec

-----------------------------------------------------------------------------
(* What a step of the controller sends, and where it goes.                 *)

LEMMA TelegramFields ==
  /\ Handshake.type = "handshake" /\ GetArray.type = "get"
  /\ Nothing.type = "none"
  /\ \A on : Trigger(on).type = "trigger" /\ Trigger(on).flag = on
  /\ \A p : Write(p).type = "write" /\ Write(p).profile = p
BY DEF Handshake, GetArray, Nothing, Trigger, Write, Telegram

\* The driver took t, or refused it.
Tried(t) == sent' = t \/ (sent' = Nothing /\ tx_fail')

LEMMA TriedFacts ==
  ASSUME NEW fail
  PROVE  /\ SendHandshake(fail) => Tried(Handshake)
         /\ SendProfileGet(fail) => Tried(GetArray)
         /\ \A on : SendTrigger(on, fail) => Tried(Trigger(on))
         /\ \A p : SendArm(p, fail) /\ ~SkipsWrite(p) => Tried(Write(Armed(p)))
BY DEF SendHandshake, SendProfileGet, SendTrigger, SendArm, Transmit, Tried

\* Where the phase goes when a write was tried.
AfterWrite == IF sent' = Nothing THEN phase
              ELSE IF WriteOnly THEN "CP_CONFIRM" ELSE "CP_ARM_WAIT"

LEMMA ArmOutcome ==
  ASSUME NEW p, NEW fail, NEW next, ArmAndAdvance(p, fail, next)
  PROVE  \/ /\ SkipsWrite(p) /\ Tried(Trigger(enable)) /\ next = "CP_CONFIRM"
            /\ ~WriteOnly
         \/ /\ ~SkipsWrite(p) /\ Tried(Write(Armed(p))) /\ next = AfterWrite
<1>1. SkipsWrite(p) => ~WriteOnly
  BY DEF SkipsWrite, WriteOnly
<1> QED BY <1>1, TriedFacts DEF ArmAndAdvance, AfterWrite

\* The step the backstop repeats in each phase.
LEMMA ResendOutcome ==
  ASSUME NEW next, Resend(next)
  PROVE  /\ phase = "CP_HANDSHAKE" => next = phase /\ Tried(Handshake)
         /\ phase = "CP_PROFILE" /\ ~have_profile0
              => next = phase /\ Tried(GetArray)
         /\ phase = "CP_PROFILE" /\ have_profile0 =>
              \/ /\ SkipsWrite(profile0) /\ Tried(Trigger(enable))
                 /\ next = "CP_CONFIRM" /\ ~WriteOnly
              \/ /\ ~SkipsWrite(profile0) /\ Tried(Write(Armed(profile0)))
                 /\ next = AfterWrite
         /\ AwaitsWriteEcho =>
              /\ next = phase
              /\ sent' = Nothing \/ sent' = Write(Armed(profile0))
              /\ ~SkipsWrite(profile0) => Tried(Write(Armed(profile0)))
         /\ AwaitsOpMode => next = phase /\ Tried(Trigger(enable))
         /\ phase \in {"CP_WAKE", "CP_DONE"} => next = phase /\ sent' = Nothing
<1>1. CASE phase = "CP_HANDSHAKE" /\ SendHandshake(tx_fail) /\ next = phase
  BY <1>1, TriedFacts DEF AwaitsWriteEcho, AwaitsOpMode
<1>2. CASE phase = "CP_PROFILE" /\ have_profile0
           /\ ArmAndAdvance(profile0, tx_fail, next)
  BY <1>2, ArmOutcome DEF AwaitsWriteEcho, AwaitsOpMode
<1>3. CASE phase = "CP_PROFILE" /\ ~have_profile0
           /\ SendProfileGet(tx_fail) /\ next = phase
  BY <1>3, TriedFacts DEF AwaitsWriteEcho, AwaitsOpMode
<1>4. CASE ResendArm(next)
  <2>1. SendArm(profile0, tx_fail) /\ next = phase /\ AwaitsWriteEcho
    BY <1>4 DEF ResendArm
  <2>2. sent' = Nothing \/ sent' = Write(Armed(profile0))
    BY <2>1 DEF SendArm, Transmit
  <2> QED BY <2>1, <2>2, TriedFacts DEF AwaitsWriteEcho, AwaitsOpMode
<1>5. CASE AwaitsOpMode /\ SendTrigger(enable, tx_fail) /\ next = phase
  BY <1>5, TriedFacts DEF AwaitsWriteEcho, AwaitsOpMode
<1>6. CASE phase \in {"CP_WAKE", "CP_DONE"} /\ sent' = Nothing /\ next = phase
  BY <1>6 DEF AwaitsWriteEcho, AwaitsOpMode
<1> QED BY <1>1, <1>2, <1>3, <1>4, <1>5, <1>6 DEF Resend

-----------------------------------------------------------------------------
(* All that is on its way serves the command in flight.                    *)

\* Two records with the same operation and current.
Same(p, q) == p.operation = q.operation /\ p.maxCurrent = q.maxCurrent

\* The operation the command wants run, and the run of it.
Goal == Target(op, apply, profile0.operation)
OwnRun == ran = [cmd |-> commands, flag |-> enable, operation |-> Goal]

\* The BCU's profile 0 holds what the command armed.
Applied == have_profile0 /\ Same(store, Armed(profile0))

OwnTelegram(t) ==
  /\ t.tel.type = "write" => have_profile0 /\ t.tel.profile = Armed(profile0)
  /\ t.tel.type = "trigger" => /\ Applied /\ t.tel.flag = enable
                               /\ t.cmd = commands /\ t.want = Goal

OwnWrite(w) == have_profile0 /\ w.profile = Armed(profile0)

OwnReply(e) ==
  /\ e.type = "echo" => Applied
  /\ e.type = "opmode" => Applied /\ OwnRun /\ e.flag = enable
  /\ e.type = "profiles" => /\ e.profile.maxCurrent <= HardLimit
                            /\ have_profile0 \/ Same(e.profile, store)

OwnStore ==
  /\ store.maxCurrent <= HardLimit
  /\ have_profile0 => /\ profile0.maxCurrent <= HardLimit
                      /\ Same(store, profile0) \/ Same(store, Armed(profile0))
  /\ AwaitsOpMode => Applied
  /\ confirmed => Applied /\ (WriteOnly \/ OwnRun)

Own ==
  /\ \A t \in Elems(to_bcu) : OwnTelegram(t)
  /\ \A w \in Elems(pending) : OwnWrite(w)
  /\ \A e \in Elems(to_module) : OwnReply(e)
  /\ OwnStore

LEMMA InitOwn == SysInit => Own
BY EmptyElems DEF SysInit, Init, Own, OwnStore, AwaitsOpMode

\* The record read for the command stays, so does what is made of it.
SameRecord == UNCHANGED <<op, param, enable, apply, have_profile0, profile0>>

LEMMA SameRecordFacts ==
  ASSUME SameRecord
  PROVE  /\ Armed(profile0)' = Armed(profile0) /\ Goal' = Goal
         /\ SkipsWrite(profile0)' = SkipsWrite(profile0)
         /\ WriteOnly' = WriteOnly
BY DEF SameRecord, Armed, Goal, SkipsWrite, WriteOnly

\* A step that leaves profile 0, up to its other fields, and the record read.
SameOwn ==
  /\ SameRecord /\ UNCHANGED <<commands, ran>>
  /\ store'.operation = store.operation /\ store'.maxCurrent = store.maxCurrent

LEMMA SameOwnFacts ==
  ASSUME SameOwn
  PROVE  /\ Applied' = Applied /\ OwnRun' = OwnRun
         /\ \A t : OwnTelegram(t) => OwnTelegram(t)'
         /\ \A w : OwnWrite(w) => OwnWrite(w)'
         /\ \A e : OwnReply(e) => OwnReply(e)'
<1>1. /\ Armed(profile0)' = Armed(profile0) /\ Goal' = Goal
      /\ UNCHANGED <<have_profile0, enable, commands, ran>>
      /\ store'.operation = store.operation /\ store'.maxCurrent = store.maxCurrent
  BY SameRecordFacts DEF SameOwn, SameRecord
<1>2. Applied' = Applied /\ OwnRun' = OwnRun
  BY <1>1 DEF Applied, OwnRun, Same
<1>3. \A t : OwnTelegram(t) => OwnTelegram(t)'
  BY <1>1, <1>2 DEF OwnTelegram
<1>4. \A w : OwnWrite(w) => OwnWrite(w)'
  BY <1>1 DEF OwnWrite
<1>5. \A e : OwnReply(e) => OwnReply(e)'
  BY <1>1, <1>2 DEF OwnReply, Same
<1> QED BY <1>2, <1>3, <1>4, <1>5

\* Nothing new is known of profile 0: OwnStore holds after the step when it
\* does not start to await a trigger's echo, nor confirms.
LEMMA OwnStoreKept ==
  ASSUME SameOwn, OwnStore,
         AwaitsOpMode' => Applied,
         confirmed' => Applied /\ (WriteOnly \/ OwnRun)
  PROVE  OwnStore'
<1>1. /\ Armed(profile0)' = Armed(profile0) /\ WriteOnly' = WriteOnly
      /\ UNCHANGED <<have_profile0, profile0>>
      /\ store'.operation = store.operation /\ store'.maxCurrent = store.maxCurrent
  BY SameRecordFacts DEF SameOwn, SameRecord
<1>2. Applied' = Applied /\ OwnRun' = OwnRun
  BY SameOwnFacts
<1> QED BY <1>1, <1>2 DEF OwnStore, Same

\* Steps that leave profile 0, the record and the verdict: what is on its way
\* after them has to serve the command as it was before them.
LEMMA OwnCarried ==
  ASSUME SameOwn, OwnStore,
         \A t \in Elems(to_bcu)' : OwnTelegram(t),
         \A w \in Elems(pending)' : OwnWrite(w),
         \A e \in Elems(to_module)' : OwnReply(e),
         AwaitsOpMode' => AwaitsOpMode, confirmed' = confirmed
  PROVE  Own'
<1>1. /\ \A t \in Elems(to_bcu)' : OwnTelegram(t)'
      /\ \A w \in Elems(pending)' : OwnWrite(w)'
      /\ \A e \in Elems(to_module)' : OwnReply(e)'
  BY SameOwnFacts
<1>2. OwnStore'
  BY OwnStoreKept DEF OwnStore
<1> QED BY <1>1, <1>2 DEF Own

\* A record that needs no write is armed as it is.
LEMMA SkipApplied ==
  ASSUME OwnStore, have_profile0, SkipsWrite(profile0)
  PROVE  Applied
BY DEF OwnStore, SkipsWrite, Applied, Same

\* What the controller may send, in terms of the state after the step.
SendsOwn ==
  \/ sent' \in {Nothing, Handshake, GetArray}
  \/ sent' = Write(Armed(profile0)') /\ have_profile0'
  \/ sent' = Trigger(enable') /\ Applied'

LEMMA OwnPut ==
  ASSUME Typed, Typed', Put, commands' = commands,
         UNCHANGED <<op, param, enable, apply>>, SendsOwn,
         \A t \in Elems(to_bcu) : OwnTelegram(t)'
  PROVE  \A t \in Elems(to_bcu)' : OwnTelegram(t)'
<1>1. CASE to_bcu' = to_bcu
  BY <1>1 DEF Elems
<1>2. CASE /\ Entry(sent') \in Entries /\ sent' # Nothing
           /\ to_bcu' = Append(to_bcu, Entry(sent'))
  <2>1. Elems(to_bcu') = Elems(to_bcu) \cup {Entry(sent')}
    BY <1>2, AppendElems DEF Typed, BusTypes
  <2>2. Elems(to_bcu)' = Elems(to_bcu')
    BY DEF Elems
  <2>3. /\ Entry(sent').tel = sent' /\ Entry(sent').cmd = commands'
        /\ Entry(sent').want = Goal'
    BY DEF Entry, Goal
  <2>4. ASSUME NEW t, t = Entry(sent') PROVE OwnTelegram(t)'
    <3>1. t.tel = sent' /\ t.cmd = commands' /\ t.want = Goal'
      BY <2>3, <2>4
    <3> QED BY <1>2, <3>1, TelegramFields DEF OwnTelegram, SendsOwn
  <2> SUFFICES ASSUME NEW t \in Elems(to_bcu)' PROVE OwnTelegram(t)'
    OBVIOUS
  <2> QED BY <2>1, <2>2, <2>4
<1> QED BY <1>1, <1>2, PutFacts DEF Typed, IInv

LEMMA TickOutcome ==
  ASSUME Typed, Own, NEW bus_alive \in BOOLEAN, Ticker1(bus_alive)
  PROVE  /\ SameRecord /\ confirmed' = confirmed
         /\ \/ sent' \in {Nothing, Handshake, GetArray}
            \/ sent' = Write(Armed(profile0)) /\ have_profile0
            \/ sent' = Trigger(enable) /\ Applied
         /\ AwaitsOpMode' => Applied
<1>t. /\ phase \in Phases /\ Progress /\ OwnStore
      /\ (AwaitsOpMode => Applied)
  BY DEF Typed, IInv, TypeOK, Own, OwnStore
<1>1. CASE TickIdle(bus_alive)
  <2>1. SameRecord /\ confirmed' = confirmed /\ sent' = Nothing /\ phase' = phase
    BY <1>1 DEF TickIdle, Quiet, SameRecord, command
  <2>2. AwaitsOpMode' = AwaitsOpMode
    BY <2>1, SameRecordFacts DEF AwaitsOpMode
  <2> QED BY <1>t, <2>1, <2>2
<1>2. CASE TickActive(bus_alive)
  <2>1. SameRecord /\ confirmed' = confirmed /\ phase # "CP_IDLE"
    BY <1>2 DEF TickActive, SameRecord, command
  <2>2. PICK next \in Phases :
          Backstop(next) /\ (phase' = next \/ phase' = "CP_IDLE")
    BY <1>2 DEF TickActive
  <2>3. WriteOnly' = WriteOnly
    BY <2>1, SameRecordFacts
  <2>4. CASE RetryDue
    <3>1. Resend(next)
      BY <2>2, <2>4 DEF Backstop
    <3>2. CASE phase \in {"CP_WAKE", "CP_DONE", "CP_HANDSHAKE"}
      BY <2>1, <2>2, <3>1, <3>2, ResendOutcome DEF Tried, AwaitsOpMode
    <3>3. CASE phase = "CP_PROFILE" /\ ~have_profile0
      BY <2>1, <2>2, <3>1, <3>3, ResendOutcome DEF Tried, AwaitsOpMode
    <3>4. CASE phase = "CP_PROFILE" /\ have_profile0
      <4>1. CASE /\ SkipsWrite(profile0) /\ Tried(Trigger(enable))
                 /\ next = "CP_CONFIRM" /\ ~WriteOnly
        <5>1. Applied
          BY <1>t, <3>4, <4>1, SkipApplied
        <5> QED BY <2>1, <4>1, <5>1 DEF Tried
      <4>2. CASE /\ ~SkipsWrite(profile0) /\ Tried(Write(Armed(profile0)))
                 /\ next = AfterWrite
        <5>1. ~AwaitsOpMode'
          BY <2>2, <2>3, <3>4, <4>2 DEF AfterWrite, AwaitsOpMode
        <5> QED BY <2>1, <3>4, <4>2, <5>1 DEF Tried
      <4> QED BY <3>1, <3>4, <4>1, <4>2, ResendOutcome
    <3>5. CASE AwaitsWriteEcho
      <4>1. have_profile0
        BY <1>t, <3>5 DEF AwaitsWriteEcho, Progress
      <4>2. ~AwaitsOpMode'
        BY <2>2, <2>3, <3>1, <3>5, ResendOutcome DEF AwaitsWriteEcho, AwaitsOpMode
      <4> QED BY <2>1, <3>1, <3>5, <4>1, <4>2, ResendOutcome
    <3>6. CASE AwaitsOpMode
      BY <1>t, <2>1, <3>1, <3>6, ResendOutcome DEF Tried
    <3> QED BY <1>t, <2>1, <3>2, <3>3, <3>4, <3>5, <3>6
            DEF Phases, AwaitsWriteEcho, AwaitsOpMode
  <2>5. CASE ~RetryDue
    <3>1. sent' = Nothing /\ next = phase
      BY <2>2, <2>5 DEF Backstop
    <3>2. AwaitsOpMode' => AwaitsOpMode
      BY <2>2, <2>3, <3>1 DEF AwaitsOpMode
    <3> QED BY <1>t, <2>1, <3>1, <3>2
  <2> QED BY <2>4, <2>5
<1> QED BY <1>1, <1>2 DEF Ticker1

LEMMA OwnTick ==
  ASSUME Typed, Typed', Own, Tick
  PROVE  Own'
<1>1. /\ SameRecord /\ confirmed' = confirmed
      /\ \/ sent' \in {Nothing, Handshake, GetArray}
         \/ sent' = Write(Armed(profile0)) /\ have_profile0
         \/ sent' = Trigger(enable) /\ Applied
      /\ AwaitsOpMode' => Applied
  <2>1. awake \in BOOLEAN /\ Ticker1(awake)
    BY DEF Typed, BusTypes, Tick
  <2> QED BY <2>1, TickOutcome
<1>2. SameOwn
  BY <1>1 DEF SameOwn, Tick
<1>3. SendsOwn
  BY <1>1, <1>2, SameOwnFacts, SameRecordFacts DEF SendsOwn, SameRecord
<1>4. \A t \in Elems(to_bcu)' : OwnTelegram(t)'
  <2>1. \A t \in Elems(to_bcu) : OwnTelegram(t)'
    BY <1>2, SameOwnFacts DEF Own
  <2> QED BY <1>1, <1>3, <2>1, OwnPut DEF Tick, SameRecord
<1>5. \A e \in Elems(to_module)' : OwnReply(e)'
  <2>1. Elems(to_module)' = Elems(to_module)
    BY DEF Tick, Elems
  <2> QED BY <1>2, <2>1, SameOwnFacts DEF Own
<1>6. \A w \in Elems(pending)' : OwnWrite(w)'
  <2> SUFFICES ASSUME NEW w \in Elems(pending)' PROVE OwnWrite(w)'
    OBVIOUS
  <2>1. pending \in Seq(Waiting) /\ Len(pending) \in Nat
    BY ElemsTyped DEF Typed, BusTypes
  <2>2. pending' = [i \in 1..Len(pending) |-> [pending[i] EXCEPT !.age = @ + 1]]
    BY <2>1 DEF Tick
  <2>3. Len(pending') = Len(pending)
    BY <2>1, <2>2
  <2>4. PICK i \in 1..Len(pending) : w = pending'[i]
    BY <2>3 DEF Elems
  <2>5. w.profile = pending[i].profile /\ pending[i] \in Elems(pending)
    <3>1. \A v \in Waiting : [v EXCEPT !.age = @ + 1].profile = v.profile
      BY DEF Waiting
    <3>2. pending[i] \in Waiting /\ w = [pending[i] EXCEPT !.age = @ + 1]
      BY <2>1, <2>2, <2>4
    <3>3. w.profile = pending[i].profile
      BY <3>1, <3>2
    <3> QED BY <2>4, <3>3 DEF Elems
  <2>6. OwnWrite(w)
    BY <2>5 DEF Own, OwnWrite
  <2> QED BY <1>2, <2>6, SameOwnFacts
<1>7. OwnStore'
  BY <1>1, <1>2, OwnStoreKept DEF Own, OwnStore
<1> QED BY <1>4, <1>5, <1>6, <1>7 DEF Own

\* What a status element makes of the command: it keeps its record, or reads
\* it now (NewRecord).
NewRecord(e) ==
  /\ phase = "CP_PROFILE" /\ ~have_profile0 /\ e.type = "profiles"
  /\ profile0' = e.profile /\ have_profile0' /\ confirmed' = confirmed
  /\ UNCHANGED <<op, param, enable, apply>>
  /\ \/ /\ SkipsWrite(e.profile) /\ Tried(Trigger(enable))
        /\ phase' = "CP_CONFIRM" /\ ~WriteOnly
     \/ /\ ~SkipsWrite(e.profile) /\ Tried(Write(Armed(e.profile)))
        /\ phase' = AfterWrite

OldRecord(e) ==
  /\ SameRecord
  /\ \/ sent' \in {Nothing, Handshake, GetArray}
     \/ sent' = Trigger(enable) /\ e.type = "echo"
  /\ AwaitsOpMode' => AwaitsOpMode \/ e.type = "echo"
  /\ confirmed' => \/ confirmed
                   \/ AwaitsOpMode /\ e.type = "opmode"
                   \/ WriteOnly /\ e.type = "echo"

LEMMA FrameOutcome ==
  ASSUME NEW e, IncomingBapStatus(e)
  PROVE  OldRecord(e) \/ NewRecord(e)
<1>1. CASE FirstContact(e)
  <2>1. Tried(Handshake)
    BY <1>1, TriedFacts DEF FirstContact
  <2> QED BY <1>1, <2>1
          DEF FirstContact, OldRecord, SameRecord, command, Tried, AwaitsOpMode
<1>2. CASE HandshakeAck(e)
  <2>1. Tried(GetArray)
    BY <1>2, TriedFacts DEF HandshakeAck
  <2> QED BY <1>2, <2>1
          DEF HandshakeAck, OldRecord, SameRecord, command, Tried, AwaitsOpMode
<1>3. CASE BapError(e)
  BY <1>3 DEF BapError, OldRecord, SameRecord, command, AwaitsOpMode
<1>4. CASE OpModeEcho(e)
  <2>1. SameRecord /\ sent' = Nothing /\ e.type = "opmode"
    BY <1>4 DEF OpModeEcho, SameRecord, command
  <2>2. confirmed' => confirmed \/ AwaitsOpMode
    BY <1>4 DEF OpModeEcho, Confirms
  <2>3. AwaitsOpMode' => AwaitsOpMode
    BY <1>4, <2>1, SameRecordFacts DEF OpModeEcho, AwaitsOpMode
  <2> QED BY <2>1, <2>2, <2>3 DEF OldRecord
<1>5. CASE WriteEcho(e)
  <2>1. SameRecord /\ e.type = "echo"
    BY <1>5 DEF WriteEcho, SameRecord, command
  <2>2. CASE ReleasesTrigger /\ SendTrigger(enable, FALSE) /\ confirmed' = confirmed
    BY <2>1, <2>2, TriedFacts DEF Tried, OldRecord
  <2>3. CASE ConfirmsWrite /\ sent' = Nothing
    BY <2>1, <2>3 DEF ConfirmsWrite, OldRecord
  <2>4. CASE sent' = Nothing /\ confirmed' = confirmed
    BY <2>1, <2>4 DEF OldRecord
  <2> QED BY <1>5, <2>2, <2>3, <2>4 DEF WriteEcho
<1>6. CASE ProfileReply(e)
  <2>1. \/ /\ SkipsWrite(e.profile) /\ Tried(Trigger(enable))
           /\ phase' = "CP_CONFIRM" /\ ~WriteOnly
        \/ /\ ~SkipsWrite(e.profile) /\ Tried(Write(Armed(e.profile)))
           /\ phase' = AfterWrite
    <3>1. PICK refused : refused = FALSE
      OBVIOUS
    <3>2. ArmAndAdvance(e.profile, refused, phase')
      BY <1>6, <3>1 DEF ProfileReply
    <3> QED BY <3>2, ArmOutcome
  <2>2. /\ phase = "CP_PROFILE" /\ ~have_profile0 /\ e.type = "profiles"
        /\ profile0' = e.profile /\ have_profile0' /\ confirmed' = confirmed
        /\ UNCHANGED <<op, param, enable, apply>>
    BY <1>6 DEF ProfileReply, command
  <2> QED BY <2>1, <2>2 DEF NewRecord
<1>7. CASE Ignored(e)
  <2>1. SameRecord /\ sent' = Nothing /\ confirmed' = confirmed /\ phase' = phase
    BY <1>7 DEF Ignored, SameRecord, command
  <2>2. AwaitsOpMode' => AwaitsOpMode
    BY <2>1, SameRecordFacts DEF AwaitsOpMode
  <2> QED BY <2>1, <2>2 DEF OldRecord
<1> QED BY <1>1, <1>2, <1>3, <1>4, <1>5, <1>6, <1>7 DEF IncomingBapStatus

\* The element a step takes from the bus.
LEMMA ReceiveFacts ==
  ASSUME Typed, Receive
  PROVE  /\ to_module # <<>> /\ Head(to_module) \in Status
         /\ Head(to_module) \in Elems(to_module)
         /\ Head(to_module) = to_module[1]
         /\ IncomingBapStatus(Head(to_module))
         /\ to_module' = Tail(to_module)
         /\ Elems(to_module)' \subseteq Elems(to_module)
         /\ Elems(to_module) = Elems(to_module)' \cup {Head(to_module)}
         /\ Elems(pending)' = Elems(pending)
         /\ Put /\ CountLoss(Refused(TRUE))
         /\ UNCHANGED <<commands, edits, channel, store, pending, running,
                        awake, beat, ran>>
<1>1. Elems(to_module)' = Elems(to_module') /\ Elems(pending)' = Elems(pending')
  BY DEF Elems
<1> QED BY <1>1, TailElems DEF Typed, BusTypes, Receive, bcu

LEMMA OwnOldRecord ==
  ASSUME Typed, Typed', Own, Receive, OldRecord(Head(to_module))
  PROVE  Own'
<1> DEFINE e == Head(to_module)
<1>1. OwnReply(e) /\ OldRecord(e) /\ OwnStore
  BY ReceiveFacts DEF Own
<1> HIDE DEF e
<1>2. SameOwn
  BY <1>1, ReceiveFacts DEF SameOwn, OldRecord
<1>3. SendsOwn
  <2>1. CASE sent' \in {Nothing, Handshake, GetArray}
    BY <2>1 DEF SendsOwn
  <2>2. CASE sent' = Trigger(enable) /\ e.type = "echo"
    BY <1>1, <1>2, <2>2, SameOwnFacts DEF SendsOwn, OwnReply, SameOwn, SameRecord
  <2> QED BY <1>1, <2>1, <2>2 DEF OldRecord
<1>4. \A t \in Elems(to_bcu)' : OwnTelegram(t)'
  <2>1. \A t \in Elems(to_bcu) : OwnTelegram(t)'
    BY <1>2, SameOwnFacts DEF Own
  <2> QED BY <1>2, <1>3, <2>1, ReceiveFacts, OwnPut DEF SameOwn, SameRecord
<1>5. \A x \in Elems(to_module)' : OwnReply(x)'
  BY <1>2, ReceiveFacts, SameOwnFacts DEF Own
<1>6. \A w \in Elems(pending)' : OwnWrite(w)'
  BY <1>2, ReceiveFacts, SameOwnFacts DEF Own
<1>7. OwnStore'
  <2>1. AwaitsOpMode' => Applied
    BY <1>1 DEF OldRecord, OwnReply, OwnStore
  <2>2. confirmed' => Applied /\ (WriteOnly \/ OwnRun)
    BY <1>1 DEF OldRecord, OwnReply, OwnStore
  <2> QED BY <1>1, <1>2, <2>1, <2>2, OwnStoreKept
<1> QED BY <1>4, <1>5, <1>6, <1>7 DEF Own

\* Before a command has its record nothing of it that acts is on its way.
LEMMA NothingBeforeRecord ==
  ASSUME Typed, Own, ~have_profile0
  PROVE  /\ \A t \in Elems(to_bcu) : t.tel.type \notin {"write", "trigger"}
         /\ Elems(pending) = {} /\ pending = <<>> /\ ~confirmed
         /\ \A e \in Elems(to_module) : e.type \notin {"echo", "opmode"}
<1>1. /\ \A t \in Elems(to_bcu) : t.tel.type \notin {"write", "trigger"}
      /\ Elems(pending) = {} /\ ~confirmed
      /\ \A e \in Elems(to_module) : e.type \notin {"echo", "opmode"}
  BY DEF Own, OwnTelegram, OwnWrite, OwnReply, OwnStore, Applied
<1> QED BY <1>1, ElemsTyped DEF Typed, BusTypes

LEMMA OwnNewRecord ==
  ASSUME Typed, Typed', Own, Receive, NewRecord(Head(to_module))
  PROVE  Own'
<1> DEFINE e == Head(to_module)
<1>1. OwnReply(e) /\ NewRecord(e) /\ OwnStore /\ e \in Status
  BY ReceiveFacts DEF Own
<1> HIDE DEF e
<1>2. /\ ~have_profile0 /\ have_profile0' /\ profile0' = e.profile
      /\ UNCHANGED <<op, param, enable, apply, store, commands, ran>>
      /\ confirmed' = confirmed
      /\ Same(e.profile, store) /\ e.profile.maxCurrent <= HardLimit
  BY <1>1, ReceiveFacts DEF NewRecord, OwnReply
<1>3. /\ Armed(profile0)' = Armed(e.profile) /\ WriteOnly' = WriteOnly
  BY <1>2 DEF Armed, WriteOnly
<1>4. SkipsWrite(e.profile) => Applied'
  <2>1. SkipsWrite(e.profile) => Same(Armed(e.profile), e.profile)
    BY DEF SkipsWrite, Same
  <2> QED BY <1>2, <1>3, <2>1 DEF Applied, Same
<1>5. SendsOwn
  <2>1. CASE SkipsWrite(e.profile) /\ Tried(Trigger(enable))
    BY <1>2, <1>4, <2>1 DEF SendsOwn, Tried
  <2>2. CASE Tried(Write(Armed(e.profile)))
    BY <1>2, <1>3, <2>2 DEF SendsOwn, Tried
  <2> QED BY <1>1, <2>1, <2>2 DEF NewRecord
<1>6. \A t \in Elems(to_bcu)' : OwnTelegram(t)'
  <2>1. \A t \in Elems(to_bcu) : OwnTelegram(t)'
    BY <1>2, NothingBeforeRecord DEF OwnTelegram
  <2> QED BY <1>2, <1>5, <2>1, ReceiveFacts, OwnPut
<1>7. \A x \in Elems(to_module)' : OwnReply(x)'
  <2> SUFFICES ASSUME NEW x \in Elems(to_module)' PROVE OwnReply(x)'
    OBVIOUS
  <2>1. x \in Elems(to_module) /\ x.type \notin {"echo", "opmode"}
    BY <1>2, ReceiveFacts, NothingBeforeRecord
  <2>2. OwnReply(x)
    BY <2>1 DEF Own
  <2> QED BY <1>2, <2>1, <2>2 DEF OwnReply
<1>8. \A w \in Elems(pending)' : OwnWrite(w)'
  BY <1>2, ReceiveFacts, NothingBeforeRecord
<1>9. OwnStore'
  <2>1. ~confirmed'
    BY <1>2, NothingBeforeRecord
  <2>2. AwaitsOpMode' => Applied'
    <3>1. CASE SkipsWrite(e.profile)
      BY <1>4, <3>1
    <3>2. CASE ~SkipsWrite(e.profile)
      <4>1. phase' = AfterWrite /\ phase = "CP_PROFILE"
        BY <1>1, <3>2 DEF NewRecord
      <4> QED BY <1>3, <4>1 DEF AfterWrite, AwaitsOpMode
    <3> QED BY <3>1, <3>2
  <2>3. Same(store, profile0)'
    BY <1>2 DEF Same
  <2> QED BY <1>1, <1>2, <2>1, <2>2, <2>3 DEF OwnStore
<1> QED BY <1>6, <1>7, <1>8, <1>9 DEF Own

LEMMA OwnReceive ==
  ASSUME Typed, Typed', Own, Receive
  PROVE  Own'
BY ReceiveFacts, FrameOutcome, OwnOldRecord, OwnNewRecord

\* A command begins when nothing of another one is left.
LEMMA OwnIssue ==
  ASSUME ~Overlap, Own, Issue
  PROVE  Own'
<1>1. /\ to_bcu' = <<>> /\ to_module' = <<>> /\ pending' = <<>>
      /\ store' = store
  BY DEF Issue, Settled
<1>2. /\ Elems(to_bcu)' = {} /\ Elems(to_module)' = {} /\ Elems(pending)' = {}
  BY <1>1, EmptyElems DEF Elems
<1>3. ~confirmed' /\ ~have_profile0' /\ phase' = "CP_WAKE"
  BY DEF Issue, Climate, Charge, SetChargeCurrent, Begin, ClearCommand
<1> QED BY <1>1, <1>2, <1>3 DEF Own, OwnStore, AwaitsOpMode

\* Steps outside the BCU that leave what is on its way, or lose it.
LEMMA OwnOutside ==
  ASSUME Typed, Own, \/ UserAbort \/ Report \/ Lose \/ BcuSleep \/ MibEdit
                     \/ UNCHANGED sysvars
  PROVE  Own'
<1>t. /\ OwnStore /\ BusTypes
      /\ \A t \in Elems(to_bcu) : OwnTelegram(t)
      /\ \A w \in Elems(pending) : OwnWrite(w)
      /\ \A e \in Elems(to_module) : OwnReply(e)
  BY DEF Own, Typed
<1>1. CASE UserAbort
  <2>1. SameOwn /\ ~AwaitsOpMode' /\ confirmed' = confirmed
    BY <1>1 DEF UserAbort, Abort, bcu, bounds, command, SameOwn, SameRecord,
                AwaitsOpMode
  <2>2. UNCHANGED <<to_bcu, to_module, pending>>
    BY <1>1 DEF UserAbort, bcu
  <2> QED BY <1>t, <2>1, <2>2, OwnCarried DEF Elems
<1>2. CASE Report
  <2>1. SameOwn /\ phase' = phase /\ confirmed' = confirmed
    BY <1>2 DEF Report, IncomingClimaEcuStatus, ChargeStatus, bcu, bounds,
                command, SameOwn, SameRecord
  <2>2. AwaitsOpMode' = AwaitsOpMode
    BY <2>1, SameRecordFacts DEF SameOwn, AwaitsOpMode
  <2>3. UNCHANGED <<to_bcu, to_module, pending>>
    BY <1>2 DEF Report, bcu
  <2> QED BY <1>t, <2>1, <2>2, <2>3, OwnCarried DEF Elems
<1>3. CASE Lose \/ BcuSleep \/ MibEdit \/ UNCHANGED sysvars
  <2>1. UNCHANGED <<vars, commands, ran, pending>>
    BY <1>3 DEF Lose, BcuSleep, MibEdit, sysvars, bcu, bounds
  <2>2. store'.operation = store.operation /\ store'.maxCurrent = store.maxCurrent
    <3>1. CASE MibEdit
      <4>1. PICK r : store' = [store EXCEPT !.rest = r]
        BY <3>1 DEF MibEdit
      <4> QED BY <1>t, <4>1 DEF BusTypes, Record
    <3>2. CASE store' = store
      BY <3>2
    <3> QED BY <1>3, <3>1, <3>2 DEF Lose, BcuSleep, sysvars, bcu
  <2>3. SameOwn /\ AwaitsOpMode' = AwaitsOpMode /\ confirmed' = confirmed
    BY <2>1, <2>2 DEF vars, command, SameOwn, SameRecord, AwaitsOpMode, WriteOnly
  <2>4. /\ to_bcu' = to_bcu \/ (to_bcu # <<>> /\ to_bcu' = Tail(to_bcu))
        /\ to_module' = to_module
             \/ (to_module # <<>> /\ to_module' = Tail(to_module))
    BY <1>3 DEF Lose, BcuSleep, MibEdit, sysvars
  <2>5. Elems(to_bcu') \subseteq Elems(to_bcu)
    BY <1>t, <2>4, TailElems DEF BusTypes
  <2>6. Elems(to_module') \subseteq Elems(to_module)
    BY <1>t, <2>4, TailElems DEF BusTypes
  <2>7. /\ Elems(to_bcu)' \subseteq Elems(to_bcu)
        /\ Elems(to_module)' \subseteq Elems(to_module)
        /\ Elems(pending)' = Elems(pending)
    BY <2>1, <2>5, <2>6 DEF Elems
  <2> QED BY <1>t, <2>3, <2>7, OwnCarried
<1> QED BY <1>1, <1>2, <1>3

LEMMA SaidElems ==
  ASSUME BusTypes, NEW e \in Status, Say(e)
  PROVE  Elems(to_module)' = Elems(to_module) \cup {e}
<1>1. Elems(to_module)' = Elems(to_module')
  BY DEF Elems
<1> QED BY <1>1, AppendElems DEF Say, BusTypes

\* What the BCU does to the telegrams on their way to it: it takes the first.
LEMMA TakenElems ==
  ASSUME BusTypes, NEW type, BcuStep(type)
  PROVE  Elems(to_bcu)' \subseteq Elems(to_bcu)
<1>1. Elems(to_bcu)' = Elems(to_bcu')
  BY DEF Elems
<1> QED BY <1>1, BcuStepFacts, TailElems DEF BusTypes

\* The unit answers, but neither applies a write nor runs anything.
LEMMA OwnAnswer ==
  ASSUME Typed, Own, BcuHandshake \/ BcuAck \/ BcuGet \/ BcuBroadcast
  PROVE  Own'
<1>t. /\ OwnStore /\ BusTypes
      /\ \A t \in Elems(to_bcu) : OwnTelegram(t)
      /\ \A w \in Elems(pending) : OwnWrite(w)
      /\ \A e \in Elems(to_module) : OwnReply(e)
  BY DEF Own, Typed
<1>1. UNCHANGED <<vars, commands, ran, store, pending>>
  BY DEF BcuHandshake, BcuAck, BcuGet, BcuBroadcast, BcuStep, bounds
<1>2. SameOwn /\ AwaitsOpMode' = AwaitsOpMode /\ confirmed' = confirmed
  BY <1>1 DEF vars, command, SameOwn, SameRecord, AwaitsOpMode, WriteOnly
<1>3. Elems(pending)' = Elems(pending)
  BY <1>1 DEF Elems
<1>4. Elems(to_bcu)' \subseteq Elems(to_bcu)
  <2>1. CASE BcuHandshake \/ BcuGet
    BY <1>t, <2>1, TakenElems DEF BcuHandshake, BcuGet
  <2>2. CASE BcuAck \/ BcuBroadcast
    BY <2>2 DEF BcuAck, BcuBroadcast, Elems
  <2> QED BY <2>1, <2>2
<1>5. \A e \in Elems(to_module)' : OwnReply(e)
  <2>1. CASE UNCHANGED to_module
    BY <1>t, <2>1 DEF Elems
  <2>2. CASE Say(Ack)
    <3>1. OwnReply(Ack)
      BY DEF Ack, Telegram, OwnReply
    <3> QED BY <1>t, <2>2, <3>1, SaidFacts, SaidElems
  <2>3. CASE Say(Telegram("other", FALSE, Unset))
    <3>1. PICK e \in Status : e = Telegram("other", FALSE, Unset)
      BY SaidFacts
    <3>2. OwnReply(e)
      BY <3>1 DEF Telegram, OwnReply
    <3> QED BY <1>t, <2>3, <3>1, <3>2, SaidElems
  <2>4. CASE Say(Telegram("profiles", FALSE, store))
    <3>1. PICK e \in Status : e = Telegram("profiles", FALSE, store)
      BY <1>t, SaidFacts DEF BusTypes
    <3>2. OwnReply(e)
      BY <1>t, <3>1 DEF Telegram, OwnReply, OwnStore, Same
    <3> QED BY <1>t, <2>4, <3>1, <3>2, SaidElems
  <2> QED BY <2>1, <2>2, <2>3, <2>4
          DEF BcuHandshake, BcuAck, BcuGet, BcuBroadcast
<1> QED BY <1>t, <1>2, <1>3, <1>4, <1>5, OwnCarried

LEMMA OwnReceivedWrite ==
  ASSUME Typed, Own, BcuWrite
  PROVE  Own'
<1>t. /\ OwnStore /\ BusTypes
      /\ \A t \in Elems(to_bcu) : OwnTelegram(t)
      /\ \A w \in Elems(pending) : OwnWrite(w)
      /\ \A e \in Elems(to_module) : OwnReply(e)
  BY DEF Own, Typed
<1>1. BcuStep("write") /\ UNCHANGED <<vars, commands, ran, store, to_module>>
  BY DEF BcuWrite, BcuStep, bounds
<1>2. SameOwn /\ AwaitsOpMode' = AwaitsOpMode /\ confirmed' = confirmed
  BY <1>1 DEF vars, command, SameOwn, SameRecord, AwaitsOpMode, WriteOnly
<1>3. Elems(to_module)' = Elems(to_module)
  BY <1>1 DEF Elems
<1>4. Elems(to_bcu)' \subseteq Elems(to_bcu)
  BY <1>t, <1>1, TakenElems
<1>5. \A w \in Elems(pending)' : OwnWrite(w)
  <2>1. PICK w : w = [profile |-> Head(to_bcu).tel.profile, age |-> 0]
    OBVIOUS
  <2>2. OwnWrite(w)
    BY <1>t, <1>1, <2>1, BcuStepFacts DEF OwnTelegram, OwnWrite
  <2>3. w \in Waiting
    BY <1>t, <1>1, <2>1, BcuStepFacts DEF Entries, Sendable, Waiting
  <2>4. Elems(pending)' = Elems(pending')
    BY DEF Elems
  <2>5. pending' = Append(pending, w)
    BY <2>1 DEF BcuWrite
  <2> QED BY <1>t, <2>2, <2>3, <2>4, <2>5, AppendElems DEF BusTypes
<1> QED BY <1>t, <1>2, <1>3, <1>4, <1>5, OwnCarried

LEMMA OwnApply ==
  ASSUME Typed, Own, BcuApply
  PROVE  Own'
<1>t. /\ OwnStore /\ BusTypes /\ TypeOK
      /\ \A t \in Elems(to_bcu) : OwnTelegram(t)
      /\ \A w \in Elems(pending) : OwnWrite(w)
      /\ \A e \in Elems(to_module) : OwnReply(e)
  BY DEF Own, Typed, IInv
<1>1. /\ UNCHANGED <<vars, commands, ran, to_bcu>>
      /\ pending # <<>> /\ pending' = Tail(pending)
      /\ Say(Telegram("echo", FALSE, Unset))
  BY DEF BcuApply, bounds
<1>2. SameRecord /\ AwaitsOpMode' = AwaitsOpMode /\ confirmed' = confirmed
  BY <1>1 DEF vars, command, SameRecord, AwaitsOpMode, WriteOnly
<1>3. have_profile0 /\ store' = Armed(profile0)
  <2>1. OwnWrite(Head(pending))
    BY <1>t, <1>1, TailElems DEF BusTypes
  <2> QED BY <2>1 DEF OwnWrite, BcuApply
<1>4. /\ Armed(profile0)' = Armed(profile0) /\ Goal' = Goal
      /\ WriteOnly' = WriteOnly /\ have_profile0' /\ OwnRun' = OwnRun
      /\ UNCHANGED <<enable, commands, profile0>>
  <2>1. Goal' = Goal /\ UNCHANGED <<enable, commands, profile0, ran>>
    BY <1>1, <1>2, SameRecordFacts DEF SameRecord
  <2> QED BY <1>2, <1>3, <2>1, SameRecordFacts DEF SameRecord, OwnRun
<1>5. Applied'
  BY <1>3, <1>4 DEF Applied, Same
<1>6. /\ Elems(to_bcu)' = Elems(to_bcu)
      /\ Elems(pending)' \subseteq Elems(pending)
  <2>1. Elems(pending)' = Elems(pending')
    BY DEF Elems
  <2> QED BY <1>t, <1>1, <2>1, TailElems DEF BusTypes, Elems
<1>7. \A t \in Elems(to_bcu)' : OwnTelegram(t)'
  BY <1>t, <1>4, <1>5, <1>6 DEF OwnTelegram
<1>8. \A w \in Elems(pending)' : OwnWrite(w)'
  BY <1>t, <1>4, <1>6 DEF OwnWrite
<1>9. \A e \in Elems(to_module)' : OwnReply(e)'
  <2>1. PICK e \in Status : e = Telegram("echo", FALSE, Unset)
    BY SaidFacts
  <2>2. OwnReply(e)'
    BY <1>5, <2>1 DEF Telegram, OwnReply
  <2>3. \A x \in Elems(to_module) : OwnReply(x)'
    BY <1>t, <1>4, <1>5 DEF OwnReply
  <2> QED BY <1>t, <1>1, <2>1, <2>2, <2>3, SaidElems
<1>10. OwnStore'
  <2>1. store'.maxCurrent <= HardLimit
    BY <1>t, <1>3, ArmedFacts DEF TypeOK
  <2> QED BY <1>t, <1>2, <1>3, <1>4, <1>5, <2>1 DEF OwnStore, Applied
<1> QED BY <1>7, <1>8, <1>9, <1>10 DEF Own

\* The trigger finds profile 0 armed for its command.
LEMMA TriggerMeetsArmed ==
  ASSUME Typed, Own, BcuTrigger
  PROVE  LET t == Head(to_bcu)
         IN  /\ Applied /\ store.operation = Goal /\ t.want = Goal
             /\ t.cmd = commands /\ t.tel.flag = enable
<1> DEFINE t == Head(to_bcu)
<1>1. BusTypes /\ BcuStep("trigger")
  BY DEF Typed, BcuTrigger
<1>2. t \in Elems(to_bcu) /\ t.tel.type = "trigger"
  BY <1>1, BcuStepFacts
<1>3. OwnTelegram(t)
  BY <1>2 DEF Own
<1> HIDE DEF t
<1>4. /\ Applied /\ t.want = Goal /\ t.cmd = commands /\ t.tel.flag = enable
  BY <1>2, <1>3 DEF OwnTelegram
<1>5. store.operation = Goal
  BY <1>4 DEF Applied, Same, Armed, Goal
<1> QED BY <1>4, <1>5 DEF t

LEMMA OwnTriggered ==
  ASSUME Typed, Own, BcuTrigger
  PROVE  Own'
<1>t. /\ OwnStore /\ BusTypes /\ TypeOK
      /\ \A t \in Elems(to_bcu) : OwnTelegram(t)
      /\ \A w \in Elems(pending) : OwnWrite(w)
      /\ \A e \in Elems(to_module) : OwnReply(e)
  BY DEF Own, Typed, IInv
<1>1. BcuStep("trigger") /\ UNCHANGED <<vars, commands, store, pending>>
  BY DEF BcuTrigger, BcuStep, bounds
<1>2. SameRecord /\ AwaitsOpMode' = AwaitsOpMode /\ confirmed' = confirmed
  BY <1>1 DEF vars, command, SameRecord, AwaitsOpMode, WriteOnly
<1>3. /\ Armed(profile0)' = Armed(profile0) /\ Goal' = Goal
      /\ WriteOnly' = WriteOnly
      /\ UNCHANGED <<have_profile0, enable, profile0>>
  BY <1>2, SameRecordFacts DEF SameRecord
<1>4. Applied' = Applied
  BY <1>1, <1>3 DEF Applied, Same
<1>5. Elems(pending)' = Elems(pending) /\ Elems(to_bcu)' \subseteq Elems(to_bcu)
  BY <1>t, <1>1, TakenElems DEF Elems
<1>6. CASE ran' = ran /\ Say(Telegram("error", FALSE, Unset))
  <2>1. SameOwn
    BY <1>1, <1>2, <1>6 DEF SameOwn
  <2>2. PICK e \in Status : e = Telegram("error", FALSE, Unset)
    BY SaidFacts
  <2>3. OwnReply(e)
    BY <2>2 DEF Telegram, OwnReply
  <2>4. \A x \in Elems(to_module)' : OwnReply(x)
    BY <1>t, <1>6, <2>2, <2>3, SaidElems
  <2> QED BY <1>t, <1>2, <1>5, <2>1, <2>4, OwnCarried
<1>7. CASE /\ ran' = [cmd |-> Head(to_bcu).cmd, flag |-> Head(to_bcu).tel.flag,
                      operation |-> store.operation]
           /\ Say(Telegram("opmode", Head(to_bcu).tel.flag, Unset))
  <2>1. Applied /\ ran' = [cmd |-> commands, flag |-> enable, operation |-> Goal]
        /\ Head(to_bcu).tel.flag = enable
    BY <1>7, TriggerMeetsArmed
  <2>2. OwnRun'
    BY <1>1, <1>3, <2>1 DEF OwnRun
  <2>3. PICK e \in Status : e = Telegram("opmode", Head(to_bcu).tel.flag, Unset)
    BY <1>t, <2>1, SaidFacts DEF TypeOK
  <2>4. OwnReply(e)'
    BY <1>3, <1>4, <2>1, <2>2, <2>3 DEF Telegram, OwnReply
  <2>5. \A x \in Elems(to_module) : OwnReply(x)'
    BY <1>t, <1>1, <1>3, <1>4, <2>2 DEF OwnReply
  <2>6. \A x \in Elems(to_module)' : OwnReply(x)'
    BY <1>t, <1>7, <2>3, <2>4, <2>5, SaidElems
  <2>7. \A t \in Elems(to_bcu)' : OwnTelegram(t)'
    BY <1>t, <1>1, <1>3, <1>4, <1>5 DEF OwnTelegram
  <2>8. \A w \in Elems(pending)' : OwnWrite(w)'
    BY <1>t, <1>3, <1>5 DEF OwnWrite
  <2>9. OwnStore'
    BY <1>t, <1>1, <1>2, <1>3, <1>4, <2>2 DEF OwnStore, Same
  <2> QED BY <2>6, <2>7, <2>8, <2>9 DEF Own
<1> QED BY <1>6, <1>7 DEF BcuTrigger

LEMMA OwnKept ==
  ASSUME ~Overlap, Typed, Own, [SysNext]_sysvars
  PROVE  Own'
<1>1. Typed'
  BY TypedKept
<1> QED BY <1>1, OwnIssue, OwnTick, OwnReceive, OwnOutside, OwnAnswer,
           OwnReceivedWrite, OwnApply, OwnTriggered DEF SysNext, Bcu

\* When commands do not overlap, everything on its way to the BCU, waiting in
\* it and on its way back serves the command in flight, and what the BCU holds
\* is the record that command read or the one it armed (SendArm and the echo
\* gate of Ticker1 and IncomingBapStatus).
THEOREM BusServesCommand ==
  ASSUME ~Overlap
  PROVE  SysSpec => [](Typed /\ Own)
<1>1. SysInit => Typed /\ Own
  BY InitTyped, InitOwn
<1>2. Typed /\ Own /\ [SysNext]_sysvars => Typed' /\ Own'
  BY TypedKept, OwnKept
<1> QED BY <1>1, <1>2, PTL DEF SysSpec

\* A confirmation is real, however many telegrams are lost or repeated, whatever
\* the display edits and whenever the user aborts: IncomingBapStatus sets
\* m_confirmed only when the BCU ran this command's trigger on the operation it
\* asked for, or holds the current it asked for.
THEOREM BusConfirmedIsReal ==
  ASSUME ~Overlap
  PROVE  SysSpec => []ConfirmedIsReal
<1>1. Typed /\ Own => ConfirmedIsReal
  <2> SUFFICES ASSUME Typed, Own, confirmed PROVE ConfirmedIsReal
    BY DEF ConfirmedIsReal
  <2>1. Applied /\ (WriteOnly \/ OwnRun)
    BY DEF Own, OwnStore
  <2>2. op # "BC_SET_CURRENT" \/ apply => OwnRun
    BY <2>1 DEF WriteOnly
  <2>3. op = "BC_SET_CURRENT" => store.maxCurrent = param
    <3>1. param \in {0} \cup Steps
      BY DEF Typed, IInv, TypeOK
    <3>2. Lesser(param, HardLimit) = param
      BY <3>1 DEF Steps, HardLimit, Lesser
    <3> QED BY <2>1, <3>2 DEF Applied, Same, Armed
  <2> QED BY <2>2, <2>3 DEF ConfirmedIsReal, OwnRun, Goal
<1> QED BY <1>1, BusServesCommand, PTL

\* The BCU is never triggered on another operation than the command's: the
\* trigger leaves only after the echo of the write, and the write is applied
\* before it is echoed (the CP_ARM_WAIT phase).
THEOREM BusRunsOwnOp ==
  ASSUME ~Overlap
  PROVE  SysSpec => RunsOwnOp
<1>1. Typed /\ Own /\ [SysNext]_sysvars
        => (BcuTrigger => store.operation = Head(to_bcu).want)
  BY TriggerMeetsArmed
<1>2. Typed /\ Own /\ [SysNext]_sysvars
        => [BcuTrigger => store.operation = Head(to_bcu).want]_sysvars
  BY <1>1
<1> QED BY <1>2, BusServesCommand, PTL DEF SysSpec, RunsOwnOp

-----------------------------------------------------------------------------
(* A write puts back the other fields of profile 0 as they are.            *)

InFlight(type) == \E t \in Elems(to_bcu) : t.tel.type = type

\* The record may still be written, now or later.
InUse == wake_hold > 0 \/ InFlight("write") \/ pending # <<>>

KeepsRest ==
  /\ \A e \in Elems(to_module) :
       e.type = "profiles" /\ ~have_profile0 => e.profile.rest = store.rest
  /\ have_profile0 /\ InUse => profile0.rest = store.rest

LEMMA InitKeepsRest == SysInit => KeepsRest
BY EmptyElems DEF SysInit, Init, KeepsRest

LEMMA RestCarried ==
  ASSUME KeepsRest, UNCHANGED <<have_profile0, profile0>>,
         store'.rest = store.rest,
         \A e \in Elems(to_module)' : \/ e \in Elems(to_module)
                                      \/ e.type # "profiles"
                                      \/ e.profile.rest = store.rest,
         have_profile0 /\ InUse' => InUse
  PROVE  KeepsRest'
BY DEF KeepsRest

\* What a step of the controller puts on the bus.
LEMMA PutInFlight ==
  ASSUME Typed, Typed', Put, commands' = commands, NEW type,
         sent' = Nothing \/ sent'.type # type
  PROVE  InFlight(type)' => InFlight(type)
<1>1. CASE to_bcu' = to_bcu
  BY <1>1 DEF InFlight, Elems
<1>2. CASE /\ Entry(sent') \in Entries /\ sent' # Nothing
           /\ to_bcu' = Append(to_bcu, Entry(sent'))
  <2>1. Elems(to_bcu') = Elems(to_bcu) \cup {Entry(sent')}
    BY <1>2, AppendElems DEF Typed, BusTypes
  <2>2. Elems(to_bcu)' = Elems(to_bcu')
    BY DEF Elems
  <2>3. Entry(sent').tel = sent'
    BY DEF Entry
  <2>4. \A t \in Elems(to_bcu)' : t.tel.type = type => t \in Elems(to_bcu)
    BY <1>2, <2>1, <2>2, <2>3
  <2> QED BY <2>4 DEF InFlight
<1> QED BY <1>1, <1>2, PutFacts DEF Typed, IInv

LEMMA RestTick ==
  ASSUME Typed, Typed', KeepsRest, Tick
  PROVE  KeepsRest'
<1>1. UNCHANGED <<have_profile0, profile0, store>>
  BY DEF Tick, Ticker1, TickIdle, TickActive, command
<1>2. Elems(to_module)' = Elems(to_module)
  BY DEF Tick, Elems
<1>3. InUse' => InUse
  <2>1. CASE TickIdle(awake)
    <3>1. wake_hold' = wake_hold /\ to_bcu' = to_bcu
      BY <2>1 DEF Tick, TickIdle, Quiet, Put
    <3>2. pending = <<>> => pending' = <<>>
      BY DEF Tick
    <3> QED BY <3>1, <3>2 DEF InUse, InFlight, Elems
  <2>2. CASE TickActive(awake)
    BY <2>2 DEF TickActive, InUse
  <2> QED BY <2>1, <2>2 DEF Tick, Ticker1
<1> QED BY <1>1, <1>2, <1>3, RestCarried

\* No status element prolongs the wake window.
LEMMA WindowShrinks ==
  ASSUME TypeOK, NEW e, IncomingBapStatus(e)
  PROVE  wake_hold' \in Nat /\ wake_hold' <= wake_hold
<1>1. wake_hold \in Nat
  BY SecsAssumption DEF TypeOK
<1>2. wake_hold' = wake_hold \/ CutShort(1) \/ CutShort(2)
  BY DEF IncomingBapStatus, FirstContact, HandshakeAck, BapError, OpModeEcho,
         WriteEcho, ProfileReply, Ignored
<1> QED BY <1>1, <1>2 DEF CutShort, Lesser

LEMMA RestReceive ==
  ASSUME Typed, Typed', KeepsRest, Receive
  PROVE  KeepsRest'
<1> DEFINE e == Head(to_module)
<1>1. /\ e \in Elems(to_module) /\ Elems(to_module)' \subseteq Elems(to_module)
      /\ Put /\ UNCHANGED <<commands, pending, store>> /\ IncomingBapStatus(e)
  BY ReceiveFacts
<1> HIDE DEF e
<1>2. CASE OldRecord(e)
  <2>1. UNCHANGED <<have_profile0, profile0, pending>>
    BY <1>1, <1>2 DEF OldRecord, SameRecord
  <2>2. sent' = Nothing \/ sent'.type # "write"
    BY <1>2, TelegramFields DEF OldRecord
  <2>3. InFlight("write")' => InFlight("write")
    BY <1>1, <2>2, PutInFlight
  <2>4. wake_hold' > 0 => wake_hold > 0
    BY <1>1, WindowShrinks DEF Typed, IInv, TypeOK
  <2>5. InUse' => InUse
    BY <2>1, <2>3, <2>4 DEF InUse
  <2> QED BY <1>1, <2>1, <2>5, RestCarried
<1>3. CASE NewRecord(e)
  <2>1. /\ e.type = "profiles" /\ ~have_profile0 /\ have_profile0'
        /\ profile0' = e.profile
    BY <1>3 DEF NewRecord
  <2>2. e.profile.rest = store.rest
    BY <1>1, <2>1 DEF KeepsRest
  <2> QED BY <1>1, <2>1, <2>2 DEF KeepsRest
<1> QED BY <1>1, <1>2, <1>3, FrameOutcome

LEMMA RestOutside ==
  ASSUME Typed, KeepsRest, ~EditsAnytime, ~Overlap,
         \/ Issue \/ UserAbort \/ Report \/ Lose \/ BcuSleep \/ MibEdit
         \/ UNCHANGED sysvars
  PROVE  KeepsRest'
<1>t. BusTypes
  BY DEF Typed
<1>1. CASE Issue
  <2>1. ~have_profile0' /\ to_module' = <<>>
    BY <1>1 DEF Issue, Settled, Climate, Charge, SetChargeCurrent, Begin,
                ClearCommand
  <2>2. Elems(to_module)' = {}
    BY <2>1, EmptyElems DEF Elems
  <2> QED BY <2>1, <2>2 DEF KeepsRest
<1>2. CASE MibEdit
  <2>1. /\ wake_hold' = 0 /\ to_bcu' = <<>> /\ to_module' = <<>>
        /\ pending' = <<>>
    BY <1>2 DEF MibEdit, Settled, vars
  <2>2. Elems(to_module)' = {} /\ Elems(to_bcu)' = {}
    BY <2>1, EmptyElems DEF Elems
  <2> QED BY <2>1, <2>2 DEF KeepsRest, InUse, InFlight
<1>3. CASE UserAbort \/ Report \/ Lose \/ BcuSleep \/ UNCHANGED sysvars
  <2>1. UNCHANGED <<have_profile0, profile0, store, pending>>
    BY <1>3 DEF UserAbort, Abort, Report, IncomingClimaEcuStatus, ChargeStatus,
                Lose, BcuSleep, sysvars, vars, bcu
  <2>2. wake_hold' = 0 \/ wake_hold' = wake_hold
    BY <1>3 DEF UserAbort, Abort, Report, IncomingClimaEcuStatus, ChargeStatus,
                Lose, BcuSleep, sysvars, vars
  <2>3. /\ to_bcu' = to_bcu \/ (to_bcu # <<>> /\ to_bcu' = Tail(to_bcu))
        /\ to_module' = to_module
             \/ (to_module # <<>> /\ to_module' = Tail(to_module))
    BY <1>3 DEF UserAbort, Report, Lose, BcuSleep, sysvars
  <2>4. Elems(to_bcu') \subseteq Elems(to_bcu)
    BY <1>t, <2>3, TailElems DEF BusTypes
  <2>5. Elems(to_module') \subseteq Elems(to_module)
    BY <1>t, <2>3, TailElems DEF BusTypes
  <2>6. /\ Elems(to_bcu)' \subseteq Elems(to_bcu)
        /\ Elems(to_module)' \subseteq Elems(to_module)
    BY <2>4, <2>5 DEF Elems
  <2>7. InUse' => InUse
    BY <2>1, <2>2, <2>6 DEF InUse, InFlight
  <2> QED BY <2>1, <2>6, <2>7, RestCarried
<1> QED BY <1>1, <1>2, <1>3

\* What the BCU says: the only record in it is the one it holds.
LEMMA BcuSays ==
  ASSUME BusTypes, Bcu
  PROVE  \/ UNCHANGED to_module
         \/ \E e \in Status : Say(e) /\ (e.type # "profiles" \/ e.profile = store)
<1>1. CASE BcuHandshake \/ BcuWrite
  BY <1>1 DEF BcuHandshake, BcuWrite
<1>2. CASE Say(Ack)
  BY <1>2, SaidFacts DEF Ack, Telegram
<1>3. ASSUME NEW t \in {"echo", "error", "other"}, Say(Telegram(t, FALSE, Unset))
      PROVE  \E e \in Status : Say(e) /\ e.type # "profiles"
  <2>1. Telegram(t, FALSE, Unset) \in Status /\ Telegram(t, FALSE, Unset).type = t
    BY SaidFacts DEF Telegram
  <2> QED BY <1>3, <2>1
<1>4. CASE BcuGet
  <2>1. CASE Say(Telegram("profiles", FALSE, store))
    <3>1. /\ Telegram("profiles", FALSE, store) \in Status
          /\ Telegram("profiles", FALSE, store).profile = store
      BY SaidFacts DEF Telegram, BusTypes
    <3> QED BY <2>1, <3>1
  <2> QED BY <1>4, <2>1 DEF BcuGet
<1>5. CASE BcuTrigger
  <2>1. CASE Say(Telegram("opmode", Head(to_bcu).tel.flag, Unset))
    <3>1. Head(to_bcu).tel.flag \in BOOLEAN
      BY <1>5, BcuStepFacts DEF BcuTrigger, Entries, Sendable
    <3>2. /\ Telegram("opmode", Head(to_bcu).tel.flag, Unset) \in Status
          /\ Telegram("opmode", Head(to_bcu).tel.flag, Unset).type = "opmode"
      BY <3>1, SaidFacts DEF Telegram
    <3> QED BY <2>1, <3>2
  <2> QED BY <1>3, <1>5, <2>1 DEF BcuTrigger
<1> QED BY <1>1, <1>2, <1>3, <1>4, <1>5 DEF Bcu, BcuAck, BcuApply, BcuBroadcast

LEMMA RestBcu ==
  ASSUME Typed, Own, KeepsRest, Bcu
  PROVE  KeepsRest'
<1>t. BusTypes
  BY DEF Typed
<1>1. UNCHANGED <<have_profile0, profile0, wake_hold>>
  BY DEF Bcu, BcuHandshake, BcuAck, BcuGet, BcuWrite, BcuApply, BcuTrigger,
         BcuBroadcast, BcuStep, vars
<1>2. Elems(to_bcu)' \subseteq Elems(to_bcu)
  <2>1. CASE BcuHandshake \/ BcuGet \/ BcuWrite \/ BcuTrigger
    BY <1>t, <2>1, TakenElems DEF BcuHandshake, BcuGet, BcuWrite, BcuTrigger
  <2>2. CASE BcuAck \/ BcuApply \/ BcuBroadcast
    BY <2>2 DEF BcuAck, BcuApply, BcuBroadcast, Elems
  <2> QED BY <2>1, <2>2 DEF Bcu
<1>3. InUse' => InUse
  <2>1. CASE BcuWrite
    <3>1. Head(to_bcu) \in Elems(to_bcu) /\ Head(to_bcu).tel.type = "write"
      BY <1>t, <2>1, BcuStepFacts DEF BcuWrite
    <3> QED BY <3>1 DEF InUse, InFlight
  <2>2. CASE BcuApply
    BY <2>2 DEF BcuApply, InUse
  <2>3. CASE pending' = pending
    BY <1>1, <1>2, <2>3 DEF InUse, InFlight
  <2> QED BY <2>1, <2>2, <2>3
          DEF Bcu, BcuHandshake, BcuAck, BcuGet, BcuTrigger, BcuBroadcast
<1>4. store'.rest = store.rest
  <2>1. CASE BcuApply
    <3>1. OwnWrite(Head(pending)) /\ pending # <<>>
      BY <1>t, <2>1, TailElems DEF BusTypes, BcuApply, Own
    <3>2. store' = Armed(profile0) /\ have_profile0 /\ InUse
      BY <2>1, <3>1 DEF BcuApply, OwnWrite, InUse
    <3> QED BY <3>2 DEF KeepsRest, Armed
  <2>2. CASE store' = store
    BY <2>2
  <2> QED BY <2>1, <2>2 DEF Bcu, BcuHandshake, BcuAck, BcuGet, BcuWrite,
          BcuTrigger, BcuBroadcast
<1>5. \A e \in Elems(to_module)' : \/ e \in Elems(to_module)
                                   \/ e.type # "profiles"
                                   \/ e.profile.rest = store.rest
  <2>1. CASE UNCHANGED to_module
    BY <2>1 DEF Elems
  <2>2. CASE \E x \in Status : Say(x) /\ (x.type # "profiles" \/ x.profile = store)
    BY <1>t, <2>2, SaidElems
  <2> QED BY <1>t, <2>1, <2>2, BcuSays
<1> QED BY <1>1, <1>3, <1>4, <1>5, RestCarried

\* A write puts back the other fields of profile 0 as they are in the car, and
\* the charge current too unless it is what the command changes ("Re-encoding
\* the car's own bytes means no other stored setting can be clobbered",
\* SendArm): the record read for the command is still the car's when its write
\* is applied, however often it was sent.  The display may edit between
\* commands, not during one, where the record read is no longer the car's.
THEOREM BusKeepsStoredSettings ==
  ASSUME ~Overlap, ~EditsAnytime
  PROVE  SysSpec => KeepsStoredSettings
<1> DEFINE Kept == /\ store'.rest = store.rest
                   /\ op # "BC_SET_CURRENT" => store'.maxCurrent = store.maxCurrent
<1>1. SysInit => Typed /\ Own /\ KeepsRest
  BY InitTyped, InitOwn, InitKeepsRest
<1>2. Typed /\ Own /\ KeepsRest /\ [SysNext]_sysvars
        => Typed' /\ Own' /\ KeepsRest'
  BY TypedKept, OwnKept, RestTick, RestReceive, RestOutside, RestBcu DEF SysNext
<1>3. Typed /\ Own /\ KeepsRest /\ [SysNext]_sysvars => (BcuApply => Kept)
  <2> SUFFICES ASSUME Typed, Own, KeepsRest, BcuApply PROVE Kept
    OBVIOUS
  <2>1. OwnWrite(Head(pending)) /\ pending # <<>>
    BY TailElems DEF Typed, BusTypes, BcuApply, Own
  <2>2. store' = Armed(profile0) /\ have_profile0 /\ InUse
    BY <2>1 DEF BcuApply, OwnWrite, InUse
  <2>3. store'.rest = store.rest
    BY <2>2 DEF KeepsRest, Armed
  <2>4. ASSUME op # "BC_SET_CURRENT" PROVE store'.maxCurrent = store.maxCurrent
    <3>1. /\ profile0.maxCurrent <= HardLimit
          /\ Same(store, profile0) \/ Same(store, Armed(profile0))
      BY <2>2 DEF Own, OwnStore
    <3>2. Armed(profile0).maxCurrent = profile0.maxCurrent
      BY <2>4, <3>1 DEF Armed, Lesser
    <3> QED BY <2>2, <3>1, <3>2 DEF Same
  <2> QED BY <2>3, <2>4
<1>4. Typed /\ Own /\ KeepsRest /\ [SysNext]_sysvars => [BcuApply => Kept]_sysvars
  BY <1>3
<1> QED BY <1>1, <1>2, <1>4, PTL DEF SysSpec, KeepsStoredSettings, Kept

-----------------------------------------------------------------------------
(* The time since the command began is paid for by the losses.             *)

Coming(type) == \E e \in Elems(to_module) : e.type = type

\* The one telegram on its way to the BCU.
Lone(type) == Len(to_bcu) = 1 /\ to_bcu[1].tel.type = type

\* Two of them.
Pair(first, second) ==
  /\ Len(to_bcu) = 2
  /\ to_bcu[1].tel.type = first /\ to_bcu[2].tel.type = second

Elapsed == WakeSecs - wake_hold
Cost(n) == RetrySecs * n

\* What a heartbeat may cost that is taken for the acknowledgement of a handshake
\* on its way: the GET comes before the BCU has opened the channel, is dropped,
\* and must be repeated.
Slack == IF Heartbeats THEN RetrySecs ELSE 0
Late == Slack + ApplyTicks

\* An acknowledgement comes that no handshake called for.
MayBeHeartbeat == Coming("ack") => Heartbeats

\* Within what the losses so far have cost; or the step now waited for was lost
\* and paid for, phase_secs before the backstop repeats it.
OnTime(extra) == Elapsed <= Cost(losses) + extra
Overdue(extra) == Elapsed + RetrySecs <= Cost(losses) + extra + phase_secs

Ages ==
  /\ wake_hold > 0 => awake
  /\ ~confirmed => phase_secs < RetrySecs
  /\ phase = "CP_DONE" => confirmed \/ error
  /\ \A w \in Elems(pending) : w.age <= ApplyTicks

Waking ==
  /\ to_bcu = <<>> /\ channel # "acking" /\ ~have_profile0
  /\ MayBeHeartbeat /\ ~Coming("profiles")
  /\ OnTime(0)
  /\ beat \/ to_module # <<>> \/ Elapsed + RetrySecs <= Cost(losses)

Opening ==
  /\ ~have_profile0 /\ ~Coming("profiles")
  /\ \/ Lone("handshake") /\ channel # "acking" /\ MayBeHeartbeat /\ OnTime(0)
     \/ to_bcu = <<>> /\ channel = "acking" /\ MayBeHeartbeat /\ OnTime(0)
     \/ to_bcu = <<>> /\ channel = "open" /\ Coming("ack") /\ OnTime(0)
     \/ to_bcu = <<>> /\ channel # "acking" /\ MayBeHeartbeat /\ Overdue(0)

\* A heartbeat stood for the acknowledgement of a lost handshake: no GET is
\* answered, and no handshake sent.
Deaf ==
  /\ Heartbeats /\ losses > 0 /\ channel = "closed"
  /\ to_bcu = <<>> \/ Lone("get")
  /\ ~have_profile0 /\ ~Coming("profiles")

\* It stood for that of a handshake the BCU is yet to get, or to acknowledge: with
\* the GET on its way behind it ...
Early ==
  /\ Heartbeats /\ ~have_profile0 /\ ~Coming("profiles") /\ OnTime(0)
  /\ \/ Pair("handshake", "get") /\ channel # "acking"
     \/ Lone("get") /\ channel = "acking"

\* ... or with the GET dropped, lost or refused.
Unready ==
  /\ Heartbeats /\ ~have_profile0 /\ ~Coming("profiles") /\ Overdue(Slack)
  /\ \/ Lone("handshake") /\ channel # "acking"
     \/ to_bcu = <<>> /\ channel = "acking"

Fetching ==
  /\ channel = "open"
  /\ \/ Lone("get") /\ ~have_profile0 /\ ~Coming("profiles") /\ OnTime(Slack)
     \/ to_bcu = <<>> /\ ~have_profile0 /\ Coming("profiles") /\ OnTime(Slack)
     \/ to_bcu = <<>> /\ (have_profile0 \/ ~Coming("profiles")) /\ Overdue(Slack)

Reading == Deaf \/ Early \/ Unready \/ Fetching

\* Every write sent was sent because another was lost, but for the first, which
\* is on its way, waiting in the BCU, echoed or lost: each costs RetrySecs.
Lead == losses + Echoes(to_module)
Owed == Lead + Len(to_bcu) + Len(pending)

Arming ==
  /\ ~SkipsWrite(profile0) /\ (phase = "CP_ARM_WAIT" => ~WriteOnly)
  /\ to_bcu = <<>> \/ (Lone("write") /\ phase_secs = 0)
  /\ Elapsed + RetrySecs <= Cost(Owed) + Slack + phase_secs
  /\ \A i \in 1..Len(pending) :
       Elapsed <= Cost(Lead + (i - 1)) + Slack + pending[i].age
  /\ Coming("echo") => OnTime(Late)

Confirming ==
  \/ OnTime(Late) /\ (InFlight("trigger") \/ Coming("opmode") \/ Coming("error"))
  \/ Overdue(Late)

Timely ==
  /\ Ages
  /\ phase = "CP_WAKE" => Waking
  /\ phase = "CP_HANDSHAKE" => Opening
  /\ phase = "CP_PROFILE" => Reading
  /\ AwaitsWriteEcho => Arming
  /\ AwaitsOpMode => Confirming

LEMMA CostFacts ==
  ASSUME NEW n \in Nat
  PROVE  Cost(n) \in Nat /\ Cost(n + 1) = Cost(n) + RetrySecs
<1>1. RetrySecs \in Nat
  BY SecsAssumption
<1> QED BY <1>1 DEF Cost

LEMMA CostMonotone ==
  ASSUME NEW m \in Nat, NEW n \in Nat, m <= n
  PROVE  Cost(m) <= Cost(n)
<1>1. RetrySecs \in Nat /\ n - m \in Nat
  BY SecsAssumption
<1>2. RetrySecs * (n - m) \in Nat /\ RetrySecs * n = RetrySecs * m + RetrySecs * (n - m)
  BY <1>1
<1>3. RetrySecs * n \in Nat /\ RetrySecs * m \in Nat
  BY <1>1
<1> QED BY <1>2, <1>3 DEF Cost

\* What of the answers still to come a step leaves.
LEMMA ComingSame ==
  ASSUME UNCHANGED to_module
  PROVE  /\ \A type : Coming(type)' <=> Coming(type)
         /\ Echoes(to_module)' = Echoes(to_module)
BY DEF Coming, Elems, Echoes

LEMMA ComingFacts ==
  ASSUME BusTypes
  PROVE  /\ Echoes(to_module) \in Nat
         /\ Echoes(to_module) # 0 => Coming("echo")
         /\ \A type : Coming(type) => to_module # <<>>
<1>1. Echoes(to_module) \in Nat
  BY EchoesFinite DEF BusTypes
<1>2. \A type : Coming(type) => to_module # <<>>
  BY EmptyElems DEF Coming
<1>3. ASSUME ~Coming("echo") PROVE Echoes(to_module) = 0
  <2>1. {i \in 1..Len(to_module) : to_module[i].type = "echo"} = {}
    BY <1>3 DEF Coming, Elems
  <2> QED BY <2>1, FS_EmptySet DEF Echoes
<1> QED BY <1>1, <1>2, <1>3

LEMMA ComingSaid ==
  ASSUME BusTypes, NEW e \in Status, Say(e)
  PROVE  /\ to_module' # <<>>
         /\ \A type : Coming(type)' <=> Coming(type) \/ e.type = type
         /\ Echoes(to_module)' = IF e.type = "echo" THEN Echoes(to_module) + 1
                                                    ELSE Echoes(to_module)
<1>1. to_module' = Append(to_module, e) /\ to_module \in Seq(Status)
  BY DEF Say, BusTypes
<1>2. Elems(to_module)' = Elems(to_module) \cup {e}
  BY SaidElems
<1>3. Echoes(to_module)' = Echoes(to_module')
  BY DEF Echoes
<1> QED BY <1>1, <1>2, <1>3, EchoesAppend DEF Coming

LEMMA ComingTaken ==
  ASSUME BusTypes, to_module # <<>>, to_module' = Tail(to_module)
  PROVE  /\ \A type : Coming(type) <=> Coming(type)' \/ Head(to_module).type = type
         /\ Echoes(to_module)' \in Nat
         /\ Echoes(to_module) = IF Head(to_module).type = "echo"
                                THEN Echoes(to_module)' + 1
                                ELSE Echoes(to_module)'
<1>1. to_module \in Seq(Status) /\ Tail(to_module) \in Seq(Status)
  BY TailElems DEF BusTypes
<1>2. Elems(to_module) = Elems(to_module)' \cup {Head(to_module)}
  <2>1. Elems(to_module)' = Elems(to_module')
    BY DEF Elems
  <2> QED BY <1>1, <2>1, TailElems
<1>3. Echoes(to_module)' = Echoes(Tail(to_module))
  BY DEF Echoes
<1>4. Echoes(Tail(to_module)) \in Nat
  BY <1>1, EchoesFinite
<1> QED BY <1>1, <1>2, <1>3, <1>4, EchoesTail DEF Coming

\* The same of the telegrams on their way out.
LEMMA OutSame ==
  ASSUME UNCHANGED to_bcu
  PROVE  \A type : (Lone(type)' <=> Lone(type)) /\ (InFlight(type)' <=> InFlight(type))
BY DEF Lone, InFlight, Elems

LEMMA LoneFacts ==
  ASSUME BusTypes
  PROVE  /\ Len(to_bcu) \in Nat /\ (to_bcu = <<>> <=> Len(to_bcu) = 0)
         /\ \A type : Lone(type) => /\ Head(to_bcu).tel.type = type
                                    /\ Tail(to_bcu) = <<>> /\ Len(to_bcu) = 1
<1>1. Len(to_bcu) \in Nat /\ (to_bcu = <<>> <=> Len(to_bcu) = 0)
  BY DEF BusTypes
<1>2. ASSUME NEW type, Lone(type)
      PROVE  Head(to_bcu).tel.type = type /\ Tail(to_bcu) = <<>> /\ Len(to_bcu) = 1
  <2>1. to_bcu \in Seq(Entries) /\ Len(to_bcu) = 1 /\ to_bcu # <<>>
    BY <1>1, <1>2 DEF BusTypes, Lone
  <2>2. /\ Tail(to_bcu) \in Seq(Entries) /\ Len(Tail(to_bcu)) = 0
        /\ Head(to_bcu) = to_bcu[1]
    BY <2>1, TailElems
  <2> QED BY <1>2, <2>1, <2>2, ElemsTyped DEF Lone
<1> QED BY <1>1, <1>2

LEMMA PutLone ==
  ASSUME Typed, Typed', Put, commands' = commands, to_bcu = <<>>
  PROVE  \/ sent' = Nothing /\ to_bcu' = <<>>
         \/ sent' # Nothing /\ \A type : sent'.type = type => Lone(type)'
<1>1. CASE /\ Entry(sent') \in Entries /\ sent' # Nothing
           /\ to_bcu' = Append(to_bcu, Entry(sent'))
  <2>1. Len(to_bcu') = 1 /\ to_bcu'[1] = Entry(sent')
    BY <1>1
  <2>2. Entry(sent').tel = sent'
    BY DEF Entry
  <2> QED BY <1>1, <2>1, <2>2 DEF Lone
<1> QED BY <1>1, PutFacts DEF Typed, IInv

\* A telegram sent is in flight, one not taken from the front stays there.
LEMMA PutInFlightNow ==
  ASSUME Typed, Typed', Put, commands' = commands, sent' # Nothing, NEW type,
         sent'.type = type
  PROVE  InFlight(type)'
<1>1. /\ Entry(sent') \in Entries
      /\ to_bcu' = Append(to_bcu, Entry(sent'))
  BY PutFacts DEF Typed, IInv
<1>2. Elems(to_bcu') = Elems(to_bcu) \cup {Entry(sent')}
  BY <1>1, AppendElems DEF Typed, BusTypes
<1>3. Elems(to_bcu)' = Elems(to_bcu') /\ Entry(sent').tel = sent'
  BY DEF Elems, Entry
<1> QED BY <1>2, <1>3 DEF InFlight

LEMMA StaysInFlight ==
  ASSUME BusTypes, NEW type, NEW other, BcuStep(other), other # type,
         InFlight(type)
  PROVE  InFlight(type)'
<1>1. Elems(to_bcu)' = Elems(to_bcu')
  BY DEF Elems
<1>2. Elems(to_bcu) = Elems(to_bcu') \cup {Head(to_bcu)}
  BY BcuStepFacts, TailElems DEF BusTypes
<1> QED BY <1>1, <1>2, BcuStepFacts DEF InFlight

\* The BCU says an element of this type.
Says(type) == \E e \in Status : Say(e) /\ e.type = type

LEMMA SaysFacts ==
  ASSUME BusTypes, NEW said, Says(said)
  PROVE  /\ to_module' # <<>>
         /\ \A type : Coming(type)' <=> Coming(type) \/ said = type
         /\ Echoes(to_module)' = IF said = "echo" THEN Echoes(to_module) + 1
                                                  ELSE Echoes(to_module)
BY ComingSaid DEF Says

LEMMA BcuVoice ==
  ASSUME BusTypes
  PROVE  /\ BcuAck => Says("ack")
         /\ BcuGet /\ channel = "open" => Says("profiles")
         /\ BcuApply => Says("echo")
         /\ BcuTrigger => Says("opmode") \/ Says("error")
         /\ BcuBroadcast => Says("other") \/ (Heartbeats /\ Says("ack"))
<1>1. BcuAck => Says("ack")
  BY SaidFacts DEF BcuAck, Says, Ack, Telegram
<1>2. ASSUME NEW t \in {"echo", "error", "other"}, Say(Telegram(t, FALSE, Unset))
      PROVE  Says(t)
  <2>1. Telegram(t, FALSE, Unset) \in Status /\ Telegram(t, FALSE, Unset).type = t
    BY SaidFacts DEF Telegram
  <2> QED BY <1>2, <2>1 DEF Says
<1>3. BcuGet /\ channel = "open" => Says("profiles")
  <2>1. /\ Telegram("profiles", FALSE, store) \in Status
        /\ Telegram("profiles", FALSE, store).type = "profiles"
    BY SaidFacts DEF Telegram, BusTypes
  <2> QED BY <2>1 DEF BcuGet, Says
<1>4. ASSUME BcuTrigger, Say(Telegram("opmode", Head(to_bcu).tel.flag, Unset))
      PROVE  Says("opmode")
  <2>1. Head(to_bcu).tel.flag \in BOOLEAN
    BY <1>4, BcuStepFacts DEF BcuTrigger, Entries, Sendable
  <2>2. /\ Telegram("opmode", Head(to_bcu).tel.flag, Unset) \in Status
        /\ Telegram("opmode", Head(to_bcu).tel.flag, Unset).type = "opmode"
    BY <2>1, SaidFacts DEF Telegram
  <2> QED BY <1>4, <2>2 DEF Says
<1>5. BcuTrigger => Says("opmode") \/ Says("error")
  BY <1>2, <1>4 DEF BcuTrigger
<1>6. BcuApply => Says("echo")
  BY <1>2 DEF BcuApply
<1>7. BcuBroadcast => Says("other") \/ (Heartbeats /\ Says("ack"))
  <2>1. Say(Ack) => Says("ack")
    BY SaidFacts DEF Says, Ack, Telegram
  <2> QED BY <1>2, <2>1 DEF BcuBroadcast
<1> QED BY <1>1, <1>3, <1>5, <1>6, <1>7

\* A step that leaves the command where it is, and one that leaves its verdict
\* too.
Unmoved == UNCHANGED <<phase, op, param, enable, apply, have_profile0, profile0,
                       wake_hold, phase_secs>>
Still == Unmoved /\ UNCHANGED <<confirmed, error>>

LEMMA UnmovedFacts ==
  ASSUME Unmoved
  PROVE  /\ SameRecord
         /\ UNCHANGED <<phase, have_profile0, wake_hold, phase_secs>>
         /\ Elapsed' = Elapsed /\ SkipsWrite(profile0)' = SkipsWrite(profile0)
         /\ WriteOnly' = WriteOnly /\ AwaitsWriteEcho' = AwaitsWriteEcho
         /\ AwaitsOpMode' = AwaitsOpMode
<1>1. SameRecord /\ UNCHANGED <<phase, have_profile0, wake_hold, phase_secs>>
  BY DEF Unmoved, SameRecord
<1>2. SkipsWrite(profile0)' = SkipsWrite(profile0) /\ WriteOnly' = WriteOnly
  BY <1>1, SameRecordFacts
<1> QED BY <1>1, <1>2 DEF Elapsed, AwaitsWriteEcho, AwaitsOpMode

LEMMA StillFacts ==
  ASSUME Still
  PROVE  /\ SameRecord
         /\ UNCHANGED <<phase, have_profile0, confirmed, error, wake_hold,
                        phase_secs>>
         /\ Elapsed' = Elapsed /\ SkipsWrite(profile0)' = SkipsWrite(profile0)
         /\ WriteOnly' = WriteOnly /\ AwaitsWriteEcho' = AwaitsWriteEcho
         /\ AwaitsOpMode' = AwaitsOpMode
<1>1. Unmoved /\ UNCHANGED <<confirmed, error>>
  BY DEF Still
<1> QED BY <1>1, UnmovedFacts

\* The steps outside the controller that may come while a command runs.
Calm == Still /\ UNCHANGED <<to_bcu, to_module, channel, pending, awake, beat,
                             losses>>
Outside == Calm \/ Lose \/ Bcu

LEMMA OutsideFacts ==
  /\ Report \/ MibEdit \/ UNCHANGED sysvars => Calm
  /\ Lose => /\ Still /\ losses' = losses + 1
             /\ UNCHANGED <<channel, pending, awake, beat>>
             /\ \/ /\ to_bcu # <<>> /\ to_bcu' = Tail(to_bcu)
                   /\ UNCHANGED to_module
                \/ /\ to_module # <<>> /\ to_module' = Tail(to_module)
                   /\ UNCHANGED to_bcu
  /\ Bcu => Still /\ UNCHANGED <<awake, losses>>
<1>1. Report \/ MibEdit \/ UNCHANGED sysvars => Calm
  BY DEF Report, IncomingClimaEcuStatus, ChargeStatus, MibEdit, sysvars, vars,
         bcu, bounds, command, Still, Unmoved, Calm
<1>2. Lose => Still /\ losses' = losses + 1
              /\ UNCHANGED <<channel, pending, awake, beat>>
  BY DEF Lose, CountLoss, vars, command, bcu, Still, Unmoved
<1>3. Bcu => Still /\ UNCHANGED <<awake, losses>>
  BY DEF Bcu, BcuHandshake, BcuAck, BcuGet, BcuWrite, BcuApply, BcuTrigger,
         BcuBroadcast, BcuStep, vars, command, bounds, Still,
         Unmoved
<1> QED BY <1>1, <1>2, <1>3 DEF Lose

LEMMA Numbers ==
  ASSUME Typed
  PROVE  /\ Elapsed \in Nat /\ wake_hold \in Nat /\ phase_secs \in Nat
         /\ losses \in Nat /\ Cost(losses) \in Nat
         /\ Cost(losses + 1) = Cost(losses) + RetrySecs
         /\ RetrySecs \in Nat \ {0} /\ ApplyTicks \in Nat \ {0}
         /\ Slack \in Nat /\ Late = Slack + ApplyTicks /\ Late \in Nat
         /\ Heartbeats => Slack = RetrySecs
<1>1. wake_hold \in 0..WakeSecs /\ phase_secs \in Nat /\ losses \in 0..MaxLoss
  BY DEF Typed, IInv, TypeOK, BusTypes
<1>2. /\ WakeSecs \in Nat /\ MaxLoss \in Nat /\ RetrySecs \in Nat \ {0}
      /\ ApplyTicks \in Nat \ {0}
  BY SecsAssumption, BoundsAssumption
<1>3. losses \in Nat
  BY <1>1, <1>2
<1>4. Cost(losses) \in Nat /\ Cost(losses + 1) = Cost(losses) + RetrySecs
  BY <1>3, CostFacts
<1>5. Slack \in Nat /\ (Heartbeats => Slack = RetrySecs)
  BY <1>2 DEF Slack
<1> QED BY <1>1, <1>2, <1>3, <1>4, <1>5 DEF Elapsed, Late

LEMMA WakingKept ==
  ASSUME Typed, Waking, Outside
  PROVE  Waking'
<1>t. BusTypes
  BY DEF Typed
<1>0. /\ to_bcu = <<>> /\ channel # "acking" /\ ~have_profile0
      /\ MayBeHeartbeat /\ ~Coming("profiles") /\ Elapsed <= Cost(losses)
      /\ beat \/ to_module # <<>> \/ Elapsed + RetrySecs <= Cost(losses)
  BY Numbers DEF Waking, OnTime
<1>s. /\ Still /\ Elapsed' = Elapsed /\ have_profile0' = have_profile0
  BY OutsideFacts, StillFacts DEF Outside, Calm
<1>1. CASE Calm
  <2>1. /\ UNCHANGED <<to_bcu, to_module, channel, beat, losses>>
    BY <1>1 DEF Calm
  <2>2. MayBeHeartbeat' /\ ~Coming("profiles")'
    BY <1>0, <2>1, ComingSame DEF MayBeHeartbeat
  <2> QED BY <1>0, <1>s, <2>1, <2>2, Numbers DEF Waking, OnTime
<1>2. CASE Lose
  <2>1. /\ losses' = losses + 1 /\ UNCHANGED <<channel, to_bcu>>
        /\ to_module # <<>> /\ to_module' = Tail(to_module)
    BY <1>0, <1>2, OutsideFacts
  <2>2. MayBeHeartbeat' /\ ~Coming("profiles")'
    BY <1>t, <1>0, <2>1, ComingTaken DEF MayBeHeartbeat
  <2> QED BY <1>0, <1>s, <2>1, <2>2, Numbers DEF Waking, OnTime
<1>3. CASE BcuApply
  <2>1. Says("echo") /\ UNCHANGED <<to_bcu, channel, losses, beat>>
    BY <1>t, <1>3, BcuVoice DEF BcuApply, bounds
  <2>2. MayBeHeartbeat' /\ ~Coming("profiles")' /\ to_module' # <<>>
    BY <1>t, <1>0, <2>1, SaysFacts DEF MayBeHeartbeat
  <2> QED BY <1>0, <1>s, <2>1, <2>2, Numbers DEF Waking, OnTime
<1>4. CASE BcuBroadcast
  <2>1. /\ Says("other") \/ (Heartbeats /\ Says("ack"))
        /\ UNCHANGED <<to_bcu, channel, losses>>
    BY <1>t, <1>4, BcuVoice DEF BcuBroadcast, bounds
  <2>2. MayBeHeartbeat' /\ ~Coming("profiles")' /\ to_module' # <<>>
    BY <1>t, <1>0, <2>1, SaysFacts DEF MayBeHeartbeat
  <2> QED BY <1>0, <1>s, <2>1, <2>2, Numbers DEF Waking, OnTime
<1> QED BY <1>0, <1>1, <1>2, <1>3, <1>4
        DEF Outside, Bcu, BcuHandshake, BcuAck, BcuGet, BcuWrite, BcuTrigger,
            BcuStep

LEMMA OpeningKept ==
  ASSUME Typed, Opening, Outside
  PROVE  Opening'
<1>t. BusTypes
  BY DEF Typed
<1>s. /\ Still /\ Elapsed' = Elapsed /\ have_profile0' = have_profile0
      /\ phase_secs' = phase_secs
  BY OutsideFacts, StillFacts DEF Outside, Calm
<1>1. CASE Calm
  <2>1. UNCHANGED <<to_bcu, to_module, channel, losses>>
    BY <1>1 DEF Calm
  <2>2. \A type : (Coming(type)' <=> Coming(type)) /\ (Lone(type)' <=> Lone(type))
    BY <2>1, ComingSame, OutSame
  <2> QED BY <1>s, <2>1, <2>2 DEF Opening, MayBeHeartbeat, OnTime, Overdue
<1>2. CASE Lose
  <2>1. losses' = losses + 1 /\ channel' = channel
    BY <1>2, OutsideFacts
  <2>2. CASE to_bcu # <<>> /\ to_bcu' = Tail(to_bcu) /\ UNCHANGED to_module
    <3>1. \A type : Coming(type)' <=> Coming(type)
      BY <2>2, ComingSame
    <3>2. Lone("handshake") => to_bcu' = <<>>
      BY <1>t, <2>2, LoneFacts
    <3> QED BY <1>s, <2>1, <2>2, <3>1, <3>2, Numbers DEF Opening, MayBeHeartbeat, OnTime, Overdue
  <2>3. CASE to_module # <<>> /\ to_module' = Tail(to_module) /\ UNCHANGED to_bcu
    <3>1. \A type : Coming(type)' => Coming(type)
      BY <1>t, <2>3, ComingTaken
    <3>2. Lone("handshake")' <=> Lone("handshake")
      BY <2>3, OutSame
    <3>3. /\ OnTime(0) => OnTime(0)' /\ Overdue(0)'
          /\ Overdue(0) => Overdue(0)'
      BY <1>s, <2>1, Numbers DEF OnTime, Overdue
    <3>4. MayBeHeartbeat => MayBeHeartbeat'
      BY <3>1 DEF MayBeHeartbeat
    <3>5. ~Coming("ack")' => MayBeHeartbeat'
      BY DEF MayBeHeartbeat
    <3> QED BY <1>s, <2>1, <2>3, <3>1, <3>2, <3>3, <3>4, <3>5 DEF Opening
  <2> QED BY <1>2, <2>2, <2>3, OutsideFacts
<1>3. CASE BcuHandshake
  <2>1. /\ channel' = "acking" /\ UNCHANGED <<to_module, losses>>
        /\ to_bcu # <<>> /\ to_bcu' = Tail(to_bcu)
    BY <1>3 DEF BcuHandshake, BcuStep, bounds
  <2>2. \A type : Coming(type)' <=> Coming(type)
    BY <2>1, ComingSame
  <2>3. Lone("handshake") => to_bcu' = <<>>
    BY <1>t, <2>1, LoneFacts
  <2> QED BY <1>s, <2>1, <2>2, <2>3 DEF Opening, MayBeHeartbeat, OnTime
<1>4. CASE BcuAck
  <2>1. /\ channel = "acking" /\ channel' = "open" /\ UNCHANGED <<to_bcu, losses>>
        /\ Says("ack")
    BY <1>t, <1>4, BcuVoice DEF BcuAck, bounds
  <2>2. Coming("ack")' /\ (Coming("profiles")' <=> Coming("profiles"))
    BY <1>t, <2>1, SaysFacts
  <2> QED BY <1>s, <2>1, <2>2 DEF Opening, MayBeHeartbeat, OnTime
<1>5. CASE BcuApply \/ BcuBroadcast
  <2>1. /\ UNCHANGED <<to_bcu, losses, channel>>
        /\ Says("echo") \/ Says("other") \/ (Heartbeats /\ Says("ack"))
    BY <1>t, <1>5, BcuVoice DEF BcuApply, BcuBroadcast, bounds
  <2>2. /\ Coming("ack") => Coming("ack")'
        /\ Coming("ack")' => Coming("ack") \/ Heartbeats
        /\ Coming("profiles")' <=> Coming("profiles")
    BY <1>t, <2>1, SaysFacts
  <2>3. Lone("handshake")' <=> Lone("handshake")
    BY <2>1, OutSame
  <2> QED BY <1>s, <2>1, <2>2, <2>3 DEF Opening, MayBeHeartbeat, OnTime, Overdue
<1>6. CASE BcuGet \/ BcuWrite \/ BcuTrigger
  <2>1. to_bcu # <<>> /\ Head(to_bcu).tel.type # "handshake"
    BY <1>6 DEF BcuGet, BcuWrite, BcuTrigger, BcuStep
  <2> QED BY <1>t, <2>1, LoneFacts DEF Opening
<1> QED BY <1>1, <1>2, <1>3, <1>4, <1>5, <1>6 DEF Outside, Bcu

LEMMA FetchingKept ==
  ASSUME Typed, Fetching, Outside
  PROVE  Fetching'
<1>t. BusTypes
  BY DEF Typed
<1>s. /\ Still /\ Elapsed' = Elapsed /\ have_profile0' = have_profile0
      /\ phase_secs' = phase_secs
  BY OutsideFacts, StillFacts DEF Outside, Calm
<1>1. CASE Calm
  <2>1. UNCHANGED <<to_bcu, to_module, channel, losses>>
    BY <1>1 DEF Calm
  <2>2. \A type : (Coming(type)' <=> Coming(type)) /\ (Lone(type)' <=> Lone(type))
    BY <2>1, ComingSame, OutSame
  <2> QED BY <1>s, <2>1, <2>2 DEF Fetching, OnTime, Overdue
<1>2. CASE Lose
  <2>1. losses' = losses + 1 /\ channel' = channel
    BY <1>2, OutsideFacts
  <2>4. /\ OnTime(Slack) => OnTime(Slack)' /\ Overdue(Slack)'
        /\ Overdue(Slack) => Overdue(Slack)'
    BY <1>s, <2>1, Numbers DEF OnTime, Overdue
  <2>2. CASE to_bcu # <<>> /\ to_bcu' = Tail(to_bcu) /\ UNCHANGED to_module
    <3>1. \A type : Coming(type)' <=> Coming(type)
      BY <2>2, ComingSame
    <3>2. Lone("get") => to_bcu' = <<>>
      BY <1>t, <2>2, LoneFacts
    <3> QED BY <1>s, <2>1, <2>2, <2>4, <3>1, <3>2 DEF Fetching
  <2>3. CASE to_module # <<>> /\ to_module' = Tail(to_module) /\ UNCHANGED to_bcu
    <3>1. \A type : Coming(type)' => Coming(type)
      BY <1>t, <2>3, ComingTaken
    <3>2. Lone("get")' <=> Lone("get")
      BY <2>3, OutSame
    <3> QED BY <1>s, <2>1, <2>3, <2>4, <3>1, <3>2 DEF Fetching
  <2> QED BY <1>2, <2>2, <2>3, OutsideFacts
<1>3. CASE BcuGet
  <2>1. /\ UNCHANGED <<channel, losses>>
        /\ to_bcu # <<>> /\ to_bcu' = Tail(to_bcu)
    BY <1>3 DEF BcuGet, BcuStep, bounds
  <2>2. Fetching => Coming("profiles")'
    BY <1>t, <1>3, BcuVoice, SaysFacts DEF Fetching
  <2>3. Lone("get") => to_bcu' = <<>>
    BY <1>t, <2>1, LoneFacts
  <2> QED BY <1>s, <2>1, <2>2, <2>3 DEF Fetching, OnTime
<1>4. CASE BcuApply \/ BcuBroadcast
  <2>1. /\ UNCHANGED <<to_bcu, losses, channel>>
        /\ Says("echo") \/ Says("other") \/ Says("ack")
    BY <1>t, <1>4, BcuVoice DEF BcuApply, BcuBroadcast, bounds
  <2>2. Coming("profiles")' <=> Coming("profiles")
    BY <1>t, <2>1, SaysFacts
  <2>3. Lone("get")' <=> Lone("get")
    BY <2>1, OutSame
  <2> QED BY <1>s, <2>1, <2>2, <2>3 DEF Fetching, OnTime, Overdue
<1>5. CASE BcuHandshake \/ BcuWrite \/ BcuTrigger
  <2>1. to_bcu # <<>> /\ Head(to_bcu).tel.type # "get"
    BY <1>5 DEF BcuHandshake, BcuWrite, BcuTrigger, BcuStep
  <2> QED BY <1>t, <2>1, LoneFacts DEF Fetching
<1>6. CASE BcuAck
  BY <1>6 DEF BcuAck, Fetching
<1> QED BY <1>1, <1>2, <1>3, <1>4, <1>5, <1>6 DEF Outside, Bcu

\* A heartbeat was taken for the acknowledgement.
LEMMA PairFacts ==
  ASSUME BusTypes, Pair("handshake", "get")
  PROVE  /\ to_bcu # <<>> /\ Head(to_bcu).tel.type = "handshake"
         /\ to_bcu' = Tail(to_bcu) => Lone("get")'
<1>1. to_bcu \in Seq(Entries) /\ Len(to_bcu) = 2 /\ to_bcu # <<>>
  BY LoneFacts DEF BusTypes, Pair
<1>2. Head(to_bcu) = to_bcu[1] /\ Len(Tail(to_bcu)) = 1 /\ Tail(to_bcu)[1] = to_bcu[2]
  <2>1. /\ Head(to_bcu) = to_bcu[1] /\ Len(Tail(to_bcu)) = Len(to_bcu) - 1
        /\ \A i \in 1..Len(Tail(to_bcu)) : Tail(to_bcu)[i] = to_bcu[i + 1]
    BY <1>1, TailElems
  <2>2. Len(Tail(to_bcu)) = 1
    BY <1>1, <2>1
  <2>3. Tail(to_bcu)[1] = to_bcu[1 + 1]
    BY <2>1, <2>2
  <2> QED BY <2>1, <2>2, <2>3
<1> QED BY <1>1, <1>2 DEF Pair, Lone

LEMMA PutPair ==
  ASSUME Typed, Typed', Put, commands' = commands, Lone("handshake")
  PROVE  \/ sent' = Nothing /\ to_bcu' = to_bcu
         \/ sent' # Nothing /\ (sent'.type = "get" => Pair("handshake", "get")')
<1>1. CASE /\ Entry(sent') \in Entries /\ sent' # Nothing
           /\ to_bcu' = Append(to_bcu, Entry(sent'))
  <2>1. to_bcu \in Seq(Entries) /\ Len(to_bcu) = 1
    BY DEF Typed, BusTypes, Lone
  <2>2. Len(to_bcu') = 2 /\ to_bcu'[1] = to_bcu[1] /\ to_bcu'[2] = Entry(sent')
    <3>1. PICK x \in Entries : x = Entry(sent') /\ to_bcu' = Append(to_bcu, x)
      BY <1>1
    <3> DEFINE s == to_bcu
    <3>0. s \in Seq(Entries) /\ x \in Entries
      BY <2>1, <3>1
    <3> HIDE DEF s
    <3>a. /\ Len(Append(s, x)) = Len(s) + 1
          /\ \A i \in 1..Len(s) : Append(s, x)[i] = s[i]
          /\ Append(s, x)[Len(s) + 1] = x
      BY <3>0, AppendElems
    <3>2. /\ Len(Append(to_bcu, x)) = Len(to_bcu) + 1
          /\ \A i \in 1..Len(to_bcu) : Append(to_bcu, x)[i] = to_bcu[i]
          /\ Append(to_bcu, x)[Len(to_bcu) + 1] = x
      BY <3>a DEF s
    <3>3. 1 \in 1..Len(to_bcu) /\ Len(to_bcu) + 1 = 2
      BY <2>1
    <3> QED BY <3>1, <3>2, <3>3
  <2>3. Entry(sent').tel = sent'
    BY DEF Entry
  <2> QED BY <1>1, <2>2, <2>3 DEF Lone, Pair
<1> QED BY <1>1, PutFacts DEF Typed, IInv

\* What a step outside the controller does to the answers coming that a closed
\* channel leaves to come.
LEMMA NoRecordComes ==
  ASSUME Typed, Outside, ~Coming("profiles"), ~(BcuGet /\ channel = "open")
  PROVE  ~Coming("profiles")'
<1>t. BusTypes
  BY DEF Typed
<1>1. CASE UNCHANGED to_module
  BY <1>1, ComingSame
<1>2. CASE to_module # <<>> /\ to_module' = Tail(to_module)
  BY <1>t, <1>2, ComingTaken
<1>3. CASE \E said \in {"ack", "echo", "opmode", "error", "other"} : Says(said)
  BY <1>t, <1>3, SaysFacts
<1> QED BY <1>t, <1>1, <1>2, <1>3, BcuVoice, OutsideFacts
        DEF Outside, Calm, Bcu, BcuHandshake, BcuGet, BcuWrite

LEMMA DeafKept ==
  ASSUME Typed, Deaf, Outside
  PROVE  Deaf'
<1>t. BusTypes
  BY DEF Typed
<1>0. /\ Heartbeats /\ losses > 0 /\ channel = "closed" /\ ~have_profile0
      /\ to_bcu = <<>> \/ Lone("get")
  BY DEF Deaf
<1>1. have_profile0' = have_profile0 /\ ~Coming("profiles")'
  BY <1>0, NoRecordComes, OutsideFacts, StillFacts DEF Deaf, Outside, Calm
<1>2. losses' > 0
  <2>1. losses' = losses \/ losses' = losses + 1
    BY OutsideFacts DEF Outside, Calm
  <2> QED BY <1>0, <2>1, Numbers
<1>3. CASE UNCHANGED <<to_bcu, channel>>
  BY <1>0, <1>1, <1>2, <1>3, OutSame DEF Deaf
<1>4. CASE to_bcu # <<>> /\ to_bcu' = Tail(to_bcu) /\ channel' = channel
  BY <1>t, <1>0, <1>1, <1>2, <1>4, LoneFacts DEF Deaf
<1>5. ~BcuAck
  BY <1>0 DEF BcuAck
<1>6. ~BcuHandshake
  BY <1>t, <1>0, LoneFacts DEF BcuHandshake, BcuStep
<1> QED BY <1>3, <1>4, <1>5, <1>6, OutsideFacts
        DEF Outside, Calm, Bcu, BcuGet, BcuWrite, BcuApply, BcuTrigger,
            BcuBroadcast, BcuStep

LEMMA EarlyKept ==
  ASSUME Typed, Early, Outside
  PROVE  Reading'
<1>t. BusTypes /\ channel \in {"closed", "acking", "open"}
  BY DEF Typed, BusTypes
<1>n. /\ Elapsed \in Nat /\ RetrySecs \in Nat \ {0} /\ phase_secs \in Nat
      /\ Cost(losses) \in Nat /\ Cost(losses + 1) = Cost(losses) + RetrySecs
      /\ losses \in Nat /\ Slack \in Nat /\ Slack = RetrySecs /\ Heartbeats
      /\ Elapsed <= Cost(losses)
  BY Numbers DEF Early, OnTime
<1>0. \/ Pair("handshake", "get") /\ channel # "acking"
      \/ Lone("get") /\ channel = "acking"
  BY DEF Early
<1>1. /\ have_profile0' = have_profile0 /\ ~have_profile0 /\ ~Coming("profiles")'
      /\ Elapsed' = Elapsed /\ phase_secs' = phase_secs
  <2>1. ~(BcuGet /\ channel = "open")
    BY <1>t, <1>0, PairFacts DEF BcuGet, BcuStep
  <2> QED BY <2>1, NoRecordComes, OutsideFacts, StillFacts DEF Early, Outside, Calm
<1>2. losses' = losses \/ losses' = losses + 1
  BY OutsideFacts DEF Outside, Calm
<1>3. OnTime(0)' /\ OnTime(Slack)' /\ Overdue(Slack)'
  BY <1>n, <1>1, <1>2 DEF OnTime, Overdue
<1>4. CASE UNCHANGED <<to_bcu, channel>>
  <2>1. (Pair("handshake", "get")' <=> Pair("handshake", "get"))
        /\ (Lone("get")' <=> Lone("get"))
    BY <1>4 DEF Pair, Lone
  <2> QED BY <1>n, <1>0, <1>1, <1>3, <1>4, <2>1 DEF Reading, Early
<1>5. CASE Lose /\ to_bcu # <<>> /\ to_bcu' = Tail(to_bcu) /\ channel' = channel
  <2>1. losses' > 0
    BY <1>n, <1>5, OutsideFacts
  <2>2. CASE Pair("handshake", "get") /\ channel # "acking"
    BY <1>t, <1>n, <1>1, <1>3, <1>5, <2>1, <2>2, PairFacts
       DEF Reading, Deaf, Fetching
  <2>3. CASE Lone("get") /\ channel = "acking"
    BY <1>t, <1>n, <1>1, <1>3, <1>5, <2>3, LoneFacts DEF Reading, Unready
  <2> QED BY <1>0, <2>2, <2>3
<1>6. CASE BcuHandshake
  <2>1. Pair("handshake", "get") /\ to_bcu' = Tail(to_bcu) /\ channel' = "acking"
    BY <1>t, <1>0, <1>6, LoneFacts DEF BcuHandshake, BcuStep
  <2> QED BY <1>t, <1>n, <1>1, <1>3, <2>1, PairFacts DEF Reading, Early
<1>7. CASE BcuAck
  <2>1. Lone("get") /\ to_bcu' = to_bcu /\ channel' = "open"
    BY <1>0, <1>7 DEF BcuAck
  <2> QED BY <1>1, <1>3, <2>1, OutSame DEF Reading, Fetching
<1>8. CASE BcuGet
  <2>1. Lone("get") /\ channel = "acking" /\ to_bcu' = Tail(to_bcu)
        /\ channel' = channel
    BY <1>t, <1>0, <1>8, PairFacts DEF BcuGet, BcuStep
  <2> QED BY <1>t, <1>n, <1>1, <1>3, <2>1, LoneFacts DEF Reading, Unready
<1>9. ~BcuWrite /\ ~BcuTrigger
  <2>1. Head(to_bcu).tel.type \in {"handshake", "get"}
    BY <1>t, <1>0, PairFacts, LoneFacts
  <2> QED BY <2>1 DEF BcuWrite, BcuTrigger, BcuStep
<1> QED BY <1>4, <1>5, <1>6, <1>7, <1>8, <1>9, OutsideFacts
        DEF Outside, Calm, Bcu, BcuApply, BcuBroadcast

LEMMA UnreadyKept ==
  ASSUME Typed, Unready, Outside
  PROVE  Reading'
<1>t. BusTypes /\ channel \in {"closed", "acking", "open"}
  BY DEF Typed, BusTypes
<1>n. /\ Elapsed \in Nat /\ RetrySecs \in Nat \ {0} /\ phase_secs \in Nat
      /\ Cost(losses) \in Nat /\ Cost(losses + 1) = Cost(losses) + RetrySecs
      /\ losses \in Nat /\ Slack \in Nat /\ Heartbeats
  BY Numbers DEF Unready
<1>0. \/ Lone("handshake") /\ channel # "acking"
      \/ to_bcu = <<>> /\ channel = "acking"
  BY DEF Unready
<1>1. /\ have_profile0' = have_profile0 /\ ~have_profile0 /\ ~Coming("profiles")'
      /\ Elapsed' = Elapsed /\ phase_secs' = phase_secs
  <2>1. ~BcuGet
    <3>1. to_bcu # <<>> => Head(to_bcu).tel.type = "handshake"
      BY <1>t, <1>0, LoneFacts
    <3> QED BY <3>1 DEF BcuGet, BcuStep
  <2> QED BY <2>1, NoRecordComes, OutsideFacts, StillFacts DEF Unready, Outside, Calm
<1>2. losses' = losses \/ losses' = losses + 1
  BY OutsideFacts DEF Outside, Calm
<1>3. Overdue(Slack)'
  BY <1>n, <1>1, <1>2 DEF Unready, Overdue
<1>4. CASE UNCHANGED <<to_bcu, channel>>
  BY <1>n, <1>0, <1>1, <1>3, <1>4, OutSame DEF Reading, Unready
<1>5. CASE Lose /\ to_bcu # <<>> /\ to_bcu' = Tail(to_bcu) /\ channel' = channel
  <2>1. losses' > 0
    BY <1>n, <1>5, OutsideFacts
  <2>2. to_bcu' = <<>> /\ channel # "acking"
    BY <1>t, <1>0, <1>5, LoneFacts
  <2> QED BY <1>t, <1>n, <1>1, <1>3, <1>5, <2>1, <2>2 DEF Reading, Deaf, Fetching
<1>6. CASE BcuHandshake
  <2>1. to_bcu' = <<>> /\ channel' = "acking"
    BY <1>t, <1>0, <1>6, LoneFacts DEF BcuHandshake, BcuStep
  <2> QED BY <1>n, <1>1, <1>3, <2>1 DEF Reading, Unready
<1>7. CASE BcuAck
  <2>1. to_bcu' = <<>> /\ channel' = "open"
    BY <1>0, <1>7 DEF BcuAck
  <2> QED BY <1>1, <1>3, <2>1 DEF Reading, Fetching
<1>9. ~BcuGet /\ ~BcuWrite /\ ~BcuTrigger
  <2>1. to_bcu # <<>> => Head(to_bcu).tel.type = "handshake"
    BY <1>t, <1>0, LoneFacts
  <2> QED BY <2>1 DEF BcuGet, BcuWrite, BcuTrigger, BcuStep
<1> QED BY <1>4, <1>5, <1>6, <1>7, <1>9, OutsideFacts
        DEF Outside, Calm, Bcu, BcuApply, BcuBroadcast

LEMMA ReadingKept ==
  ASSUME Typed, Reading, Outside
  PROVE  Reading'
BY DeafKept, EarlyKept, UnreadyKept, FetchingKept DEF Reading

LEMMA ConfirmingKept ==
  ASSUME Typed, Confirming, Outside
  PROVE  Confirming'
<1>t. BusTypes
  BY DEF Typed
<1>s. Still /\ Elapsed' = Elapsed /\ phase_secs' = phase_secs
  BY OutsideFacts, StillFacts DEF Outside, Calm
<1>1. CASE Lose
  <2>1. losses' = losses + 1
    BY <1>1, OutsideFacts
  <2> QED BY <1>s, <2>1, Numbers DEF Confirming, OnTime, Overdue
<1>2. CASE losses' = losses
           /\ (InFlight("trigger") \/ Coming("opmode") \/ Coming("error")
                 => InFlight("trigger")' \/ Coming("opmode")' \/ Coming("error")')
  BY <1>s, <1>2 DEF Confirming, OnTime, Overdue
<1>3. CASE Calm
  BY <1>2, <1>3, ComingSame, OutSame DEF Calm
<1>4. CASE BcuTrigger
  <2>1. losses' = losses /\ (Says("opmode") \/ Says("error"))
    BY <1>t, <1>4, BcuVoice DEF BcuTrigger, BcuStep, bounds
  <2> QED BY <1>t, <1>2, <2>1, SaysFacts, OutsideFacts, <1>4 DEF Bcu
<1>5. CASE Bcu /\ ~BcuTrigger
  <2>1. losses' = losses
    BY <1>5, OutsideFacts
  <2>2. InFlight("trigger") => InFlight("trigger")'
    <3>1. CASE BcuStep("handshake") \/ BcuStep("get") \/ BcuStep("write")
      BY <1>t, <3>1, StaysInFlight
    <3>2. CASE UNCHANGED to_bcu
      BY <3>2, OutSame
    <3> QED BY <1>5, <3>1, <3>2 DEF Bcu, BcuHandshake, BcuAck, BcuGet, BcuWrite,
            BcuApply, BcuBroadcast
  <2>3. \A type : Coming(type) => Coming(type)'
    <3>1. CASE UNCHANGED to_module
      BY <3>1, ComingSame
    <3>2. CASE \E said : Says(said)
      BY <1>t, <3>2, SaysFacts
    <3> QED BY <1>t, <1>5, <3>1, <3>2, BcuVoice
            DEF Bcu, BcuHandshake, BcuGet, BcuWrite
  <2> QED BY <1>2, <2>1, <2>2, <2>3
<1> QED BY <1>1, <1>3, <1>4, <1>5 DEF Outside

LEMMA Counts ==
  ASSUME Typed
  PROVE  /\ Lead \in Nat /\ Owed \in Nat /\ Echoes(to_module) \in Nat
         /\ Len(pending) \in Nat /\ Len(to_bcu) \in Nat
         /\ Cost(Owed) \in Nat /\ Cost(Owed + 1) = Cost(Owed) + RetrySecs
         /\ \A i \in 1..Len(pending) :
              pending[i].age \in Nat /\ Cost(Lead + (i - 1)) \in Nat
<1>1. /\ Echoes(to_module) \in Nat /\ losses \in Nat
      /\ Len(pending) \in Nat /\ Len(to_bcu) \in Nat
      /\ \A i \in 1..Len(pending) : pending[i].age \in Nat
  <2>1. /\ pending \in Seq(Waiting) /\ BusTypes
    BY DEF Typed, BusTypes
  <2>2. Len(pending) \in Nat /\ \A i \in 1..Len(pending) : pending[i] \in Waiting
    BY <2>1
  <2>3. \A w \in Waiting : w.age \in Nat
    BY DEF Waiting
  <2> QED BY <2>1, <2>2, <2>3, ComingFacts, LoneFacts, Numbers
<1>2. Lead \in Nat /\ Owed \in Nat
  BY <1>1 DEF Lead, Owed
<1>3. \A i \in 1..Len(pending) : Lead + (i - 1) \in Nat
  BY <1>1, <1>2
<1>4. \A i \in 1..Len(pending) : Cost(Lead + (i - 1)) \in Nat
  BY <1>3, CostFacts
<1>5. Cost(Owed) \in Nat /\ Cost(Owed + 1) = Cost(Owed) + RetrySecs
  BY <1>2, CostFacts
<1> QED BY <1>1, <1>2, <1>4, <1>5

\* The same after a step.
LEMMA NextCounts ==
  Typed' => (Lead \in Nat /\ Owed \in Nat /\ losses \in Nat)'
<1>1. Typed => Lead \in Nat /\ Owed \in Nat /\ losses \in Nat
  BY Counts, Numbers
<1> QED BY <1>1, PTL

\* Nothing is taken back of what is paid: a step that loses an echo or a write
\* counts it as a loss.
LEMMA ArmingGrows ==
  ASSUME Typed, Typed', Arming, Unmoved, UNCHANGED pending,
         to_bcu' = <<>> \/ (Lone("write")' /\ phase_secs = 0),
         Lead' >= Lead, Owed' >= Owed, losses' >= losses,
         Coming("echo")' => Coming("echo")
  PROVE  Arming'
<1>s. /\ UNCHANGED <<phase, phase_secs>> /\ Elapsed' = Elapsed
      /\ SkipsWrite(profile0)' = SkipsWrite(profile0) /\ WriteOnly' = WriteOnly
  BY UnmovedFacts
<1>n. /\ Lead \in Nat /\ Owed \in Nat /\ losses \in Nat
      /\ Lead' \in Nat /\ Owed' \in Nat /\ losses' \in Nat
  BY Counts, Numbers, NextCounts
<1>1. /\ Cost(Owed') >= Cost(Owed) /\ Cost(Owed) \in Nat
      /\ Cost(Owed') \in Nat
  BY <1>n, CostMonotone, CostFacts
<1>2. Elapsed' + RetrySecs <= Cost(Owed') + Slack + phase_secs'
  <2>1. Elapsed + RetrySecs <= Cost(Owed) + Slack + phase_secs
    BY DEF Arming
  <2>2. Elapsed \in Nat /\ RetrySecs \in Nat /\ Slack \in Nat /\ phase_secs \in Nat
    BY Numbers
  <2> QED BY <1>s, <1>1, <2>1, <2>2
<1>3. ASSUME NEW i \in 1..Len(pending)
      PROVE  Elapsed' <= Cost(Lead' + (i - 1)) + Slack + pending[i].age
  <2>0. i \in Nat /\ i >= 1 /\ Lead \in Nat /\ Lead' \in Nat /\ Lead <= Lead'
    BY <1>n, Counts
  <2>l. PICK lead \in Nat : lead = Lead'
    BY <2>0
  <2> DEFINE m == Lead + (i - 1)
             n == lead + (i - 1)
  <2>1. m \in Nat /\ n \in Nat /\ m <= n
    <3>1. Lead <= lead /\ Lead \in Nat /\ i \in Nat /\ i >= 1
      BY <2>0, <2>l
    <3> QED BY <3>1
  <2>2. Elapsed <= Cost(m) + Slack + pending[i].age
    BY DEF Arming
  <2>3. pending[i].age \in Nat
    BY Counts
  <2> HIDE DEF m, n
  <2>4. Cost(m) <= Cost(n) /\ Cost(m) \in Nat /\ Cost(n) \in Nat
    BY <2>1, CostMonotone, CostFacts
  <2>6. Elapsed' <= Cost(n) + Slack + pending[i].age
    <3>1. Elapsed \in Nat /\ Elapsed' = Elapsed /\ Slack \in Nat
      BY <1>s, Numbers
    <3> QED BY <2>2, <2>3, <2>4, <3>1
  <2> QED BY <2>6, <2>l DEF n
<1>4. Coming("echo")' => Elapsed' <= Cost(losses') + Late
  <2>1. /\ Cost(losses') >= Cost(losses) /\ Cost(losses) \in Nat
        /\ Cost(losses') \in Nat
    BY <1>n, CostMonotone, CostFacts
  <2>2. /\ Elapsed \in Nat /\ Elapsed' = Elapsed /\ ApplyTicks \in Nat /\ Late \in Nat
        /\ Coming("echo")' => Elapsed <= Cost(losses) + Late
    BY <1>s, Numbers DEF Arming, OnTime
  <2> QED BY <2>1, <2>2
<1> QED BY <1>s, <1>2, <1>3, <1>4 DEF Arming, OnTime

LEMMA ArmingWritten ==
  ASSUME Typed, Typed', Arming, BcuWrite
  PROVE  Arming'
<1>t. BusTypes
  BY DEF Typed
<1>s. /\ UNCHANGED <<phase, phase_secs>> /\ Elapsed' = Elapsed
      /\ SkipsWrite(profile0)' = SkipsWrite(profile0) /\ WriteOnly' = WriteOnly
  BY OutsideFacts, StillFacts DEF Bcu
<1>1. /\ UNCHANGED <<to_module, losses>> /\ to_bcu # <<>>
      /\ to_bcu' = Tail(to_bcu)
      /\ pending' = Append(pending, [profile |-> Head(to_bcu).tel.profile, age |-> 0])
  BY DEF BcuWrite, BcuStep, bounds
<1>2. Lone("write") /\ phase_secs = 0
  BY <1>1 DEF Arming
<1>3. Len(to_bcu) = 1 /\ to_bcu' = <<>> /\ Len(to_bcu') = 0
  BY <1>t, <1>1, <1>2, LoneFacts
<1>4. /\ Len(pending') = Len(pending) + 1
      /\ \A i \in 1..Len(pending) : pending'[i] = pending[i]
      /\ pending'[Len(pending) + 1].age = 0
  <2>1. pending \in Seq(Waiting)
    BY <1>t DEF BusTypes
  <2> QED BY <1>1, <2>1
<1>5. (Coming("echo")' <=> Coming("echo")) /\ Lead' = Lead
  BY <1>1, ComingSame DEF Lead
<1>6. Owed' = Owed /\ Owed = (Lead + Len(pending)) + 1
  BY <1>3, <1>4, <1>5, Counts DEF Owed
<1>7. ASSUME NEW i \in 1..Len(pending')
      PROVE  Elapsed <= Cost(Lead + (i - 1)) + Slack + pending'[i].age
  <2>1. CASE i \in 1..Len(pending)
    BY <1>4, <2>1 DEF Arming
  <2>2. CASE i = Len(pending) + 1
    <3>0. Elapsed + RetrySecs <= Cost(Owed) + Slack + 0
      BY <1>2 DEF Arming
    <3>1. /\ Lead + Len(pending) \in Nat /\ (i - 1) = Len(pending)
          /\ Elapsed + RetrySecs <= Cost(Owed) + Slack
      <4>1. Lead + Len(pending) \in Nat /\ (i - 1) = Len(pending)
        BY <2>2, Counts
      <4>2. Cost(Owed) \in Nat /\ Slack \in Nat
        BY Counts, Numbers
      <4> QED BY <3>0, <4>1, <4>2
    <3>2. /\ Cost(Owed) = Cost(Lead + Len(pending)) + RetrySecs
          /\ Cost(Lead + Len(pending)) \in Nat
      BY <1>6, <3>1, CostFacts
    <3>3. Elapsed \in Nat /\ RetrySecs \in Nat /\ Slack \in Nat
      BY Numbers
    <3>4. Elapsed <= Cost(Lead + Len(pending)) + Slack
      BY <3>1, <3>2, <3>3
    <3>5. Elapsed <= Cost(Lead + Len(pending)) + Slack + 0
      BY <3>2, <3>3, <3>4
    <3> QED BY <1>4, <2>2, <3>1, <3>5
  <2> QED BY <1>4, <2>1, <2>2, Counts
<1> QED BY <1>s, <1>1, <1>3, <1>5, <1>6, <1>7 DEF Arming, OnTime

LEMMA ArmingApplied ==
  ASSUME Typed, Typed', Timely, Arming, BcuApply
  PROVE  Arming'
<1>t. BusTypes
  BY DEF Typed
<1>s. /\ UNCHANGED <<phase, phase_secs>> /\ Elapsed' = Elapsed
      /\ SkipsWrite(profile0)' = SkipsWrite(profile0) /\ WriteOnly' = WriteOnly
  BY OutsideFacts, StillFacts DEF Bcu
<1>1. /\ UNCHANGED <<to_bcu, losses>> /\ pending # <<>>
      /\ pending' = Tail(pending) /\ Says("echo")
  BY <1>t, BcuVoice DEF BcuApply, bounds
<1>2. /\ Echoes(to_module)' = Echoes(to_module) + 1
  BY <1>t, <1>1, SaysFacts
<1>3. /\ Len(pending) \in Nat \ {0} /\ Len(pending') = Len(pending) - 1
      /\ \A i \in 1..Len(pending') : pending'[i] = pending[i + 1]
  BY <1>t, <1>1, TailElems DEF BusTypes
<1>4. Lead' = Lead + 1 /\ Owed' = Owed
  <2>1. /\ losses \in Nat /\ Echoes(to_module) \in Nat /\ Len(to_bcu) \in Nat
        /\ Lead \in Nat
    BY Counts, Numbers
  <2>2. Lead' = Lead + 1
    BY <1>1, <1>2, <2>1 DEF Lead
  <2>3. Owed' = Lead' + Len(to_bcu) + Len(pending')
    BY <1>1 DEF Owed
  <2> QED BY <1>3, <2>1, <2>2, <2>3 DEF Owed
<1>5. ASSUME NEW i \in 1..Len(pending')
      PROVE  Elapsed <= Cost(Lead' + (i - 1)) + Slack + pending'[i].age
  <2>1. i + 1 \in 1..Len(pending) /\ Lead' + (i - 1) = Lead + ((i + 1) - 1)
    BY <1>3, <1>4, Counts
  <2> QED BY <1>3, <2>1 DEF Arming
<1>6. Elapsed <= Cost(losses) + Late
  <2>1. CASE Coming("echo")
    BY <2>1 DEF Arming, OnTime
  <2>2. CASE ~Coming("echo")
    <3>1. Lead = losses
      BY <1>t, <2>2, ComingFacts, Numbers DEF Lead
    <3>2. 1 \in 1..Len(pending) /\ Lead + (1 - 1) = losses
      BY <1>3, <3>1, Numbers
    <3>3. Elapsed <= Cost(losses) + Slack + pending[1].age
      BY <3>2 DEF Arming
    <3>4. pending[1].age <= ApplyTicks /\ pending[1].age \in Nat
      <4>1. pending[1] \in Elems(pending)
        BY <3>2 DEF Elems
      <4> QED BY <3>2, <4>1, Counts DEF Timely, Ages
    <3>5. /\ Elapsed \in Nat /\ Cost(losses) \in Nat /\ Slack \in Nat
          /\ ApplyTicks \in Nat /\ Late = Slack + ApplyTicks
      BY Numbers
    <3> QED BY <3>3, <3>4, <3>5
  <2> QED BY <2>1, <2>2
<1>7. Lone("write")' <=> Lone("write")
  BY <1>1, OutSame
<1> QED BY <1>s, <1>1, <1>4, <1>5, <1>6, <1>7 DEF Arming, OnTime

LEMMA ArmingKept ==
  ASSUME Typed, Typed', Timely, Arming, Outside
  PROVE  Arming'
<1>t. BusTypes
  BY DEF Typed
<1>n. /\ Lead \in Nat /\ Owed \in Nat
      /\ Echoes(to_module) \in Nat /\ losses \in Nat
      /\ Len(pending) \in Nat /\ Len(to_bcu) \in Nat
  BY Counts, Numbers
<1>s. Unmoved
  BY OutsideFacts DEF Outside, Calm, Still
<1>1. CASE UNCHANGED <<to_bcu, pending, losses, to_module>>
  <2>1. /\ Lone("write")' <=> Lone("write")
        /\ Coming("echo")' <=> Coming("echo")
        /\ Lead' = Lead /\ Owed' = Owed
    BY <1>1, ComingSame, OutSame DEF Lead, Owed
  <2> QED BY <1>s, <1>1, <1>n, <2>1, ArmingGrows DEF Arming
<1>2. CASE Lose
  <2>1. losses' = losses + 1 /\ pending' = pending
    BY <1>2, OutsideFacts
  <2>2. CASE to_bcu # <<>> /\ to_bcu' = Tail(to_bcu) /\ UNCHANGED to_module
    <3>1. Lone("write") /\ to_bcu' = <<>> /\ Len(to_bcu) = 1 /\ Len(to_bcu') = 0
      BY <1>t, <2>2, LoneFacts DEF Arming
    <3>2. /\ Coming("echo")' <=> Coming("echo")
          /\ Echoes(to_module)' = Echoes(to_module)
      BY <2>2, ComingSame
    <3>3. Lead' = Lead + 1
      BY <1>n, <2>1, <3>2 DEF Lead
    <3>4. Owed' = Lead' + Len(to_bcu') + Len(pending)
      BY <2>1 DEF Owed
    <3>5. Owed' = Owed
      BY <1>n, <3>1, <3>3, <3>4 DEF Owed
    <3> QED BY <1>s, <1>n, <2>1, <3>1, <3>2, <3>3, <3>5, ArmingGrows
  <2>3. CASE to_module # <<>> /\ to_module' = Tail(to_module) /\ UNCHANGED to_bcu
    <3>1. /\ Coming("echo")' => Coming("echo")
          /\ Echoes(to_module)' \in Nat
          /\ Echoes(to_module)' + 1 >= Echoes(to_module)
      BY <1>t, <1>n, <2>3, ComingTaken
    <3>2. Lead' >= Lead /\ Owed' >= Owed
      BY <1>n, <2>1, <2>3, <3>1 DEF Lead, Owed
    <3>3. Lone("write")' <=> Lone("write")
      BY <2>3, OutSame
    <3> QED BY <1>s, <1>n, <2>1, <2>3, <3>1, <3>2, <3>3, ArmingGrows DEF Arming
  <2> QED BY <1>2, <2>2, <2>3, OutsideFacts
<1>3. CASE BcuAck \/ BcuBroadcast
  <2>1. UNCHANGED <<to_bcu, losses, pending>> /\ (Says("ack") \/ Says("other"))
    BY <1>t, <1>3, BcuVoice DEF BcuAck, BcuBroadcast, bounds
  <2>2. /\ Coming("echo")' <=> Coming("echo")
        /\ Echoes(to_module)' = Echoes(to_module)
    BY <1>t, <2>1, SaysFacts
  <2>3. Lead' = Lead /\ Owed' = Owed /\ (Lone("write")' <=> Lone("write"))
    BY <2>1, <2>2, OutSame DEF Lead, Owed
  <2> QED BY <1>s, <1>n, <2>1, <2>2, <2>3, ArmingGrows DEF Arming
<1>4. CASE BcuHandshake \/ BcuGet \/ BcuTrigger
  <2>1. to_bcu # <<>> /\ Head(to_bcu).tel.type # "write"
    BY <1>4 DEF BcuHandshake, BcuGet, BcuTrigger, BcuStep
  <2> QED BY <1>t, <2>1, LoneFacts DEF Arming
<1> QED BY <1>1, <1>2, <1>3, <1>4, ArmingWritten, ArmingApplied
        DEF Outside, Calm, Bcu

LEMMA AgesOutside ==
  ASSUME Typed, Ages, Outside
  PROVE  Ages'
<1>t. BusTypes
  BY DEF Typed
<1>1. /\ UNCHANGED <<phase, confirmed, error, wake_hold, phase_secs, awake>>
  BY OutsideFacts, StillFacts DEF Outside, Calm
<1>2. \A w \in Elems(pending)' : w.age <= ApplyTicks
  <2>0. Elems(pending)' = Elems(pending')
    BY DEF Elems
  <2>1. CASE pending' = pending
    BY <2>0, <2>1 DEF Ages
  <2>2. CASE BcuWrite
    <3>1. PICK w : w = [profile |-> Head(to_bcu).tel.profile, age |-> 0]
      OBVIOUS
    <3>2. w \in Waiting
      BY <1>t, <2>2, <3>1, BcuStepFacts
         DEF BcuWrite, Entries, Sendable, Waiting
    <3>3. w.age <= ApplyTicks
      BY <3>1, BoundsAssumption
    <3>4. Elems(pending') = Elems(pending) \cup {w}
      BY <1>t, <2>2, <3>1, <3>2, AppendElems DEF BusTypes, BcuWrite
    <3> QED BY <2>0, <3>3, <3>4 DEF Ages
  <2>3. CASE BcuApply
    <3>1. Elems(pending') \subseteq Elems(pending)
      BY <1>t, <2>3, TailElems DEF BusTypes, BcuApply
    <3> QED BY <2>0, <3>1 DEF Ages
  <2> QED BY <2>1, <2>2, <2>3, OutsideFacts
          DEF Outside, Calm, Bcu, BcuHandshake, BcuAck, BcuGet, BcuTrigger,
              BcuBroadcast
<1> QED BY <1>1, <1>2 DEF Ages

LEMMA TimelyOutside ==
  ASSUME Typed, Typed', Timely, Outside
  PROVE  Timely'
<1>1. /\ phase' = phase /\ AwaitsWriteEcho' = AwaitsWriteEcho
      /\ AwaitsOpMode' = AwaitsOpMode
  BY OutsideFacts, StillFacts DEF Outside, Calm
<1> QED BY <1>1, AgesOutside, WakingKept, OpeningKept, ReadingKept, ArmingKept,
           ConfirmingKept DEF Timely

\* With no command in flight, or one that has its verdict, only Ages says
\* anything.
LEMMA AgesSuffice ==
  ASSUME Ages', phase' \in {"CP_IDLE", "CP_DONE"}
  PROVE  Timely'
BY DEF Timely, AwaitsWriteEcho, AwaitsOpMode

LEMMA TimelyBetween ==
  ASSUME Typed, Timely, UserAbort \/ BcuSleep
  PROVE  Timely'
<1>1. wake_hold' = 0 /\ UNCHANGED <<confirmed, error, phase_secs, pending>>
  BY DEF UserAbort, Abort, BcuSleep, Settled, vars, bcu
<1>2. phase' = "CP_IDLE" \/ (phase' = phase /\ phase \in {"CP_IDLE", "CP_DONE"})
  BY DEF UserAbort, Abort, BcuSleep, Settled, vars, Typed, IInv, BridgeHeld
<1>3. Ages'
  BY <1>1, <1>2 DEF Timely, Ages, Elems
<1> QED BY <1>2, <1>3, AgesSuffice

LEMMA TimelyIssue ==
  ASSUME ~Overlap, Typed, Typed', Issue
  PROVE  Timely'
<1>1. /\ to_bcu' = <<>> /\ to_module' = <<>> /\ pending' = <<>>
      /\ channel' # "acking" /\ awake' /\ beat'
  BY DEF Issue, Settled
<1>2. /\ phase' = "CP_WAKE" /\ ~confirmed' /\ ~have_profile0' /\ phase_secs' = 0
      /\ wake_hold' = WakeSecs
  BY DEF Issue, Climate, Charge, SetChargeCurrent, Begin, ClearCommand
<1>3. Elems(to_module)' = {} /\ Elems(pending)' = {}
  BY <1>1, EmptyElems DEF Elems
<1>4. Ages'
  BY <1>1, <1>2, <1>3, SecsAssumption DEF Ages
<1>5. OnTime(0)'
  <2>1. losses' \in Nat
    BY NextCounts
  <2>2. Cost(losses') \in Nat /\ Elapsed' = 0
    BY <1>2, <2>1, CostFacts, SecsAssumption DEF Elapsed
  <2> QED BY <2>2 DEF OnTime
<1>6. Waking'
  BY <1>1, <1>2, <1>3, <1>5 DEF Waking, MayBeHeartbeat, Coming
<1> QED BY <1>2, <1>4, <1>6 DEF Timely, AwaitsWriteEcho, AwaitsOpMode

\* A telegram of this type was taken by the driver, or refused.
TriedType(type) ==
  \/ sent' # Nothing /\ sent'.type = type
  \/ sent' = Nothing /\ tx_fail'

LEMMA TriedTypes ==
  /\ Tried(Handshake) => TriedType("handshake")
  /\ Tried(GetArray) => TriedType("get")
  /\ \A on : Tried(Trigger(on)) => TriedType("trigger")
  /\ \A p : Tried(Write(p)) => TriedType("write")
BY TelegramFields DEF Tried, TriedType

\* What a second in which the command is not over finds and leaves.
LEMMA TickFrame ==
  ASSUME Typed, Timely, Tick, wake_hold > 1, phase \notin {"CP_IDLE", "CP_DONE"}
  PROVE  /\ to_bcu = <<>> /\ channel # "acking" /\ channel' = channel /\ ~beat
         /\ beat' /\ to_module = <<>> /\ UNCHANGED to_module
         /\ \A type : ~Coming(type) /\ ~Coming(type)'
         /\ Elapsed' = Elapsed + 1
         /\ SameRecord /\ SkipsWrite(profile0)' = SkipsWrite(profile0)
         /\ WriteOnly' = WriteOnly /\ have_profile0' = have_profile0
         /\ ~confirmed /\ phase_secs < RetrySecs
         /\ \/ /\ ~RetryDue /\ phase_secs' = phase_secs + 1 /\ sent' = Nothing
               /\ phase' = phase
            \/ /\ RetryDue /\ phase_secs + 1 = RetrySecs /\ phase_secs' = 0
               /\ \E next \in Phases : Resend(next) /\ phase' = next
<1>t. /\ BusTypes /\ wake_hold \in Nat /\ phase_secs \in Nat /\ WakeSecs \in Nat
      /\ RetrySecs \in Nat \ {0}
  BY Numbers, SecsAssumption DEF Typed
<1>0. TickActive(awake) /\ BusQuiet
  BY <1>t DEF Tick, Ticker1, TickIdle
<1>1. awake /\ ~confirmed /\ phase_secs < RetrySecs
  <2>1. ~confirmed
    BY <1>t DEF Typed, IInv, Progress
  <2> QED BY <1>t, <2>1 DEF Timely, Ages
<1>2. /\ to_bcu = <<>> /\ to_module = <<>> /\ channel # "acking" /\ ~beat
      /\ beat' /\ UNCHANGED <<to_module, channel>>
  BY <1>0, <1>1 DEF BusQuiet, Tick
<1>3. \A type : ~Coming(type) /\ ~Coming(type)'
  BY <1>t, <1>2, ComingFacts, ComingSame
<1>4. Elapsed' = Elapsed + 1
  BY <1>t, <1>0 DEF TickActive, CountDown, Elapsed
<1>5. SameRecord
  BY <1>0 DEF TickActive, SameRecord, command
<1>6. \/ /\ ~RetryDue /\ phase_secs' = phase_secs + 1 /\ sent' = Nothing
         /\ phase' = phase
      \/ /\ RetryDue /\ phase_secs + 1 = RetrySecs /\ phase_secs' = 0
         /\ \E next \in Phases : Resend(next) /\ phase' = next
  <2>1. PICK next \in Phases : Backstop(next) /\ phase' = next
    BY <1>t, <1>0 DEF TickActive
  <2>2. RetryDue => phase_secs + 1 = RetrySecs
    BY <1>t, <1>1 DEF RetryDue
  <2> QED BY <2>1, <2>2 DEF Backstop
<1> QED BY <1>1, <1>2, <1>3, <1>4, <1>5, <1>6, SameRecordFacts DEF SameRecord

\* Where what a second sends again ends up.
LEMMA TickSent ==
  ASSUME Typed, Typed', Tick, to_bcu = <<>>, wake_hold > 1,
         phase \notin {"CP_IDLE", "CP_WAKE", "CP_DONE"}
  PROVE  /\ ~RetryDue /\ sent' = Nothing => to_bcu' = <<>> /\ losses' = losses
         /\ \A type : RetryDue /\ TriedType(type) =>
              \/ losses' = losses /\ Lone(type)' /\ InFlight(type)'
              \/ losses' = losses + 1 /\ to_bcu' = <<>>
<1>0. /\ Put /\ commands' = commands
      /\ CountLoss(wake_hold > 0 /\ RetryDue /\
                   Refused(phase \notin {"CP_IDLE", "CP_WAKE", "CP_DONE"}))
  BY DEF Tick
<1>1. CASE ~RetryDue /\ sent' = Nothing
  BY <1>0, <1>1 DEF CountLoss, Put
<1>2. ASSUME NEW type, RetryDue, TriedType(type)
      PROVE  \/ losses' = losses /\ Lone(type)' /\ InFlight(type)'
             \/ losses' = losses + 1 /\ to_bcu' = <<>>
  <2>1. CASE sent' = Nothing /\ tx_fail'
    <3>1. wake_hold > 0
      BY Numbers
    <3>2. losses' = losses + 1
      BY <1>0, <1>2, <2>1, <3>1 DEF CountLoss, Refused
    <3> QED BY <1>0, <2>1, <3>2 DEF Put
  <2>2. CASE sent' # Nothing /\ sent'.type = type
    <3>1. losses' = losses
      BY <1>0, <2>2 DEF CountLoss, Refused
    <3>2. Lone(type)'
      BY <1>0, <2>2, PutLone
    <3> QED BY <1>0, <2>2, <3>1, <3>2, PutInFlightNow
  <2> QED BY <1>2, <2>1, <2>2 DEF TriedType
<1> QED BY <1>1, <1>2

LEMMA AgesTick ==
  ASSUME Typed, Timely, Tick
  PROVE  Ages'
<1>t. /\ BusTypes /\ wake_hold \in Nat /\ phase_secs \in Nat /\ BusQuiet
      /\ Ages /\ ApplyTicks \in Nat /\ Late \in Nat /\ RetrySecs \in Nat \ {0}
  BY Numbers DEF Typed, Tick, Timely
<1>1. \A w \in Elems(pending)' : w.age <= ApplyTicks
  <2>1. pending \in Seq(Waiting) /\ Len(pending) \in Nat
    BY <1>t DEF BusTypes
  <2>2. /\ pending' = [i \in 1..Len(pending) |->
                         [pending[i] EXCEPT !.age = @ + 1]]
        /\ Len(pending') = Len(pending)
    BY <2>1 DEF Tick
  <2> SUFFICES ASSUME NEW w \in Elems(pending)' PROVE w.age <= ApplyTicks
    OBVIOUS
  <2>3. PICK i \in 1..Len(pending) : w = pending'[i]
    BY <2>2 DEF Elems
  <2>4. pending[i] \in Waiting /\ w = [pending[i] EXCEPT !.age = @ + 1]
    BY <2>1, <2>2, <2>3
  <2>5. pending[i].age \in Nat /\ w.age = pending[i].age + 1
    BY <2>4 DEF Waiting
  <2>6. pending[i].age < ApplyTicks
    BY <1>t, <2>1 DEF BusQuiet
  <2> QED BY <1>t, <2>5, <2>6
<1>2. CASE TickIdle(awake)
  BY <1>t, <1>1, <1>2 DEF Tick, TickIdle, Ages
<1>3. CASE TickActive(awake)
  <2>1. UNCHANGED <<confirmed, error, awake>> /\ wake_hold > 0
    BY <1>3 DEF Tick, TickActive
  <2>2. ~confirmed => phase_secs' < RetrySecs
    BY <1>t, <1>3 DEF TickActive, Backstop, RetryDue
  <2>3. phase' = "CP_DONE" => phase = "CP_DONE"
    <3>1. PICK next \in Phases :
            Backstop(next) /\ phase' = (IF wake_hold = 1 THEN "CP_IDLE" ELSE next)
      BY <1>3 DEF TickActive
    <3>2. next = "CP_DONE" => phase = "CP_DONE"
      BY <3>1 DEF Backstop, Resend, ArmAndAdvance, ResendArm
    <3> QED BY <3>1, <3>2
  <2> QED BY <1>t, <1>1, <2>1, <2>2, <2>3 DEF Ages
<1> QED BY <1>2, <1>3 DEF Tick, Ticker1

LEMMA TickWaking ==
  ASSUME Typed, Timely, Tick, wake_hold > 1, phase = "CP_WAKE"
  PROVE  phase' = "CP_WAKE" /\ Waking'
<1>1. /\ to_bcu = <<>> /\ channel # "acking" /\ channel' = channel /\ ~beat
      /\ beat' /\ to_module = <<>> /\ \A type : ~Coming(type)'
      /\ Elapsed' = Elapsed + 1 /\ have_profile0' = have_profile0
  BY TickFrame
<1>2. sent' = Nothing /\ phase' = phase
  BY TickFrame, ResendOutcome
<1>3. to_bcu' = <<>> /\ losses' = losses
  BY <1>1, <1>2 DEF Tick, Put, CountLoss, Refused
<1>4. ~have_profile0 /\ Elapsed + RetrySecs <= Cost(losses)
  BY <1>1 DEF Timely, Waking
<1> QED BY <1>1, <1>2, <1>3, <1>4, Numbers DEF Waking, MayBeHeartbeat, OnTime

LEMMA TickOpening ==
  ASSUME Typed, Typed', Timely, Tick, wake_hold > 1, phase = "CP_HANDSHAKE"
  PROVE  phase' = "CP_HANDSHAKE" /\ Opening'
<1>1. /\ to_bcu = <<>> /\ channel # "acking" /\ channel' = channel
      /\ \A type : ~Coming(type) /\ ~Coming(type)'
      /\ Elapsed' = Elapsed + 1 /\ have_profile0' = have_profile0
  BY TickFrame
<1>h. MayBeHeartbeat'
  BY <1>1 DEF MayBeHeartbeat
<1>2. ~have_profile0 /\ Elapsed + RetrySecs <= Cost(losses) + phase_secs
  <2>1. ~Lone("handshake")
    BY <1>1, LoneFacts DEF Typed
  <2> QED BY <1>1, <2>1, Numbers DEF Timely, Opening, Overdue
<1>n. /\ Elapsed' = Elapsed + 1 /\ Elapsed \in Nat /\ RetrySecs \in Nat
      /\ phase_secs \in Nat /\ Cost(losses) \in Nat
      /\ Cost(losses + 1) = Cost(losses) + RetrySecs
  BY <1>1, Numbers
<1>3. CASE /\ ~RetryDue /\ phase_secs' = phase_secs + 1 /\ sent' = Nothing
           /\ phase' = phase
  <2>1. to_bcu' = <<>> /\ losses' = losses
    BY <1>1, <1>3, TickSent
  <2>2. Overdue(0)'
    BY <1>n, <1>2, <1>3, <2>1 DEF Overdue
  <2> QED BY <1>1, <1>h, <1>2, <1>3, <2>1, <2>2 DEF Opening
<1>4. CASE /\ RetryDue /\ phase_secs + 1 = RetrySecs /\ phase_secs' = 0
           /\ \E next \in Phases : Resend(next) /\ phase' = next
  <2>1. phase' = phase /\ TriedType("handshake")
    BY <1>4, ResendOutcome, TriedTypes
  <2>2. CASE losses' = losses /\ Lone("handshake")'
    <3>1. OnTime(0)'
      BY <1>n, <1>2, <1>4, <2>2 DEF OnTime
    <3> QED BY <1>1, <1>h, <1>2, <1>4, <2>1, <2>2, <3>1 DEF Opening
  <2>3. CASE losses' = losses + 1 /\ to_bcu' = <<>>
    <3>1. Overdue(0)'
      BY <1>n, <1>2, <1>4, <2>3 DEF Overdue
    <3> QED BY <1>1, <1>h, <1>2, <1>4, <2>1, <2>3, <3>1 DEF Opening
  <2> QED BY <1>1, <1>4, <2>1, <2>2, <2>3, TickSent
<1> QED BY <1>3, <1>4, TickFrame

LEMMA TickConfirming ==
  ASSUME Typed, Typed', Timely, Tick, wake_hold > 1, AwaitsOpMode
  PROVE  phase' = "CP_CONFIRM" /\ ~WriteOnly' /\ Confirming'
<1>0. phase = "CP_CONFIRM" /\ ~WriteOnly /\ Confirming
  BY DEF AwaitsOpMode, Timely
<1>1. /\ to_bcu = <<>> /\ \A type : ~Coming(type)
      /\ Elapsed' = Elapsed + 1 /\ WriteOnly' = WriteOnly
  BY <1>0, TickFrame
<1>2. Elapsed + RetrySecs <= Cost(losses) + Late + phase_secs
  <2>1. ~InFlight("trigger")
    BY <1>1, EmptyElems DEF InFlight
  <2> QED BY <1>0, <1>1, <2>1 DEF Confirming, Overdue
<1>n. /\ Elapsed' = Elapsed + 1 /\ Elapsed \in Nat /\ RetrySecs \in Nat
      /\ ApplyTicks \in Nat /\ Late \in Nat /\ phase_secs \in Nat /\ Cost(losses) \in Nat
      /\ Cost(losses + 1) = Cost(losses) + RetrySecs
  BY <1>1, Numbers
<1>3. CASE /\ ~RetryDue /\ phase_secs' = phase_secs + 1 /\ sent' = Nothing
           /\ phase' = phase
  <2>1. losses' = losses
    BY <1>0, <1>1, <1>3, TickSent
  <2>2. Overdue(Late)'
    BY <1>n, <1>2, <1>3, <2>1 DEF Overdue
  <2> QED BY <1>0, <1>1, <1>3, <2>2 DEF Confirming
<1>4. CASE /\ RetryDue /\ phase_secs + 1 = RetrySecs /\ phase_secs' = 0
           /\ \E next \in Phases : Resend(next) /\ phase' = next
  <2>1. phase' = phase /\ TriedType("trigger")
    BY <1>4, ResendOutcome, TriedTypes
  <2>2. CASE losses' = losses /\ InFlight("trigger")'
    <3>1. OnTime(Late)'
      BY <1>n, <1>2, <1>4, <2>2 DEF OnTime
    <3> QED BY <1>0, <1>1, <2>1, <2>2, <3>1 DEF Confirming
  <2>3. CASE losses' = losses + 1
    <3>1. Overdue(Late)'
      BY <1>n, <1>2, <1>4, <2>3 DEF Overdue
    <3> QED BY <1>0, <1>1, <2>1, <3>1 DEF Confirming
  <2> QED BY <1>0, <1>1, <1>4, <2>1, <2>2, <2>3, TickSent
<1> QED BY <1>0, <1>3, <1>4, TickFrame

\* One phase's bound is all that Timely asks for besides Ages.
LEMMA OneBound ==
  ASSUME Ages',
         \/ phase' \in {"CP_IDLE", "CP_DONE"}
         \/ phase' = "CP_WAKE" /\ Waking'
         \/ phase' = "CP_HANDSHAKE" /\ Opening'
         \/ phase' = "CP_PROFILE" /\ Reading'
         \/ AwaitsWriteEcho' /\ Arming'
         \/ AwaitsOpMode' /\ Confirming'
  PROVE  Timely'
<1>1. /\ AwaitsWriteEcho' => phase' = "CP_ARM_WAIT" \/ (phase' = "CP_CONFIRM" /\ WriteOnly')
      /\ AwaitsOpMode' => phase' = "CP_CONFIRM" /\ ~WriteOnly'
  BY DEF AwaitsWriteEcho, AwaitsOpMode
<1> QED BY <1>1 DEF Timely

\* The first write of a command, sent in time: it is the one step not yet paid
\* for.
FirstWriteSent ==
  /\ Typed /\ OnTime(Slack) /\ Lone("write") /\ phase_secs = 0
  /\ ~SkipsWrite(profile0) /\ (phase = "CP_ARM_WAIT" => ~WriteOnly)

LEMMA FirstWrite == FirstWriteSent => Arming
<1> SUFFICES ASSUME Typed, OnTime(Slack), Lone("write"), phase_secs = 0,
                    ~SkipsWrite(profile0), phase = "CP_ARM_WAIT" => ~WriteOnly
             PROVE  Arming
  BY DEF FirstWriteSent
<1>1. /\ Elapsed <= Cost(losses) + Slack /\ Elapsed \in Nat /\ RetrySecs \in Nat
      /\ Slack \in Nat /\ Cost(losses) \in Nat
  BY Numbers DEF OnTime
<1>2. Len(to_bcu) = 1 /\ losses \in Nat /\ Lead \in Nat /\ Lead >= losses
  BY LoneFacts, Counts, Numbers DEF Typed, Lead
<1>3. Elapsed + RetrySecs <= Cost(Owed) + Slack + phase_secs
  <2>1. losses + 1 \in Nat /\ Owed \in Nat /\ losses + 1 <= Owed
    BY <1>2, Counts DEF Owed
  <2>2. Cost(losses + 1) <= Cost(Owed) /\ Cost(Owed) \in Nat
    BY <2>1, CostMonotone, CostFacts
  <2>3. Cost(losses + 1) = Cost(losses) + RetrySecs /\ Cost(losses) \in Nat
    BY Numbers
  <2>4. Elapsed + RetrySecs <= Cost(Owed) + Slack
    BY <1>1, <2>2, <2>3
  <2>5. Elapsed + RetrySecs <= Cost(Owed) + Slack + 0
    BY <1>1, <2>2, <2>4
  <2> QED BY <2>5
<1>4. ASSUME NEW i \in 1..Len(pending)
      PROVE  Elapsed <= Cost(Lead + (i - 1)) + Slack + pending[i].age
  <2>1. Lead + (i - 1) \in Nat /\ losses <= Lead + (i - 1)
    BY <1>2, Counts
  <2>2. Cost(losses) <= Cost(Lead + (i - 1)) /\ Cost(losses) \in Nat
    BY <1>2, <2>1, CostMonotone, Numbers
  <2>3. pending[i].age \in Nat /\ Cost(Lead + (i - 1)) \in Nat
    BY Counts
  <2> QED BY <1>1, <2>2, <2>3
<1>5. OnTime(Late)
  <2>1. Late = Slack + ApplyTicks /\ ApplyTicks \in Nat
    BY Numbers
  <2> QED BY <1>1, <2>1 DEF OnTime
<1> QED BY <1>3, <1>4, <1>5 DEF Arming

LEMMA FirstWriteNow == FirstWriteSent' => Arming'
BY FirstWrite, PTL

LEMMA TickReading ==
  ASSUME Typed, Typed', Timely, Tick, wake_hold > 1, phase = "CP_PROFILE"
  PROVE  \/ phase' = "CP_PROFILE" /\ Reading'
         \/ AwaitsWriteEcho' /\ Arming'
         \/ AwaitsOpMode' /\ Confirming'
<1>1. /\ to_bcu = <<>> /\ channel # "acking" /\ channel' = channel
      /\ \A type : ~Coming(type) /\ ~Coming(type)'
      /\ Elapsed' = Elapsed + 1 /\ have_profile0' = have_profile0
      /\ WriteOnly' = WriteOnly
      /\ SkipsWrite(profile0)' = SkipsWrite(profile0)
  BY TickFrame
<1>2. Deaf \/ (channel = "open" /\ Overdue(Slack))
  <2>1. \A type : ~Lone(type)
    BY <1>1, LoneFacts DEF Typed
  <2>2. ~Pair("handshake", "get")
    BY <1>1, PairFacts DEF Typed
  <2> QED BY <1>1, <2>1, <2>2 DEF Timely, Reading, Early, Unready, Fetching
<1>n. /\ Elapsed' = Elapsed + 1 /\ Elapsed \in Nat /\ RetrySecs \in Nat
      /\ Slack \in Nat /\ ApplyTicks \in Nat /\ Late = Slack + ApplyTicks
      /\ Late \in Nat /\ phase_secs \in Nat /\ Cost(losses) \in Nat
      /\ Cost(losses + 1) = Cost(losses) + RetrySecs /\ losses \in Nat
  BY <1>1, Numbers
<1>3. CASE /\ ~RetryDue /\ phase_secs' = phase_secs + 1 /\ sent' = Nothing
           /\ phase' = phase
  <2>1. to_bcu' = <<>> /\ losses' = losses
    BY <1>1, <1>3, TickSent
  <2>2. CASE Deaf
    BY <1>1, <1>3, <2>1, <2>2 DEF Deaf, Reading
  <2>3. CASE channel = "open" /\ Overdue(Slack)
    <3>1. Overdue(Slack)'
      BY <1>n, <1>3, <2>1, <2>3 DEF Overdue
    <3> QED BY <1>1, <1>3, <2>1, <2>3, <3>1 DEF Fetching, Reading
  <2> QED BY <1>2, <2>2, <2>3
<1>4. CASE /\ RetryDue /\ phase_secs + 1 = RetrySecs /\ phase_secs' = 0
           /\ \E next \in Phases : Resend(next) /\ phase' = next
  <2>0. ASSUME ~have_profile0
        PROVE  /\ phase' = phase
               /\ \/ losses' = losses /\ Lone("get")'
                  \/ losses' = losses + 1 /\ to_bcu' = <<>>
    <3>1. phase' = phase /\ TriedType("get")
      BY <1>4, <2>0, ResendOutcome, TriedTypes
    <3> QED BY <1>1, <1>4, <3>1, TickSent
  <2>d. CASE Deaf
    <3>1. /\ Heartbeats /\ losses > 0 /\ channel = "closed" /\ ~have_profile0
      BY <2>d DEF Deaf
    <3>2. losses' > 0 /\ (to_bcu' = <<>> \/ Lone("get")')
      BY <1>n, <2>0, <3>1
    <3> QED BY <1>1, <2>0, <3>1, <3>2 DEF Deaf, Reading
  <2>o. CASE channel = "open" /\ Overdue(Slack)
    <3>1. losses' = losses => OnTime(Slack)' /\ OnTime(Late)'
      <4>1. Elapsed + 1 <= Cost(losses) + Slack
        BY <1>n, <1>4, <2>o DEF Overdue
      <4> QED BY <1>n, <4>1 DEF OnTime
    <3>2. losses' = losses + 1 => Overdue(Slack)' /\ Overdue(Late)'
      <4>1. Elapsed + 1 <= Cost(losses) + Slack
        BY <1>n, <1>4, <2>o DEF Overdue
      <4> QED BY <1>n, <1>4, <4>1 DEF Overdue
    <3>3. CASE ~have_profile0
      BY <1>1, <2>o, <2>0, <3>1, <3>2, <3>3 DEF Fetching, Reading
    <3>4. CASE have_profile0 /\ SkipsWrite(profile0)
      <4>1. phase' = "CP_CONFIRM" /\ ~WriteOnly /\ TriedType("trigger")
        BY <1>4, <3>4, ResendOutcome, TriedTypes
      <4>2. \/ losses' = losses /\ InFlight("trigger")'
            \/ losses' = losses + 1
        BY <1>1, <1>4, <4>1, TickSent
      <4> QED BY <1>1, <3>1, <3>2, <4>1, <4>2 DEF AwaitsOpMode, Confirming
    <3>5. CASE have_profile0 /\ ~SkipsWrite(profile0)
      <4>1. phase' = AfterWrite /\ TriedType("write")
        BY <1>4, <3>5, ResendOutcome, TriedTypes
      <4>2. CASE sent' = Nothing
        <5>1. to_bcu' = <<>> /\ ~Lone("write")'
          BY <1>1, <4>2 DEF Tick, Put, Lone
        <5>2. losses' = losses + 1
          BY <1>1, <1>4, <4>1, <5>1, TickSent
        <5> QED BY <1>1, <2>o, <3>2, <3>5, <4>1, <4>2, <5>1, <5>2
                DEF AfterWrite, Fetching, Reading
      <4>3. CASE sent' # Nothing
        <5>1. Lone("write")' /\ losses' = losses
          <6>1. sent'.type = "write"
            BY <4>1, <4>3 DEF TriedType
          <6>2. Lone("write")'
            BY <1>1, <4>3, <6>1, PutLone DEF Tick
          <6> QED BY <4>3, <6>2 DEF Tick, CountLoss, Refused
        <5>2. AwaitsWriteEcho' /\ (phase' = "CP_ARM_WAIT" => ~WriteOnly')
          BY <1>1, <4>1, <4>3 DEF AfterWrite, AwaitsWriteEcho
        <5> QED BY <1>1, <1>4, <3>1, <3>5, <5>1, <5>2, FirstWriteNow
                DEF FirstWriteSent
      <4> QED BY <4>2, <4>3
    <3> QED BY <3>3, <3>4, <3>5
  <2> QED BY <1>2, <2>d, <2>o
<1> QED BY <1>3, <1>4, TickFrame

\* A second passes over the writes the BCU holds.
LEMMA PendingAges ==
  ASSUME Typed, Tick
  PROVE  /\ Len(pending') = Len(pending)
         /\ \A i \in 1..Len(pending) : pending'[i].age = pending[i].age + 1
<1>1. pending \in Seq(Waiting) /\ Len(pending) \in Nat
  BY DEF Typed, BusTypes
<1>2. pending' = [i \in 1..Len(pending) |-> [pending[i] EXCEPT !.age = @ + 1]]
  BY <1>1 DEF Tick
<1>3. ASSUME NEW i \in 1..Len(pending)
      PROVE  pending'[i].age = pending[i].age + 1
  <2>1. pending[i] \in Waiting /\ pending'[i] = [pending[i] EXCEPT !.age = @ + 1]
    BY <1>1, <1>2, <1>3
  <2> QED BY <2>1 DEF Waiting
<1> QED BY <1>1, <1>2, <1>3

LEMMA TickArming ==
  ASSUME Typed, Typed', Timely, Tick, wake_hold > 1, AwaitsWriteEcho
  PROVE  AwaitsWriteEcho' /\ Arming'
<1>0. Arming /\ phase \in {"CP_ARM_WAIT", "CP_CONFIRM"}
  BY DEF Timely, AwaitsWriteEcho
<1>1. /\ to_bcu = <<>> /\ \A type : ~Coming(type) /\ ~Coming(type)'
      /\ UNCHANGED to_module /\ Elapsed' = Elapsed + 1
      /\ WriteOnly' = WriteOnly
      /\ SkipsWrite(profile0)' = SkipsWrite(profile0)
  BY <1>0, TickFrame
<1>2. Echoes(to_module) = 0 /\ Echoes(to_module)' = 0
  BY <1>1, ComingFacts, ComingSame DEF Typed
<1>3. /\ losses \in Nat /\ Lead = losses /\ Lead' = losses' /\ Lead' \in Nat
  BY <1>2, Numbers, NextCounts DEF Lead
<1>4. /\ Len(pending') = Len(pending) /\ Len(pending) \in Nat
      /\ \A i \in 1..Len(pending) : pending'[i].age = pending[i].age + 1
  BY PendingAges, Counts
<1>5. Owed = losses + Len(pending)
  <2>1. Len(to_bcu) = 0
    BY <1>1
  <2> QED BY <1>3, <1>4, <2>1 DEF Owed
<1>6. Owed' = losses' + Len(to_bcu') + Len(pending)
  BY <1>3, <1>4 DEF Owed
<1>7. Elapsed + RetrySecs <= Cost(Owed) + Slack + phase_secs
  BY <1>0 DEF Arming
<1>n. /\ Elapsed' = Elapsed + 1 /\ Elapsed \in Nat /\ RetrySecs \in Nat
      /\ phase_secs \in Nat /\ Cost(Owed) \in Nat /\ Slack \in Nat
      /\ Cost(Owed + 1) = Cost(Owed) + RetrySecs
  BY <1>1, Numbers, Counts
<1>8. phase' = phase
      /\ (to_bcu' = <<>> \/ (Lone("write")' /\ phase_secs' = 0))
      /\ losses' >= losses
      /\ Elapsed' + RetrySecs <= Cost(Owed') + Slack + phase_secs'
  <2>1. CASE /\ ~RetryDue /\ phase_secs' = phase_secs + 1 /\ sent' = Nothing
             /\ phase' = phase
    <3>1. to_bcu' = <<>> /\ losses' = losses
      BY <1>0, <1>1, <2>1, TickSent
    <3>2. Owed' = Owed
      <4>1. Len(to_bcu') = 0
        BY <3>1
      <4>2. Owed' = losses + 0 + Len(pending)
        BY <1>6, <3>1, <4>1
      <4> QED BY <1>3, <1>4, <1>5, <4>2
    <3>3. Elapsed' + RetrySecs <= Cost(Owed) + Slack + phase_secs'
      BY <1>n, <1>7, <2>1
    <3> QED BY <1>3, <2>1, <3>1, <3>2, <3>3
  <2>2. CASE /\ RetryDue /\ phase_secs + 1 = RetrySecs /\ phase_secs' = 0
             /\ \E next \in Phases : Resend(next) /\ phase' = next
    <3>1. phase' = phase /\ TriedType("write")
      BY <1>0, <2>2, ResendOutcome, TriedTypes DEF Arming
    <3>2. \/ losses' = losses /\ Lone("write")'
          \/ losses' = losses + 1 /\ to_bcu' = <<>>
      BY <1>0, <1>1, <2>2, <3>1, TickSent
    <3>3. Owed' = Owed + 1
      <4>1. CASE losses' = losses /\ Lone("write")'
        <5>1. Len(to_bcu') = 1
          BY <4>1 DEF Lone
        <5>2. Owed' = losses + 1 + Len(pending)
          BY <1>6, <4>1, <5>1
        <5> QED BY <1>3, <1>4, <1>5, <5>2
      <4>2. CASE losses' = losses + 1 /\ to_bcu' = <<>>
        <5>1. Len(to_bcu') = 0
          BY <4>2
        <5>2. Owed' = (losses + 1) + 0 + Len(pending)
          BY <1>6, <4>2, <5>1
        <5> QED BY <1>3, <1>4, <1>5, <5>2
      <4> QED BY <3>2, <4>1, <4>2
    <3>4. Elapsed' + RetrySecs <= Cost(Owed + 1) + Slack + phase_secs'
      BY <1>n, <1>7, <2>2
    <3> QED BY <1>3, <2>2, <3>1, <3>2, <3>3, <3>4
  <2> QED BY <1>0, <2>1, <2>2, TickFrame
<1>9. ASSUME NEW i \in 1..Len(pending)
      PROVE  Elapsed' <= Cost(Lead' + (i - 1)) + Slack + pending'[i].age
  <2>1. PICK lead \in Nat : lead = Lead'
    BY <1>3
  <2> DEFINE m == Lead + (i - 1)
             n == lead + (i - 1)
  <2>2. m \in Nat /\ n \in Nat /\ m <= n
    <3>1. Lead \in Nat /\ lead \in Nat /\ Lead <= lead /\ i \in Nat /\ i >= 1
      BY <1>3, <1>4, <1>8, <2>1
    <3> QED BY <3>1
  <2>3. Elapsed <= Cost(m) + Slack + pending[i].age
    BY <1>0 DEF Arming
  <2>4. pending[i].age \in Nat
    BY Counts
  <2> HIDE DEF m, n
  <2>5. Cost(m) <= Cost(n) /\ Cost(m) \in Nat /\ Cost(n) \in Nat
    BY <2>2, CostMonotone, CostFacts
  <2>6. Elapsed + 1 <= Cost(n) + Slack + (pending[i].age + 1)
    <3>1. Elapsed \in Nat /\ Slack \in Nat
      BY Numbers
    <3> QED BY <2>3, <2>4, <2>5, <3>1
  <2> QED BY <1>1, <1>4, <2>1, <2>6 DEF n
<1>10. AwaitsWriteEcho'
  BY <1>1, <1>8 DEF AwaitsWriteEcho
<1>11. phase' = "CP_ARM_WAIT" => ~WriteOnly'
  BY <1>0, <1>1, <1>8 DEF Arming
<1>12. ~SkipsWrite(profile0)'
  BY <1>0, <1>1 DEF Arming
<1> QED BY <1>1, <1>4, <1>8, <1>9, <1>10, <1>11, <1>12 DEF Arming

LEMMA TimelyTick ==
  ASSUME Typed, Typed', Timely, Tick
  PROVE  Timely'
<1>0. Ages' /\ wake_hold \in Nat /\ phase \in Phases
  BY AgesTick, Numbers DEF Typed, IInv, TypeOK
<1>1. CASE TickIdle(awake)
  <2>1. phase' = phase /\ phase \in {"CP_IDLE", "CP_DONE"}
    BY <1>1 DEF TickIdle, Typed, IInv, BridgeHeld
  <2> QED BY <1>0, <2>1, OneBound
<1>2. CASE TickActive(awake)
  <2>1. CASE wake_hold = 1
    BY <1>0, <1>2, <2>1, OneBound DEF TickActive
  <2>2. CASE phase = "CP_DONE"
    <3>1. phase' \in {"CP_IDLE", "CP_DONE"}
      <4>1. PICK next \in Phases :
              Backstop(next) /\ phase' = (IF wake_hold = 1 THEN "CP_IDLE" ELSE next)
        BY <1>2 DEF TickActive
      <4>2. next = "CP_DONE"
        BY <2>2, <4>1, ResendOutcome DEF Backstop
      <4> QED BY <4>1, <4>2
    <3> QED BY <1>0, <3>1, OneBound
  <2>3. CASE wake_hold > 1 /\ phase # "CP_DONE"
    <3>1. phase # "CP_IDLE"
      BY <1>2 DEF TickActive
    <3>2. \/ phase = "CP_WAKE" \/ phase = "CP_HANDSHAKE" \/ phase = "CP_PROFILE"
          \/ AwaitsWriteEcho \/ AwaitsOpMode
      BY <1>0, <2>3, <3>1 DEF Phases, AwaitsWriteEcho, AwaitsOpMode
    <3>3. AwaitsOpMode => AwaitsOpMode' /\ Confirming'
      BY <2>3, TickConfirming DEF AwaitsOpMode
    <3> QED BY <1>0, <2>3, <3>2, <3>3, OneBound, TickWaking, TickOpening,
               TickReading, TickArming
  <2>4. wake_hold > 0
    BY <1>2 DEF TickActive
  <2> QED BY <1>0, <2>1, <2>2, <2>3, <2>4
<1> QED BY <1>1, <1>2 DEF Tick, Ticker1

\* What a status element does to the command: it ends it, is of no use to it,
\* or is the one the phase waits for.
Useless(e) ==
  /\ Unmoved /\ sent' = Nothing /\ ~tx_fail' /\ phase # "CP_WAKE"
  /\ phase = "CP_HANDSHAKE" => e.type # "ack"
  /\ phase = "CP_PROFILE" /\ ~have_profile0 => e.type # "profiles"
  /\ ReleasesTrigger \/ ConfirmsWrite => e.type # "echo"
  /\ AwaitsOpMode => e.type # "error" /\ (e.type = "opmode" => e.flag # enable)

Releases(e) ==
  /\ ReleasesTrigger /\ e.type = "echo" /\ SameRecord
  /\ SendTrigger(enable, FALSE)
  /\ phase' = "CP_CONFIRM" /\ phase_secs' = 0 /\ wake_hold' = wake_hold

LEMMA ReceiveCases ==
  ASSUME NEW e, IncomingBapStatus(e)
  PROVE  \/ FirstContact(e) \/ HandshakeAck(e) \/ ProfileReply(e)
         \/ Useless(e) \/ Releases(e) \/ phase' = "CP_DONE"
<1>1. CASE BapError(e)
  BY <1>1 DEF BapError
<1>2. CASE OpModeEcho(e)
  <2>1. CASE Confirms(e)
    BY <1>2, <2>1 DEF OpModeEcho
  <2>2. CASE ~Confirms(e)
    <3>1. Unmoved /\ sent' = Nothing /\ ~tx_fail' /\ phase # "CP_WAKE"
          /\ e.type = "opmode"
      BY <1>2, <2>2 DEF OpModeEcho, Unmoved, command
    <3> QED BY <2>2, <3>1 DEF Confirms, Useless
  <2> QED BY <2>1, <2>2
<1>3. CASE WriteEcho(e)
  <2>0. SameRecord /\ e.type = "echo" /\ phase # "CP_WAKE"
    BY <1>3 DEF WriteEcho, SameRecord, command
  <2>1. CASE /\ ReleasesTrigger /\ SendTrigger(enable, FALSE)
             /\ phase' = "CP_CONFIRM" /\ phase_secs' = 0
             /\ UNCHANGED <<confirmed, wake_hold>>
    BY <2>0, <2>1 DEF Releases
  <2>2. CASE ConfirmsWrite /\ phase' = "CP_DONE"
    BY <2>2
  <2>3. CASE /\ ~ReleasesTrigger /\ ~ConfirmsWrite
             /\ sent' = Nothing /\ tx_fail' = FALSE
             /\ UNCHANGED <<phase, phase_secs, confirmed, wake_hold>>
    BY <2>0, <2>3 DEF SameRecord, Unmoved, Useless
  <2> QED BY <1>3, <2>1, <2>2, <2>3 DEF WriteEcho
<1>4. CASE Ignored(e)
  <2>1. Unmoved /\ sent' = Nothing /\ ~tx_fail'
    BY <1>4 DEF Ignored, Unmoved, command
  <2> QED BY <1>4, <2>1 DEF Ignored, Useless
<1> QED BY <1>1, <1>2, <1>3, <1>4 DEF IncomingBapStatus

LEMMA ReceiveSent ==
  ASSUME Typed, Typed', Receive
  PROVE  /\ sent' = Nothing /\ ~tx_fail' => UNCHANGED <<to_bcu, losses>>
         /\ \A type : TriedType(type) =>
              \/ /\ losses' = losses /\ InFlight(type)'
                 /\ to_bcu = <<>> => Lone(type)'
                 /\ sent' # Nothing
              \/ /\ losses' = losses + 1 /\ to_bcu' = to_bcu
                 /\ sent' = Nothing
<1>0. Put /\ commands' = commands /\ CountLoss(Refused(TRUE))
  BY ReceiveFacts
<1>1. sent' = Nothing /\ ~tx_fail' => UNCHANGED <<to_bcu, losses>>
  BY <1>0 DEF Put, CountLoss, Refused
<1>2. ASSUME NEW type, TriedType(type)
      PROVE  \/ /\ losses' = losses /\ InFlight(type)'
                /\ to_bcu = <<>> => Lone(type)'
                /\ sent' # Nothing
             \/ /\ losses' = losses + 1 /\ to_bcu' = to_bcu
                /\ sent' = Nothing
  <2>1. CASE sent' = Nothing /\ tx_fail'
    BY <1>0, <2>1 DEF CountLoss, Refused, Put
  <2>2. CASE sent' # Nothing /\ sent'.type = type
    <3>1. losses' = losses
      BY <1>0, <2>2 DEF CountLoss, Refused
    <3> QED BY <1>0, <2>2, <3>1, PutLone, PutInFlightNow
  <2> QED BY <1>2, <2>1, <2>2 DEF TriedType
<1> QED BY <1>1, <1>2

LEMMA AgesReceive ==
  ASSUME Typed, Ages, Receive
  PROVE  Ages'
<1> DEFINE e == Head(to_module)
<1>0. IncomingBapStatus(e) /\ awake' = awake /\ Elems(pending)' = Elems(pending)
  BY ReceiveFacts
<1> HIDE DEF e
<1>1. wake_hold' > 0 => wake_hold > 0
  <2>1. wake_hold' \in Nat /\ wake_hold' <= wake_hold
    BY <1>0, WindowShrinks DEF Typed, IInv
  <2> QED BY <2>1, Numbers
<1>2. phase_secs' = phase_secs \/ phase_secs' = 0
  BY <1>0 DEF IncomingBapStatus, FirstContact, HandshakeAck, BapError,
              OpModeEcho, WriteEcho, ProfileReply, Ignored
<1>c. confirmed => confirmed'
  <2>1. OpModeEcho(e) => confirmed' = (confirmed \/ Confirms(e))
    BY DEF OpModeEcho
  <2>2. ~OpModeEcho(e) => confirmed' = confirmed \/ confirmed' = TRUE
    BY <1>0 DEF IncomingBapStatus, FirstContact, HandshakeAck, BapError,
                WriteEcho, ProfileReply, Ignored
  <2> QED BY <2>1, <2>2
<1>3. phase' = "CP_DONE" => confirmed' \/ error'
  <2>1. CASE FirstContact(e) \/ HandshakeAck(e)
    BY <2>1 DEF FirstContact, HandshakeAck
  <2>2. CASE BapError(e)
    BY <2>2 DEF BapError
  <2>3. CASE OpModeEcho(e)
    <3>1. /\ confirmed' = (confirmed \/ Confirms(e))
          /\ error' = (error /\ (e.type = "opmode" => phase = "CP_DONE"))
          /\ phase' = IF Confirms(e) THEN "CP_DONE" ELSE phase
      BY <2>3 DEF OpModeEcho, Pardon
    <3>2. CASE Confirms(e)
      BY <3>1, <3>2
    <3>3. CASE ~Confirms(e)
      BY <3>1, <3>3 DEF Ages
    <3> QED BY <3>2, <3>3
  <2>4. CASE WriteEcho(e)
    BY <2>4 DEF WriteEcho, Ages
  <2>5. CASE ProfileReply(e)
    <3>1. PICK refused : refused = FALSE
      OBVIOUS
    <3>2. ArmAndAdvance(e.profile, refused, phase') /\ phase = "CP_PROFILE"
      BY <2>5, <3>1 DEF ProfileReply
    <3> QED BY <3>2, ArmOutcome DEF AfterWrite
  <2>6. CASE Ignored(e)
    BY <2>6 DEF Ignored, Ages
  <2> QED BY <1>0, <2>1, <2>2, <2>3, <2>4, <2>5, <2>6 DEF IncomingBapStatus
<1>4. RetrySecs \in Nat \ {0}
  BY SecsAssumption
<1> QED BY <1>0, <1>1, <1>2, <1>c, <1>3, <1>4 DEF Ages

LEMMA TimelyUseless ==
  ASSUME Typed, Typed', Own, Timely, Receive, Useless(Head(to_module))
  PROVE  Timely'
<1> DEFINE e == Head(to_module)
<1>0. /\ Unmoved /\ sent' = Nothing /\ ~tx_fail' /\ phase # "CP_WAKE"
      /\ phase = "CP_HANDSHAKE" => e.type # "ack"
      /\ phase = "CP_PROFILE" /\ ~have_profile0 => e.type # "profiles"
      /\ ReleasesTrigger \/ ConfirmsWrite => e.type # "echo"
      /\ AwaitsOpMode =>
           e.type # "error" /\ (e.type = "opmode" => e.flag # enable)
  BY DEF Useless
<1>1. /\ to_module # <<>> /\ to_module' = Tail(to_module) /\ OwnReply(e)
      /\ UNCHANGED <<channel, pending, to_bcu, losses>>
  BY <1>0, ReceiveFacts, ReceiveSent DEF Own
<1>2. /\ \A type : Coming(type) <=> Coming(type)' \/ e.type = type
      /\ e.type # "echo" => Echoes(to_module)' = Echoes(to_module)
  BY <1>1, ComingTaken DEF Typed
<1>3. \A type : (Lone(type)' <=> Lone(type)) /\ (InFlight(type)' <=> InFlight(type))
  BY <1>1, OutSame
<1>u. /\ Elapsed' = Elapsed /\ UNCHANGED <<phase, phase_secs, have_profile0>>
      /\ AwaitsWriteEcho' = AwaitsWriteEcho /\ AwaitsOpMode' = AwaitsOpMode
  BY <1>0, UnmovedFacts
<1>o. /\ OnTime(0)' <=> OnTime(0)
      /\ OnTime(Slack)' <=> OnTime(Slack)
      /\ Overdue(0)' <=> Overdue(0)
      /\ Overdue(Slack)' <=> Overdue(Slack)
  BY <1>1, <1>u DEF OnTime, Overdue
<1>h. Ages'
  BY AgesReceive DEF Timely
<1> HIDE DEF e
<1>4. CASE phase = "CP_HANDSHAKE"
  <2>1. Opening'
    BY <1>0, <1>1, <1>2, <1>3, <1>4, <1>u, <1>o
       DEF Timely, Opening, MayBeHeartbeat
  <2> QED BY <1>h, <1>u, <1>4, <2>1, OneBound
<1>5. CASE phase = "CP_PROFILE"
  <2>0. ~Coming("profiles") => ~Coming("profiles")'
    BY <1>2
  <2>1. CASE Deaf
    <3>1. Deaf'
      BY <1>1, <1>3, <1>u, <2>0, <2>1 DEF Deaf
    <3> QED BY <1>h, <1>u, <1>5, <3>1, OneBound DEF Reading
  <2>2. CASE Early
    <3>1. Pair("handshake", "get")' <=> Pair("handshake", "get")
      BY <1>1 DEF Pair
    <3>2. Early'
      BY <1>1, <1>3, <1>u, <1>o, <2>0, <2>2, <3>1 DEF Early
    <3> QED BY <1>h, <1>u, <1>5, <3>2, OneBound DEF Reading
  <2>3. CASE Unready
    <3>1. Unready'
      BY <1>1, <1>3, <1>u, <1>o, <2>0, <2>3 DEF Unready
    <3> QED BY <1>h, <1>u, <1>5, <3>1, OneBound DEF Reading
  <2>4. CASE Fetching
    <3>1. Fetching'
      BY <1>0, <1>1, <1>2, <1>3, <1>5, <1>u, <1>o, <2>4 DEF Fetching
    <3> QED BY <1>h, <1>u, <1>5, <3>1, OneBound DEF Reading
  <2> QED BY <1>5, <2>1, <2>2, <2>3, <2>4 DEF Timely, Reading
<1>6. CASE AwaitsWriteEcho
  <2>1. Arming
    BY <1>6 DEF Timely
  <2>2. e.type # "echo"
    BY <1>0, <1>6, <2>1
       DEF AwaitsWriteEcho, ReleasesTrigger, ConfirmsWrite, Arming
  <2>3. Lead' = Lead /\ Owed' = Owed /\ Lead \in Nat /\ Owed \in Nat /\ losses \in Nat
    BY <1>1, <1>2, <2>2, Counts, Numbers DEF Lead, Owed
  <2>4. to_bcu' = <<>> \/ (Lone("write")' /\ phase_secs = 0)
    BY <1>1, <1>3, <2>1 DEF Arming
  <2>5. Coming("echo")' => Coming("echo")
    BY <1>2
  <2>6. Arming'
    BY <1>0, <1>1, <2>1, <2>3, <2>4, <2>5, ArmingGrows
  <2> QED BY <1>h, <1>u, <1>6, <2>6, OneBound
<1>7. CASE AwaitsOpMode
  <2>1. e.type # "error" /\ e.type # "opmode"
    BY <1>0, <1>1, <1>7 DEF OwnReply
  <2>2. Confirming'
    BY <1>1, <1>2, <1>3, <1>7, <1>u, <2>1 DEF Timely, Confirming, OnTime, Overdue
  <2> QED BY <1>h, <1>u, <1>7, <2>2, OneBound
<1>8. CASE phase \in {"CP_IDLE", "CP_DONE"}
  BY <1>h, <1>u, <1>8, OneBound
<1>9. phase \in Phases
  BY DEF Typed, IInv, TypeOK
<1> QED BY <1>0, <1>4, <1>5, <1>6, <1>7, <1>8, <1>9
        DEF Phases, AwaitsWriteEcho, AwaitsOpMode

LEMMA TimelyContact ==
  ASSUME Typed, Typed', Timely, Receive, FirstContact(Head(to_module))
  PROVE  Timely'
<1>1. /\ phase = "CP_WAKE" /\ phase' = "CP_HANDSHAKE" /\ phase_secs' = 0
      /\ wake_hold' = wake_hold /\ have_profile0' = have_profile0
  BY DEF FirstContact
<1>2. Elapsed' = Elapsed
  BY <1>1 DEF Elapsed
<1>3. Waking /\ to_bcu = <<>> /\ channel' = channel
  BY <1>1, ReceiveFacts DEF Timely, Waking
<1>4. MayBeHeartbeat' /\ ~Coming("profiles")'
  BY <1>3, ReceiveFacts, ComingTaken DEF Waking, MayBeHeartbeat, Typed
<1>5. TriedType("handshake")
  <2>1. PICK refused : refused = FALSE
    OBVIOUS
  <2>2. SendHandshake(refused)
    BY <2>1 DEF FirstContact
  <2> QED BY <2>2, TriedFacts, TriedTypes
<1>6. CASE losses' = losses /\ Lone("handshake")'
  <2>1. OnTime(0)'
    BY <1>2, <1>3, <1>6 DEF Waking, OnTime
  <2> QED BY <1>1, <1>3, <1>4, <1>6, <2>1, AgesReceive, OneBound
          DEF Timely, Waking, Opening
<1>7. CASE losses' = losses + 1 /\ to_bcu' = <<>>
  <2>1. Elapsed <= Cost(losses)
    BY <1>3, Numbers DEF Waking, OnTime
  <2>2. /\ Elapsed \in Nat /\ RetrySecs \in Nat /\ Cost(losses) \in Nat
        /\ Cost(losses + 1) = Cost(losses) + RetrySecs
    BY Numbers
  <2>3. Overdue(0)'
    BY <1>1, <1>2, <1>7, <2>1, <2>2 DEF Overdue
  <2> QED BY <1>1, <1>3, <1>4, <1>7, <2>3, AgesReceive, OneBound
          DEF Timely, Waking, Opening
<1> QED BY <1>3, <1>5, <1>6, <1>7, ReceiveSent

LEMMA TimelyAck ==
  ASSUME Typed, Typed', Timely, Receive, HandshakeAck(Head(to_module))
  PROVE  Timely'
<1>1. /\ phase = "CP_HANDSHAKE" /\ phase' = "CP_PROFILE" /\ phase_secs' = 0
      /\ wake_hold' = wake_hold /\ have_profile0' = have_profile0
      /\ Head(to_module).type = "ack" /\ wake_hold > 0
  BY Numbers DEF HandshakeAck, Typed, IInv, BridgeHeld
<1>2. Elapsed' = Elapsed
  BY <1>1 DEF Elapsed
<1>3. Coming("ack")
  BY <1>1, ReceiveFacts DEF Coming
<1>4. Opening /\ ~have_profile0 /\ ~Coming("profiles") /\ channel' = channel
  BY <1>1, ReceiveFacts DEF Timely, Opening
<1>5. ~Coming("profiles")' /\ BusTypes /\ Put /\ commands' = commands
  BY <1>4, ReceiveFacts, ComingTaken DEF Typed
<1>6. TriedType("get")
  <2>1. PICK refused : refused = FALSE
    OBVIOUS
  <2>2. SendProfileGet(refused)
    BY <2>1 DEF HandshakeAck
  <2> QED BY <2>2, TriedFacts, TriedTypes
<1>g. \/ /\ losses' = losses /\ sent' # Nothing /\ sent'.type = "get"
         /\ to_bcu = <<>> => Lone("get")'
      \/ losses' = losses + 1 /\ to_bcu' = to_bcu
  <2>1. sent' # Nothing => sent'.type = "get"
    BY <1>6 DEF TriedType
  <2> QED BY <1>6, <2>1, ReceiveSent
<1>n. /\ Elapsed \in Nat /\ RetrySecs \in Nat \ {0} /\ Cost(losses) \in Nat
      /\ Cost(losses + 1) = Cost(losses) + RetrySecs /\ Slack \in Nat
      /\ phase_secs \in Nat /\ losses \in Nat
      /\ Heartbeats => Slack = RetrySecs
  BY Numbers
<1>o. OnTime(0) =>
        /\ losses' = losses => OnTime(0)' /\ OnTime(Slack)'
        /\ losses' = losses + 1 => Overdue(Slack)'
  <2> SUFFICES ASSUME Elapsed <= Cost(losses)
               PROVE  /\ losses' = losses => OnTime(0)' /\ OnTime(Slack)'
                      /\ losses' = losses + 1 => Overdue(Slack)'
    BY <1>n DEF OnTime
  <2>1. losses' = losses => OnTime(0)' /\ OnTime(Slack)'
    BY <1>2, <1>n DEF OnTime
  <2>2. losses' = losses + 1 => Overdue(Slack)'
    BY <1>1, <1>2, <1>n DEF Overdue
  <2> QED BY <2>1, <2>2
<1>h. Ages' /\ (Reading' => Timely')
  BY <1>1, AgesReceive, OneBound DEF Timely
<1>7. CASE Lone("handshake") /\ channel # "acking" /\ MayBeHeartbeat /\ OnTime(0)
  <2>0. Heartbeats
    BY <1>3, <1>7 DEF MayBeHeartbeat
  <2>1. CASE losses' = losses /\ sent' # Nothing /\ sent'.type = "get"
    <3>1. Pair("handshake", "get")'
      BY <1>5, <1>7, <2>1, PutPair
    <3> QED BY <1>1, <1>4, <1>5, <1>7, <1>o, <1>h, <2>0, <2>1, <3>1
            DEF Early, Reading
  <2>2. CASE losses' = losses + 1 /\ to_bcu' = to_bcu
    <3>1. Lone("handshake")'
      BY <1>7, <2>2, OutSame
    <3> QED BY <1>1, <1>4, <1>5, <1>7, <1>o, <1>h, <2>0, <2>2, <3>1
            DEF Unready, Reading
  <2> QED BY <1>g, <2>1, <2>2
<1>8. CASE to_bcu = <<>> /\ channel = "acking" /\ MayBeHeartbeat /\ OnTime(0)
  <2>0. Heartbeats
    BY <1>3, <1>8 DEF MayBeHeartbeat
  <2> QED BY <1>1, <1>4, <1>5, <1>8, <1>g, <1>o, <1>h, <2>0
          DEF Early, Unready, Reading
<1>9. CASE to_bcu = <<>> /\ channel = "open" /\ OnTime(0)
  BY <1>1, <1>4, <1>5, <1>9, <1>g, <1>o, <1>h DEF Fetching, Reading
\* The handshake was lost: so far the command has not cost what that pays for.
<1>10. CASE to_bcu = <<>> /\ channel # "acking" /\ MayBeHeartbeat /\ Overdue(0)
  <2>0. Heartbeats
    BY <1>3, <1>10 DEF MayBeHeartbeat
  <2>1. phase_secs < RetrySecs
    <3>1. ~confirmed
      BY <1>1 DEF Typed, IInv, Progress
    <3> QED BY <3>1 DEF Timely, Ages
  <2>2. Elapsed < Cost(losses)
    BY <1>n, <1>10, <2>1 DEF Overdue
  <2>3. losses > 0 /\ OnTime(0)
    <3>1. OnTime(0)
      BY <1>n, <2>2 DEF OnTime
    <3>2. losses # 0
      <4>1. ASSUME losses = 0 PROVE Cost(losses) = 0
        BY <1>n, <4>1 DEF Cost
      <4> QED BY <1>n, <2>2, <4>1
    <3> QED BY <1>n, <3>1, <3>2
  <2>4. losses' > 0
    BY <1>n, <1>g, <2>3
  <2>5. CASE channel = "open"
    BY <1>9, <1>10, <2>3, <2>5
  <2>6. CASE channel = "closed"
    BY <1>1, <1>4, <1>5, <1>10, <1>g, <1>h, <2>0, <2>4, <2>6 DEF Deaf, Reading
  <2> QED BY <1>5, <1>10, <2>5, <2>6 DEF BusTypes
<1> QED BY <1>4, <1>7, <1>8, <1>9, <1>10 DEF Opening

\* The echo of the write lets the trigger go.
LEMMA TimelyReleases ==
  ASSUME Typed, Typed', Timely, Receive, Releases(Head(to_module))
  PROVE  Timely'
<1>1. /\ ReleasesTrigger /\ Head(to_module).type = "echo" /\ SameRecord
      /\ phase' = "CP_CONFIRM" /\ phase_secs' = 0 /\ wake_hold' = wake_hold
  BY DEF Releases
<1>2. Elapsed' = Elapsed /\ WriteOnly' = WriteOnly
  BY <1>1, SameRecordFacts DEF Elapsed
<1>3. AwaitsOpMode'
  BY <1>1, <1>2 DEF ReleasesTrigger, AwaitsOpMode
<1>4. Arming /\ Coming("echo")
  BY <1>1, ReceiveFacts DEF ReleasesTrigger, Timely, AwaitsWriteEcho, Coming
<1>5. Elapsed <= Cost(losses) + Late
  BY <1>4 DEF Arming, OnTime
<1>6. TriedType("trigger")
  <2>1. PICK refused : refused = FALSE
    OBVIOUS
  <2>2. SendTrigger(enable, refused)
    BY <2>1 DEF Releases
  <2> QED BY <2>2, TriedFacts, TriedTypes
<1>7. Confirming'
  <2>1. CASE losses' = losses /\ InFlight("trigger")'
    <3>1. OnTime(Late)'
      BY <1>2, <1>5, <2>1 DEF OnTime
    <3> QED BY <2>1, <3>1 DEF Confirming
  <2>2. CASE losses' = losses + 1
    <3>1. /\ Elapsed \in Nat /\ RetrySecs \in Nat /\ ApplyTicks \in Nat /\ Late \in Nat
          /\ Cost(losses) \in Nat /\ Cost(losses + 1) = Cost(losses) + RetrySecs
      BY Numbers
    <3>2. Overdue(Late)'
      BY <1>1, <1>2, <1>5, <2>2, <3>1 DEF Overdue
    <3> QED BY <3>2 DEF Confirming
  <2> QED BY <1>6, <2>1, <2>2, ReceiveSent
<1> QED BY <1>3, <1>7, AgesReceive, OneBound DEF Timely

\* The record the command asked for is read, and written or triggered at once.
LEMMA TimelyProfile ==
  ASSUME Typed, Typed', Timely, Receive, ProfileReply(Head(to_module))
  PROVE  Timely'
<1> DEFINE e == Head(to_module)
<1>1. /\ phase = "CP_PROFILE" /\ ~have_profile0 /\ e.type = "profiles"
      /\ profile0' = e.profile /\ have_profile0' /\ wake_hold' = wake_hold
      /\ phase_secs' = (IF phase' = phase THEN phase_secs ELSE 0)
      /\ UNCHANGED <<op, param, enable, apply>>
  BY DEF ProfileReply, command
<1>2. Coming("profiles")
  BY <1>1, ReceiveFacts DEF Coming
<1>3. to_bcu = <<>> /\ channel = "open" /\ OnTime(Slack) /\ channel' = channel
  BY <1>1, <1>2, ReceiveFacts DEF Timely, Reading, Deaf, Early, Unready, Fetching
<1>4. Elapsed' = Elapsed /\ WriteOnly' = WriteOnly
      /\ SkipsWrite(profile0)' = SkipsWrite(e.profile)
  <2>1. Armed(profile0)' = Armed(e.profile)
    BY <1>1 DEF Armed
  <2> QED BY <1>1, <2>1 DEF Elapsed, WriteOnly, SkipsWrite
<1>5. ArmAndAdvance(e.profile, FALSE, phase')
  BY DEF ProfileReply
<1>6. \/ /\ SkipsWrite(e.profile) /\ Tried(Trigger(enable))
         /\ phase' = "CP_CONFIRM" /\ ~WriteOnly
      \/ /\ ~SkipsWrite(e.profile) /\ Tried(Write(Armed(e.profile)))
         /\ phase' = AfterWrite
  <2>1. PICK refused : refused = FALSE
    OBVIOUS
  <2>2. ArmAndAdvance(e.profile, refused, phase')
    BY <1>5, <2>1
  <2> QED BY <2>2, ArmOutcome
<1>n. /\ Elapsed \in Nat /\ RetrySecs \in Nat \ {0} /\ ApplyTicks \in Nat /\ Late \in Nat
      /\ Cost(losses) \in Nat /\ Cost(losses + 1) = Cost(losses) + RetrySecs
      /\ Elapsed <= Cost(losses) + Slack /\ phase_secs \in Nat
      /\ Slack \in Nat /\ Late = Slack + ApplyTicks
  BY <1>3, Numbers DEF OnTime
<1>7. losses' = losses => OnTime(Slack)' /\ OnTime(Late)'
  BY <1>4, <1>n DEF OnTime
<1>8. losses' = losses + 1 => Overdue(Slack)' /\ Overdue(Late)'
  <2>1. phase_secs' \in Nat
    BY <1>1, <1>n
  <2> QED BY <1>4, <1>n, <2>1 DEF Overdue
<1>h. Ages'
  BY AgesReceive DEF Timely
<1>t. \/ SkipsWrite(e.profile) /\ TriedType("trigger")
         /\ phase' = "CP_CONFIRM" /\ ~WriteOnly
      \/ ~SkipsWrite(e.profile) /\ TriedType("write") /\ phase' = AfterWrite
  BY <1>6, TriedTypes
<1> HIDE DEF e
<1>9. CASE /\ SkipsWrite(e.profile) /\ TriedType("trigger")
           /\ phase' = "CP_CONFIRM" /\ ~WriteOnly
  <2>1. AwaitsOpMode'
    BY <1>4, <1>9 DEF AwaitsOpMode
  <2>2. Confirming'
    BY <1>7, <1>8, <1>9, ReceiveSent DEF Confirming
  <2> QED BY <1>h, <2>1, <2>2, OneBound
<1>10. CASE ~SkipsWrite(e.profile) /\ TriedType("write") /\ phase' = AfterWrite
  <2>1. CASE losses' = losses /\ Lone("write")' /\ sent' # Nothing
    <3>1. AwaitsWriteEcho' /\ (phase' = "CP_ARM_WAIT" => ~WriteOnly')
          /\ phase' # phase
      BY <1>1, <1>4, <1>10, <2>1 DEF AfterWrite, AwaitsWriteEcho
    <3>2. Arming'
      BY <1>1, <1>4, <1>7, <1>10, <2>1, <3>1, FirstWriteNow DEF FirstWriteSent
    <3> QED BY <1>h, <3>1, <3>2, OneBound
  <2>2. CASE losses' = losses + 1 /\ to_bcu' = to_bcu /\ sent' = Nothing
    <3>1. phase' = "CP_PROFILE"
      BY <1>1, <1>10, <2>2 DEF AfterWrite
    <3>2. Reading'
      BY <1>1, <1>3, <1>8, <2>2 DEF Reading, Fetching
    <3> QED BY <1>h, <3>1, <3>2, OneBound
  <2> QED BY <1>3, <1>10, <2>1, <2>2, ReceiveSent
<1> QED BY <1>t, <1>9, <1>10

LEMMA TimelyReceive ==
  ASSUME Typed, Typed', Own, Timely, Receive
  PROVE  Timely'
<1>1. IncomingBapStatus(Head(to_module))
  BY ReceiveFacts
<1>2. phase' = "CP_DONE" => Timely'
  BY AgesReceive, OneBound DEF Timely
<1> QED BY <1>1, <1>2, ReceiveCases, TimelyContact, TimelyAck, TimelyProfile,
           TimelyUseless, TimelyReleases

LEMMA InitTimely == SysInit => Timely
BY EmptyElems, SecsAssumption
   DEF SysInit, Init, Timely, Ages, AwaitsWriteEcho, AwaitsOpMode

LEMMA TimelyKept ==
  ASSUME ~Overlap, Typed, Typed', Own, Timely, [SysNext]_sysvars
  PROVE  Timely'
<1>1. CASE Issue
  BY <1>1, TimelyIssue
<1>2. CASE UserAbort \/ BcuSleep
  BY <1>2, TimelyBetween
<1>3. CASE Tick
  BY <1>3, TimelyTick
<1>4. CASE Receive
  BY <1>4, TimelyReceive
<1>5. CASE Report \/ Lose \/ Bcu \/ MibEdit \/ UNCHANGED sysvars
  BY <1>5, OutsideFacts, TimelyOutside DEF Outside
<1> QED BY <1>1, <1>2, <1>3, <1>4, <1>5 DEF SysNext

\* At a tick, with all that takes less than a second done, a command that has
\* no verdict yet has taken less than its losses and one write explain.
LEMMA QuietBound ==
  ASSUME Typed, Timely, BusQuiet, wake_hold > 0, phase # "CP_IDLE",
         ~confirmed, ~error
  PROVE  \/ phase = "CP_PROFILE" /\ Deaf
         \/ Elapsed < Cost(losses) + Late
<1>t. /\ BusTypes /\ phase \in Phases /\ awake /\ phase # "CP_DONE"
      /\ phase_secs < RetrySecs
  BY DEF Typed, IInv, TypeOK, Timely, Ages
<1>1. /\ to_bcu = <<>> /\ to_module = <<>> /\ channel # "acking" /\ ~beat
      /\ \A type : ~Coming(type) /\ ~Lone(type) /\ ~InFlight(type)
  <2>1. /\ to_bcu = <<>> /\ to_module = <<>> /\ channel # "acking" /\ ~beat
    BY <1>t DEF BusQuiet
  <2>2. \A type : ~Coming(type) /\ ~Lone(type) /\ ~InFlight(type)
    BY <1>t, <2>1, ComingFacts, LoneFacts, EmptyElems DEF InFlight
  <2> QED BY <2>1, <2>2
<1>n. /\ Elapsed \in Nat /\ RetrySecs \in Nat \ {0} /\ ApplyTicks \in Nat /\ Slack \in Nat
      /\ Late = Slack + ApplyTicks /\ Late \in Nat \ {0}
      /\ Cost(losses) \in Nat /\ phase_secs \in Nat /\ losses \in Nat
  BY Numbers
<1>2. Overdue(0) \/ Overdue(Slack) \/ Overdue(Late) =>
        Elapsed < Cost(losses) + Late
  <2>1. Overdue(0) => Elapsed < Cost(losses) + Late
    BY <1>t, <1>n DEF Overdue
  <2>2. Overdue(Slack) => Elapsed < Cost(losses) + Late
    BY <1>t, <1>n DEF Overdue
  <2>3. Overdue(Late) => Elapsed < Cost(losses) + Late
    BY <1>t, <1>n DEF Overdue
  <2> QED BY <2>1, <2>2, <2>3
<1>3. CASE phase = "CP_WAKE"
  <2>1. Elapsed + RetrySecs <= Cost(losses)
    BY <1>1, <1>3 DEF Timely, Waking
  <2> QED BY <1>n, <2>1
<1>4. CASE phase = "CP_HANDSHAKE"
  BY <1>1, <1>2, <1>4 DEF Timely, Opening
<1>5. CASE phase = "CP_PROFILE"
  <2>1. ~Pair("handshake", "get")
    BY <1>t, <1>1, PairFacts
  <2> QED BY <1>1, <1>2, <1>5, <2>1
          DEF Timely, Reading, Early, Unready, Fetching
<1>6. CASE AwaitsWriteEcho
  <2>1. Arming
    BY <1>6 DEF Timely
  <2>2. Lead = losses
    BY <1>t, <1>1, <1>n, ComingFacts DEF Lead
  <2>3. CASE pending = <<>>
    <3>1. Len(to_bcu) = 0 /\ Len(pending) = 0
      BY <1>1, <2>3
    <3>2. Owed = losses
      BY <1>n, <2>2, <3>1 DEF Owed
    <3>3. Elapsed + RetrySecs <= Cost(losses) + Slack + phase_secs
      BY <2>1, <3>2 DEF Arming
    <3> QED BY <1>t, <1>n, <3>3
  <2>4. CASE pending # <<>>
    <3>1. pending \in Seq(Waiting)
      BY <1>t DEF BusTypes
    <3>2. 1 \in 1..Len(pending) /\ 1 \in DOMAIN pending
      BY <2>4, <3>1
    <3>3. Lead + (1 - 1) = losses
      BY <1>n, <2>2
    <3>4. Elapsed <= Cost(losses) + Slack + pending[1].age
      BY <2>1, <3>2, <3>3 DEF Arming
    <3>5. pending[1].age < ApplyTicks /\ pending[1].age \in Nat
      BY <3>2, Counts DEF BusQuiet
    <3> QED BY <1>n, <3>4, <3>5
  <2> QED BY <2>3, <2>4
<1>7. CASE AwaitsOpMode
  BY <1>1, <1>2, <1>7 DEF Timely, Confirming
<1> QED BY <1>t, <1>3, <1>4, <1>5, <1>6, <1>7
        DEF Phases, AwaitsWriteEcho, AwaitsOpMode

\* At the end of a window longer than all the losses cost, what has no verdict is
\* a command whose lost handshake a heartbeat stood for.
LEMMA WindowSuffices ==
  ASSUME RetrySecs * MaxLoss + Slack + ApplyTicks < WakeSecs,
         Typed, Timely, Tick, alert' \in {"tx_error", "no_profile", "timeout"}
  PROVE  phase = "CP_PROFILE" /\ Deaf
<1>1. CASE TickIdle(awake)
  BY <1>1 DEF TickIdle, Quiet
<1>2. CASE TickActive(awake) /\ wake_hold # 1
  BY <1>2 DEF TickActive
<1>3. CASE TickActive(awake) /\ wake_hold = 1 /\ (confirmed \/ error)
  BY <1>3 DEF TickActive, Outcome
<1>4. CASE TickActive(awake) /\ wake_hold = 1 /\ ~confirmed /\ ~error
  <2>1. BusQuiet /\ phase # "CP_IDLE" /\ wake_hold > 0
    BY <1>4 DEF Tick, TickActive
  <2>2. CASE Elapsed < Cost(losses) + Late
    <3>1. Cost(losses) <= Cost(MaxLoss) /\ Cost(losses) \in Nat /\ Cost(MaxLoss) \in Nat
      <4>1. MaxLoss \in Nat /\ losses \in 0..MaxLoss
        BY BoundsAssumption DEF Typed, BusTypes
      <4> QED BY <4>1, CostMonotone, CostFacts
    <3>2. /\ Elapsed = WakeSecs - 1 /\ WakeSecs \in Nat /\ ApplyTicks \in Nat
          /\ Slack \in Nat /\ Late = Slack + ApplyTicks
      BY <1>4, SecsAssumption, Numbers DEF Elapsed
    <3>3. Cost(MaxLoss) + Slack + ApplyTicks < WakeSecs
      BY DEF Cost
    <3> QED BY <2>2, <3>1, <3>2, <3>3
  <2> QED BY <1>4, <2>1, <2>2, QuietBound
<1> QED BY <1>1, <1>2, <1>3, <1>4 DEF Tick, Ticker1

\* With at most MaxLoss telegrams lost or refused, whenever and whichever they
\* are, and a window of more than RetrySecs * MaxLoss + Slack + ApplyTicks
\* seconds, a command reported failed for want of an answer is one whose
\* handshake was lost and replaced by a heartbeat (Ticker1's backstop, Outcome
\* and HandshakeAck): the BCU's channel is closed, and the command waits for the
\* profiles.  Where the BCU sends no such heartbeats none fails.  With them the
\* build's 20 and 2 allow for seven losses and a write of up to three seconds.
THEOREM BusNoFalseFailure ==
  ASSUME ~Overlap, RetrySecs * MaxLoss + Slack + ApplyTicks < WakeSecs
  PROVE  SysSpec => NoFalseFailure
<1> DEFINE Unanswered == Tick /\ alert' \in {"tx_error", "no_profile", "timeout"}
           LostOpening == /\ Heartbeats /\ losses > 0
                          /\ phase = "CP_PROFILE" /\ channel = "closed"
<1>1. SysSpec => [](Typed /\ Own)
  BY BusServesCommand
<1>2. SysInit => Timely
  BY InitTimely
<1>3. Typed /\ Typed' /\ Own /\ Timely /\ [SysNext]_sysvars => Timely'
  BY TimelyKept
<1>4. Typed /\ Timely => [Unanswered => LostOpening]_sysvars
  BY WindowSuffices DEF Deaf
<1> HIDE DEF Unanswered, LostOpening
<1>5. SysSpec => [][Unanswered => LostOpening]_sysvars
  BY <1>1, <1>2, <1>3, <1>4, PTL DEF SysSpec
<1> QED BY <1>5 DEF NoFalseFailure, Unanswered, LostOpening

=============================================================================
