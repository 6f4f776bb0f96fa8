-------------------------- MODULE OvmsEventsProofs --------------------------
(***************************************************************************)
(* Proofs about OvmsEvents, for every queue size and every number of       *)
(* tasks, handlers, signals and timers.  Each signal has one place: the    *)
(* inductive invariant EInv says so by predicates, and the counting of     *)
(* SignalsConserved follows from it.  Then: a handler silenced by          *)
(* DeregisterEvent is never called again (Silent), the types (Others), a   *)
(* handler is not called for what was posted before it (Earlier), each     *)
(* handler hears each signal (Heard), and the loop goes on (Apart).        *)
(***************************************************************************)
EXTENDS OvmsEvents, FiniteSetTheorems, SequenceTheorems, WellFoundedInduction,
        TLAPS

\* The types the argument needs.
Shape ==
  /\ queue \in Seq(Message) /\ timer \in [Timers -> Timer]
  /\ current \in Sigs \cup {Nobody}
  /\ used \subseteq Sigs /\ done \in [Sigs -> Nat]

\* The places.
InQueue(s) == \E i \in DOMAIN queue : queue[i] = SignalMsg(s)
InTimer(s) == \E t \in Timers : timer[t].payload = s
InHands(s) == \E d \in dying : d.msg = SignalMsg(s)

\* No place holds a signal twice.
OnceInQueue ==
  \A s \in Sigs : \A i, j \in DOMAIN queue :
    queue[i] = SignalMsg(s) /\ queue[j] = SignalMsg(s) => i = j
OnceInTimer ==
  \A s \in Sigs : \A t, u \in Timers :
    timer[t].payload = s /\ timer[u].payload = s => t = u
OnceInHands ==
  \A s \in Sigs : \A d, e \in dying :
    d.msg = SignalMsg(s) /\ e.msg = SignalMsg(s) => d = e

\* A timer with a payload is not free, so that no payload is overwritten.
Guarded ==
  \A t \in Timers : timer[t].payload # Nobody => timer[t].made /\ timer[t].active

\* A signal that was raised has one place, or is finished, and no two.
Placed(s) ==
  /\ done[s] \in {0, 1}
  /\ s \in used <=> InQueue(s) \/ InTimer(s) \/ InHands(s) \/ current = s
                    \/ done[s] = 1
  /\ InQueue(s) => ~InTimer(s) /\ ~InHands(s) /\ current # s /\ done[s] = 0
  /\ InTimer(s) => ~InHands(s) /\ current # s /\ done[s] = 0
  /\ InHands(s) => current # s /\ done[s] = 0
  /\ current = s => done[s] = 0

EInv ==
  /\ Shape /\ Guarded
  /\ OnceInQueue /\ OnceInTimer /\ OnceInHands
  /\ \A s \in Sigs : Placed(s)

-----------------------------------------------------------------------------
(* Counting.                                                               *)

LEMMA CountOne ==
  ASSUME NEW S, \A a, b \in S : a = b
  PROVE  Cardinality(S) = IF S = {} THEN 0 ELSE 1
<1>1. CASE S = {}
  BY <1>1, FS_EmptySet
<1>2. CASE S # {}
  <2>1. PICK a : a \in S
    BY <1>2
  <2>2. S = {a}
    BY <2>1
  <2> QED BY <1>2, <2>2, FS_Singleton
<1> QED BY <1>1, <1>2

LEMMA Conserved == EInv => SignalsConserved
<1> SUFFICES ASSUME EInv, NEW s \in Sigs
             PROVE  Copies(s) + done[s] = (IF s \in used THEN 1 ELSE 0)
  BY DEF SignalsConserved
<1>1. Cardinality({i \in DOMAIN queue : queue[i] = SignalMsg(s)})
        = IF InQueue(s) THEN 1 ELSE 0
  BY CountOne DEF EInv, OnceInQueue, InQueue
<1>2. Cardinality({t \in Timers : timer[t].payload = s})
        = IF InTimer(s) THEN 1 ELSE 0
  BY CountOne DEF EInv, OnceInTimer, InTimer
<1>3. Cardinality({d \in dying : d.msg = SignalMsg(s)})
        = IF InHands(s) THEN 1 ELSE 0
  BY CountOne DEF EInv, OnceInHands, InHands
<1>4. Placed(s)
  BY DEF EInv
<1> HIDE DEF InQueue, InTimer, InHands
<1> QED BY <1>1, <1>2, <1>3, <1>4 DEF Copies, Placed

-----------------------------------------------------------------------------
(* The queue.                                                              *)

\* What a Post does to the places of a signal; only a signal's own message
\* matters to it.
LEMMA Posted ==
  ASSUME EInv, NEW a, NEW m \in Message, NEW n, Post(a, m, n),
         \A s \in Sigs : m = SignalMsg(s) => ~InQueue(s) /\ ~InHands(s)
  PROVE  /\ queue' \in Seq(Message) /\ OnceInQueue' /\ OnceInHands'
         /\ \A s \in Sigs : m # SignalMsg(s) =>
              (InQueue(s)' <=> InQueue(s)) /\ (InHands(s)' <=> InHands(s))
         /\ \A s \in Sigs : m = SignalMsg(s) =>
              /\ InQueue(s)' <=> Fits
              /\ InHands(s)' <=> (~Fits /\ Important(n))
<1>1. queue \in Seq(Message)
  BY DEF EInv, Shape
<1>2. CASE Fits /\ queue' = Append(queue, m) /\ UNCHANGED dying
  <2>1. /\ queue' \in Seq(Message) /\ Len(queue') = Len(queue) + 1
        /\ queue'[Len(queue) + 1] = m
        /\ \A i \in DOMAIN queue : i \in DOMAIN queue' /\ queue'[i] = queue[i]
        /\ \A i \in DOMAIN queue' : i \in DOMAIN queue \/ i = Len(queue) + 1
        /\ Len(queue) + 1 \in DOMAIN queue'
    BY <1>1, <1>2
  <2>2. \A s \in Sigs : (InHands(s)' <=> InHands(s))
    BY <1>2 DEF InHands
  <2>3. OnceInHands'
    BY <1>2 DEF EInv, OnceInHands
  <2>4. OnceInQueue'
    BY <2>1 DEF EInv, OnceInQueue, InQueue
  <2>5. \A s \in Sigs : InQueue(s)' <=> (InQueue(s) \/ m = SignalMsg(s))
    BY <2>1 DEF InQueue
  <2> QED
    BY <1>2, <2>1, <2>2, <2>3, <2>4, <2>5
<1>3. CASE ~Fits /\ UNCHANGED queue /\ Overflow(a, m, n)
  <2>1. OnceInQueue' /\ queue' \in Seq(Message)
    BY <1>1, <1>3 DEF EInv, OnceInQueue
  <2>2. \A s \in Sigs : (InQueue(s)' <=> InQueue(s))
    BY <1>3 DEF InQueue
  <2>3. CASE Important(n)
    <3>1. dying' = dying \cup {[task |-> a, msg |-> m]}
      BY <1>3, <2>3 DEF Overflow
    <3>2. OnceInHands'
      BY <3>1 DEF EInv, OnceInHands, InHands
    <3>3. \A s \in Sigs : InHands(s)' <=> (InHands(s) \/ m = SignalMsg(s))
      <4> TAKE s \in Sigs
      <4> DEFINE new == [task |-> a, msg |-> m]
      <4>1. new.msg = m /\ dying' = dying \cup {new}
        BY <3>1
      <4> HIDE DEF new
      <4> QED BY <4>1 DEF InHands
    <3> QED BY <1>3, <2>1, <2>2, <2>3, <3>2, <3>3
  <2>4. CASE ~Important(n)
    <3>1. dying' = dying
      BY <1>3, <2>4 DEF Overflow
    <3>2. OnceInHands'
      BY <3>1 DEF EInv, OnceInHands
    <3>3. \A s \in Sigs : (InHands(s)' <=> InHands(s))
      BY <3>1 DEF InHands
    <3> QED BY <1>3, <2>1, <2>2, <2>4, <3>2, <3>3
  <2> QED BY <2>3, <2>4
<1> QED BY <1>2, <1>3 DEF Post

\* What taking the head does.
LEMMA HeadTaken ==
  ASSUME EInv, queue # <<>>, queue' = Tail(queue)
  PROVE  /\ queue' \in Seq(Message) /\ Head(queue) \in Message /\ OnceInQueue'
         /\ \A s \in Sigs :
              /\ Head(queue) # SignalMsg(s) => (InQueue(s)' <=> InQueue(s))
              /\ Head(queue) = SignalMsg(s) => InQueue(s) /\ ~InQueue(s)'
<1>1. queue \in Seq(Message)
  BY DEF EInv, Shape
<1>2. /\ queue' \in Seq(Message) /\ Head(queue) = queue[1]
      /\ 1 \in DOMAIN queue /\ Head(queue) \in Message
      /\ \A i \in DOMAIN queue' : i + 1 \in DOMAIN queue
                                 /\ queue'[i] = queue[i + 1] /\ i + 1 # 1
      /\ \A i \in DOMAIN queue : i # 1 => (/\ i - 1 \in DOMAIN queue'
                                           /\ queue'[i - 1] = queue[i])
  <2>1. /\ queue' \in Seq(Message) /\ Head(queue) \in Message
        /\ Len(queue') = Len(queue) - 1
        /\ \A i \in 1 .. Len(queue') : queue'[i] = queue[i + 1]
    BY <1>1, HeadTailProperties
  <2>2. Len(queue) \in Nat /\ Len(queue) # 0 /\ Len(queue') \in Nat
    BY <1>1, <2>1, EmptySeq
  <2>3. DOMAIN queue = 1 .. Len(queue) /\ DOMAIN queue' = 1 .. Len(queue')
    BY <1>1, <2>1
  <2>4. Head(queue) = queue[1]
    BY <1>1, HeadTailProperties
  <2> QED BY <2>1, <2>2, <2>3, <2>4
<1>3. \A i, j \in DOMAIN queue' : i + 1 = j + 1 => i = j
  BY <1>1, <1>2
<1>4. OnceInQueue'
  BY <1>2, <1>3 DEF EInv, OnceInQueue
<1>5. \A s \in Sigs : Head(queue) # SignalMsg(s) => (InQueue(s)' <=> InQueue(s))
  <2> SUFFICES ASSUME NEW s \in Sigs, queue[1] # SignalMsg(s)
               PROVE  InQueue(s)' <=> InQueue(s)
    BY <1>2
  <2>1. InQueue(s)' => InQueue(s)
    BY <1>2 DEF InQueue
  <2>2. ASSUME NEW i \in DOMAIN queue, queue[i] = SignalMsg(s) PROVE InQueue(s)'
    BY <1>2, <2>2 DEF InQueue
  <2> QED BY <2>1, <2>2 DEF InQueue
<1>6. \A s \in Sigs : Head(queue) = SignalMsg(s) => InQueue(s) /\ ~InQueue(s)'
  BY <1>2 DEF EInv, OnceInQueue, InQueue
<1> QED BY <1>2, <1>4, <1>5, <1>6

-----------------------------------------------------------------------------
(* Timers.                                                                 *)

\* A timer that holds nothing takes the payload s.
LEMMA PayloadSet ==
  ASSUME EInv, NEW t \in Timers, NEW s \in Sigs, timer[t].payload = Nobody,
         ~InTimer(s), timer' \in [Timers -> Timer], timer'[t].payload = s,
         \A u \in Timers : u # t => timer'[u] = timer[u]
  PROVE  /\ OnceInTimer'
         /\ \A x \in Sigs : InTimer(x)' <=> (InTimer(x) \/ x = s)
<1>1. OnceInTimer'
  BY DEF EInv, OnceInTimer, InTimer
<1>2. \A x \in Sigs : InTimer(x)' <=> (InTimer(x) \/ x = s)
  BY DispatcherAssumption DEF InTimer
<1> QED BY <1>1, <1>2

\* A timer gives its payload up.
LEMMA PayloadTaken ==
  ASSUME EInv, NEW t \in Timers, timer' \in [Timers -> Timer],
         timer'[t].payload = Nobody,
         \A u \in Timers : u # t => timer'[u] = timer[u]
  PROVE  /\ OnceInTimer'
         /\ \A x \in Sigs : InTimer(x)' <=> (InTimer(x) /\ x # timer[t].payload)
<1>0. Nobody \notin Sigs
  BY DispatcherAssumption
<1>1. OnceInTimer'
  BY <1>0 DEF EInv, OnceInTimer
<1>2. \A x \in Sigs : InTimer(x)' <=> (InTimer(x) /\ x # timer[t].payload)
  <2> SUFFICES ASSUME NEW x \in Sigs
               PROVE  InTimer(x)' <=> (InTimer(x) /\ x # timer[t].payload)
    OBVIOUS
  <2>1. InTimer(x)' => InTimer(x) /\ x # timer[t].payload
    BY <1>0 DEF EInv, OnceInTimer, InTimer
  <2>2. InTimer(x) /\ x # timer[t].payload => InTimer(x)'
    BY DEF InTimer
  <2> QED BY <2>1, <2>2
<1> QED BY <1>1, <1>2

-----------------------------------------------------------------------------
(* Each step keeps the invariant.                                          *)

LEMMA InitHolds == Init => EInv
<1> SUFFICES ASSUME Init PROVE EInv
  OBVIOUS
<1>0. Nobody \notin Sigs
  BY DispatcherAssumption
<1>1. queue \in Seq(Message) /\ DOMAIN queue = {}
  BY DEF Init
<1>2. Shape /\ Guarded
  BY <1>1 DEF Init, Shape, Guarded, Timer, NewTimer
<1>3. \A s \in Sigs : ~InQueue(s) /\ ~InTimer(s) /\ ~InHands(s)
  BY <1>0, <1>1 DEF Init, InQueue, InTimer, InHands, NewTimer
<1>4. OnceInQueue /\ OnceInTimer /\ OnceInHands
  BY <1>0, <1>1 DEF Init, OnceInQueue, OnceInTimer, OnceInHands, NewTimer
<1>5. \A s \in Sigs : Placed(s)
  BY <1>0, <1>3 DEF Init, Placed
<1> QED BY <1>2, <1>4, <1>5 DEF EInv

\* The actions that move no signal.
LEMMA Untouched ==
  ASSUME EInv, UNCHANGED <<queue, timer, dying, current, used, done>>
  PROVE  EInv'
<1>1. (Shape /\ Guarded /\ OnceInQueue /\ OnceInTimer /\ OnceInHands)'
  BY DEF EInv, Shape, Guarded, OnceInQueue, OnceInTimer, OnceInHands
<1>2. \A s \in Sigs : Placed(s)'
  BY DEF EInv, Placed, InQueue, InTimer, InHands
<1> QED BY <1>1, <1>2 DEF EInv

\* A message that is no signal.
LEMMA PostKeeps ==
  ASSUME EInv, NEW a, NEW m \in Message, NEW n, Post(a, m, n),
         \A s \in Sigs : m # SignalMsg(s),
         UNCHANGED <<timer, current, used, done>>
  PROVE  EInv'
<1>1. /\ queue' \in Seq(Message) /\ OnceInQueue' /\ OnceInHands'
      /\ \A s \in Sigs : (InQueue(s)' <=> InQueue(s))
                       /\ (InHands(s)' <=> InHands(s))
  BY Posted
<1>2. (Shape /\ Guarded /\ OnceInTimer)'
  BY <1>1 DEF EInv, Shape, Guarded, OnceInTimer
<1>3. \A s \in Sigs : InTimer(s)' <=> InTimer(s)
  BY DEF InTimer
<1>4. \A s \in Sigs : Placed(s)'
  BY <1>1, <1>3 DEF EInv, Placed
<1> QED BY <1>1, <1>2, <1>4 DEF EInv

LEMMA RegisterKeeps ==
  ASSUME EInv, NEW a, NEW h \in Handlers, RegisterEvent(a, h)
  PROVE  EInv'
<1>1. AddMsg(h) \in Message /\ \A s \in Sigs : AddMsg(h) # SignalMsg(s)
  BY DEF AddMsg, SignalMsg, Message
<1> QED BY <1>1, PostKeeps DEF RegisterEvent, loop

LEMMA DeregisterKeeps ==
  ASSUME EInv, NEW a, NEW c \in Callers, DeregisterEvent(a, c)
  PROVE  EInv'
<1>1. RemoveMsg(c) \in Message /\ \A s \in Sigs : RemoveMsg(c) # SignalMsg(s)
  BY DEF RemoveMsg, SignalMsg, Message
<1> QED BY <1>1, PostKeeps DEF DeregisterEvent, loop

\* A message about a signal names that signal only.
LEMMA SignalMsgs ==
  /\ \A s \in Sigs : SignalMsg(s) \in Message
  /\ \A s, x \in Sigs : SignalMsg(s) = SignalMsg(x) => s = x
BY DEF SignalMsg, Message

\* A signal not raised yet is nowhere.
LEMMA Fresh ==
  ASSUME EInv, NEW s \in Sigs, s \notin used
  PROVE  /\ ~InQueue(s) /\ ~InTimer(s) /\ ~InHands(s)
         /\ current # s /\ done[s] = 0
BY DEF EInv, Placed

\* FreeQueueSignalEvent, for a signal that is not finished.
LEMMA Freed ==
  ASSUME EInv, NEW s \in Sigs, done[s] = 0, Free(s)
  PROVE  /\ done' \in [Sigs -> Nat] /\ done'[s] = 1
         /\ \A x \in Sigs : x # s => done'[x] = done[x]
BY DEF EInv, Shape, Free

LEMMA SignalNowKeeps ==
  ASSUME EInv, NEW a, NEW s \in Sigs, SignalNow(a, s)
  PROVE  EInv'
<1> DEFINE lost == ~Fits /\ ~Important(NameOf[s])
<1>0. /\ s \notin used /\ used' = used \cup {s}
      /\ Post(a, SignalMsg(s), NameOf[s])
      /\ IF lost THEN Free(s) ELSE done' = done
      /\ timer' = timer /\ current' = current
  BY DEF SignalNow, loop
<1>1. /\ ~InQueue(s) /\ ~InTimer(s) /\ ~InHands(s)
      /\ current # s /\ done[s] = 0
  BY <1>0, Fresh
<1>2. /\ queue' \in Seq(Message) /\ OnceInQueue' /\ OnceInHands'
      /\ \A x \in Sigs : x # s => (/\ InQueue(x)' <=> InQueue(x)
                                   /\ InHands(x)' <=> InHands(x))
      /\ InQueue(s)' <=> Fits
      /\ InHands(s)' <=> (~Fits /\ Important(NameOf[s]))
  BY <1>0, <1>1, Posted, SignalMsgs
<1>3. /\ done' \in [Sigs -> Nat] /\ done'[s] = (IF lost THEN 1 ELSE 0)
      /\ \A x \in Sigs : x # s => done'[x] = done[x]
  <2>1. CASE lost
    BY <1>0, <1>1, <2>1, Freed
  <2>2. CASE ~lost
    BY <1>0, <1>1, <2>2 DEF EInv, Shape
  <2> QED BY <2>1, <2>2
<1>4. (Shape /\ Guarded /\ OnceInTimer)'
  BY <1>0, <1>2, <1>3 DEF EInv, Shape, Guarded, OnceInTimer
<1>5. \A x \in Sigs : InTimer(x)' <=> InTimer(x)
  BY <1>0 DEF InTimer
<1>6. ASSUME NEW x \in Sigs PROVE Placed(x)'
  <2>1. CASE x = s
    BY <1>0, <1>1, <1>2, <1>3, <1>5, <2>1 DEF Placed
  <2>2. CASE x # s
    BY <1>0, <1>2, <1>3, <1>5, <2>2 DEF EInv, Placed
  <2> QED BY <2>1, <2>2
<1> QED BY <1>2, <1>4, <1>6 DEF EInv

LEMMA SignalLaterKeeps ==
  ASSUME EInv, NEW a, NEW s \in Sigs, SignalLater(a, s)
  PROVE  EInv'
<1>0. /\ s \notin used /\ used' = used \cup {s}
      /\ UNCHANGED <<queue, dying, current>>
  BY DEF SignalLater, loop
<1>1. /\ ~InQueue(s) /\ ~InTimer(s) /\ ~InHands(s)
      /\ current # s /\ done[s] = 0
  BY <1>0, Fresh
<1>2. /\ OnceInQueue' /\ OnceInHands'
      /\ \A x \in Sigs : (InQueue(x)' <=> InQueue(x))
                       /\ (InHands(x)' <=> InHands(x))
  BY <1>0 DEF EInv, OnceInQueue, OnceInHands, InQueue, InHands
<1>3. ASSUME NEW t \in Timers, t \in Available \/ ~timer[t].made
      PROVE  timer[t].payload = Nobody
  BY <1>3 DEF Available, EInv, Guarded
<1>4. CASE \E t \in Timers :
             /\ t \in Available \/ (Available = {} /\ ~timer[t].made)
             /\ timer' = [timer EXCEPT ![t].made = TRUE, ![t].armed = TRUE,
                                       ![t].payload = s, ![t].active = TRUE]
             /\ UNCHANGED done
  <2>1. PICK t \in Timers :
             /\ t \in Available \/ ~timer[t].made
             /\ timer' = [timer EXCEPT ![t].made = TRUE, ![t].armed = TRUE,
                                       ![t].payload = s, ![t].active = TRUE]
             /\ UNCHANGED done
    BY <1>4
  <2>2. /\ timer' \in [Timers -> Timer] /\ timer'[t].payload = s
        /\ timer'[t].made /\ timer'[t].active
        /\ \A u \in Timers : u # t => timer'[u] = timer[u]
    <3> DEFINE new == [timer[t] EXCEPT !.made = TRUE, !.armed = TRUE,
                                       !.payload = s, !.active = TRUE]
    <3>1. timer[t] \in Timer /\ timer \in [Timers -> Timer]
      BY DEF EInv, Shape
    <3>2. new \in Timer /\ new.payload = s /\ new.made /\ new.active
      BY <3>1 DEF Timer
    <3>3. timer' = [timer EXCEPT ![t] = new]
      BY <2>1, <3>1 DEF Timer
    <3> HIDE DEF new
    <3> QED BY <3>1, <3>2, <3>3
  <2>3. OnceInTimer' /\ \A x \in Sigs : InTimer(x)' <=> (InTimer(x) \/ x = s)
    BY <1>1, <1>3, <2>1, <2>2, PayloadSet
  <2>4. (Shape /\ Guarded)'
    <3>1. Shape'
      BY <1>0, <2>1, <2>2 DEF EInv, Shape
    <3>2. Guarded'
      BY <2>2 DEF EInv, Guarded
    <3> QED BY <3>1, <3>2
  <2>5. ASSUME NEW x \in Sigs PROVE Placed(x)'
    <3>1. CASE x = s
      BY <1>0, <1>1, <1>2, <2>1, <2>3, <3>1 DEF Placed
    <3>2. CASE x # s
      BY <1>0, <1>2, <2>1, <2>3, <3>2 DEF EInv, Placed
    <3> QED BY <3>1, <3>2
  <2> QED BY <1>2, <2>3, <2>4, <2>5 DEF EInv
<1>5. CASE /\ Free(s)
           /\ \/ UNCHANGED timer
              \/ \E t \in Timers :
                   /\ t \in Available \/ (Available = {} /\ ~timer[t].made)
                   /\ timer' = [timer EXCEPT ![t].made = TRUE,
                                             ![t].payload = Nobody]
  <2>1. /\ done' \in [Sigs -> Nat] /\ done'[s] = 1
        /\ \A x \in Sigs : x # s => done'[x] = done[x]
    BY <1>1, <1>5, Freed
  <2>2. /\ timer' \in [Timers -> Timer] /\ Guarded'
        /\ \A u \in Timers : timer'[u].payload = timer[u].payload
    <3>1. CASE UNCHANGED timer
      BY <3>1 DEF EInv, Shape, Guarded
    <3>2. ASSUME NEW t \in Timers, t \in Available \/ ~timer[t].made,
                 timer' = [timer EXCEPT ![t].made = TRUE, ![t].payload = Nobody]
          PROVE  /\ timer' \in [Timers -> Timer] /\ Guarded'
                 /\ \A u \in Timers : timer'[u].payload = timer[u].payload
      BY <1>3, <3>2 DEF EInv, Shape, Guarded, Timer
    <3> QED BY <1>5, <3>1, <3>2
  <2>3. OnceInTimer' /\ \A x \in Sigs : InTimer(x)' <=> InTimer(x)
    BY <2>2 DEF EInv, OnceInTimer, InTimer
  <2>4. Shape'
    BY <1>0, <2>1, <2>2 DEF EInv, Shape
  <2>5. ASSUME NEW x \in Sigs PROVE Placed(x)'
    <3>1. CASE x = s
      BY <1>0, <1>1, <1>2, <2>1, <2>3, <3>1 DEF Placed
    <3>2. CASE x # s
      BY <1>0, <1>2, <2>1, <2>3, <3>2 DEF EInv, Placed
    <3> QED BY <3>1, <3>2
  <2> QED BY <1>2, <2>2, <2>3, <2>4, <2>5 DEF EInv
<1> QED BY <1>4, <1>5 DEF SignalLater

\* The timer service takes the timer off its list: the payload stays.
LEMMA ExpireKeeps ==
  ASSUME EInv, NEW t \in Timers, Expire(t)
  PROVE  EInv'
<1>1. /\ UNCHANGED <<queue, dying, current, used, done>>
      /\ timer' = [timer EXCEPT ![t].armed = FALSE, ![t].due = TRUE]
  BY DEF Expire, loop, books
<1>2. /\ timer' \in [Timers -> Timer]
      /\ \A u \in Timers : /\ timer'[u].payload = timer[u].payload
                           /\ timer'[u].made = timer[u].made
                           /\ timer'[u].active = timer[u].active
  BY <1>1 DEF EInv, Shape, Timer
<1>3. Shape'
  BY <1>1, <1>2 DEF EInv, Shape
<1>4. Guarded' /\ OnceInTimer'
  BY <1>2 DEF EInv, Guarded, OnceInTimer
<1>5. OnceInQueue' /\ OnceInHands'
  BY <1>1 DEF EInv, OnceInQueue, OnceInHands
<1>6. \A s \in Sigs : /\ InQueue(s)' <=> InQueue(s)
                      /\ InHands(s)' <=> InHands(s)
                      /\ InTimer(s)' <=> InTimer(s)
  BY <1>1, <1>2 DEF InQueue, InHands, InTimer
<1>7. \A s \in Sigs : Placed(s)'
  BY <1>1, <1>6 DEF EInv, Placed
<1> QED BY <1>3, <1>4, <1>5, <1>7 DEF EInv

\* The callback of a timer moves its payload to the queue, to the hands of
\* the timer task, or frees it.
LEMMA SignalScheduledKeeps ==
  ASSUME EInv, NEW t \in Timers, SignalScheduledEvent(t)
  PROVE  EInv'
<1>0. UNCHANGED <<current, used>> /\ Nobody \notin Sigs
  BY DispatcherAssumption DEF SignalScheduledEvent, loop
<1>1. timer[t].payload \in Sigs \cup {Nobody}
  BY DEF EInv, Shape, Timer
<1>2. CASE timer[t].payload = Nobody
  <2>1. /\ timer' = [timer EXCEPT ![t].due = FALSE]
        /\ UNCHANGED <<queue, dying, done>>
    BY <1>2 DEF SignalScheduledEvent
  <2>2. /\ timer' \in [Timers -> Timer]
        /\ \A u \in Timers : /\ timer'[u].payload = timer[u].payload
                             /\ timer'[u].made = timer[u].made
                             /\ timer'[u].active = timer[u].active
    BY <2>1 DEF EInv, Shape, Timer
  <2>3. Shape'
    BY <1>0, <2>1, <2>2 DEF EInv, Shape
  <2>4. Guarded' /\ OnceInTimer'
    BY <2>2 DEF EInv, Guarded, OnceInTimer
  <2>5. OnceInQueue' /\ OnceInHands'
    BY <2>1 DEF EInv, OnceInQueue, OnceInHands
  <2>6. \A x \in Sigs : /\ InQueue(x)' <=> InQueue(x)
                        /\ InHands(x)' <=> InHands(x)
                        /\ InTimer(x)' <=> InTimer(x)
    BY <2>1, <2>2 DEF InQueue, InHands, InTimer
  <2>7. \A x \in Sigs : Placed(x)'
    BY <1>0, <2>1, <2>6 DEF EInv, Placed
  <2> QED BY <2>3, <2>4, <2>5, <2>7 DEF EInv
<1>3. ASSUME NEW s \in Sigs, timer[t].payload = s PROVE EInv'
  <2> DEFINE lost == ~Fits /\ ~Important(NameOf[s])
  <2>0. s # Nobody
    BY <1>0, <1>3
  <2>1. /\ Post(TimerTask, SignalMsg(s), NameOf[s])
        /\ IF lost THEN Free(s) ELSE done' = done
        /\ timer' = [timer EXCEPT ![t].due = FALSE, ![t].payload = Nobody,
                        ![t].active = ~Fits /\ Important(NameOf[s])]
    BY <1>3, <2>0 DEF SignalScheduledEvent
  <2>2. /\ InTimer(s) /\ ~InQueue(s) /\ ~InHands(s)
        /\ current # s /\ done[s] = 0 /\ s \in used
    BY <1>3 DEF EInv, Placed, InTimer
  <2>3. /\ timer' \in [Timers -> Timer] /\ timer'[t].payload = Nobody
        /\ \A u \in Timers : u # t => timer'[u] = timer[u]
    <3>1. (~Fits /\ Important(NameOf[s])) \in BOOLEAN
      OBVIOUS
    <3> DEFINE stays == ~Fits /\ Important(NameOf[s])
    <3>2. timer' = [timer EXCEPT ![t].due = FALSE, ![t].payload = Nobody,
                                 ![t].active = stays]
      BY <2>1
    <3>3. stays \in BOOLEAN
      BY <3>1
    <3> HIDE DEF stays
    <3> QED BY <3>2, <3>3 DEF EInv, Shape, Timer
  <2>4. /\ OnceInTimer'
        /\ \A x \in Sigs : InTimer(x)' <=> (InTimer(x) /\ x # s)
    BY <1>3, <2>3, PayloadTaken
  <2>5. /\ queue' \in Seq(Message) /\ OnceInQueue' /\ OnceInHands'
        /\ \A x \in Sigs : x # s => (/\ InQueue(x)' <=> InQueue(x)
                                     /\ InHands(x)' <=> InHands(x))
        /\ InQueue(s)' <=> Fits
        /\ InHands(s)' <=> (~Fits /\ Important(NameOf[s]))
    BY <1>3, <2>1, <2>2, Posted, SignalMsgs
  <2>6. /\ done' \in [Sigs -> Nat] /\ done'[s] = (IF lost THEN 1 ELSE 0)
        /\ \A x \in Sigs : x # s => done'[x] = done[x]
    <3>1. CASE lost
      BY <1>3, <2>1, <2>2, <3>1, Freed
    <3>2. CASE ~lost
      BY <2>1, <2>2, <3>2 DEF EInv, Shape
    <3> QED BY <3>1, <3>2
  <2>7. Shape'
    BY <1>0, <2>3, <2>5, <2>6 DEF EInv, Shape
  <2>8. Guarded'
    BY <2>3 DEF EInv, Guarded
  <2>9. ASSUME NEW x \in Sigs PROVE Placed(x)'
    <3>1. CASE x = s
      BY <1>0, <2>2, <2>4, <2>5, <2>6, <3>1 DEF Placed
    <3>2. CASE x # s
      BY <1>0, <2>4, <2>5, <2>6, <3>2 DEF EInv, Placed
    <3> QED BY <3>1, <3>2
  <2> QED BY <2>4, <2>5, <2>7, <2>8, <2>9 DEF EInv
<1> QED BY <1>1, <1>2, <1>3

\* The events task takes a message that is no signal.
LEMMA HandlersKeep ==
  ASSUME EInv, AddHandler \/ RemoveHandlers
  PROVE  EInv'
<1>1. /\ queue # <<>> /\ queue' = Tail(queue) /\ Head(queue).type # "signal"
      /\ UNCHANGED <<timer, dying, current, used, done>>
  BY DEF AddHandler, RemoveHandlers, CanTake, loop, books
<1>2. \A s \in Sigs : Head(queue) # SignalMsg(s)
  BY <1>1 DEF SignalMsg
<1>3. /\ queue' \in Seq(Message) /\ OnceInQueue'
      /\ \A s \in Sigs : InQueue(s)' <=> InQueue(s)
  BY <1>1, <1>2, HeadTaken
<1>4. (Shape /\ Guarded /\ OnceInTimer /\ OnceInHands)'
  BY <1>1, <1>3 DEF EInv, Shape, Guarded, OnceInTimer, OnceInHands
<1>5. \A s \in Sigs : /\ InTimer(s)' <=> InTimer(s)
                      /\ InHands(s)' <=> InHands(s)
  BY <1>1 DEF InTimer, InHands
<1>6. \A s \in Sigs : Placed(s)'
  BY <1>1, <1>3, <1>5 DEF EInv, Placed
<1> QED BY <1>3, <1>4, <1>6 DEF EInv

\* The events task takes a signal: from the queue to the dispatch.
LEMMA BeginSignalKeeps ==
  ASSUME EInv, BeginSignal
  PROVE  EInv'
<1>1. /\ queue # <<>> /\ queue' = Tail(queue) /\ Head(queue).type = "signal"
      /\ current = Nobody /\ current' = Head(queue).what
      /\ UNCHANGED <<timer, dying, used, done>>
  BY DEF BeginSignal, CanTake
<1>2. /\ queue' \in Seq(Message) /\ OnceInQueue' /\ Head(queue) \in Message
      /\ \A s \in Sigs :
           /\ Head(queue) # SignalMsg(s) => (InQueue(s)' <=> InQueue(s))
           /\ Head(queue) = SignalMsg(s) => InQueue(s) /\ ~InQueue(s)'
  BY <1>1, HeadTaken
<1>3. PICK s \in Sigs : Head(queue) = SignalMsg(s)
  BY <1>1, <1>2 DEF Message, SignalMsg
<1>4. current' = s /\ \A x \in Sigs : Head(queue) = SignalMsg(x) <=> x = s
  BY <1>1, <1>3 DEF SignalMsg
<1>5. (Shape /\ Guarded /\ OnceInTimer /\ OnceInHands)'
  BY <1>1, <1>2, <1>4 DEF EInv, Shape, Guarded, OnceInTimer, OnceInHands
<1>6. \A x \in Sigs : /\ InTimer(x)' <=> InTimer(x)
                      /\ InHands(x)' <=> InHands(x)
  BY <1>1 DEF InTimer, InHands
<1>7. ASSUME NEW x \in Sigs PROVE Placed(x)'
  <2>0. x # Nobody
    BY DispatcherAssumption
  <2>1. CASE x = s
    BY <1>1, <1>2, <1>4, <1>6, <2>1 DEF EInv, Placed
  <2>2. CASE x # s
    BY <1>1, <1>2, <1>4, <1>6, <2>0, <2>2 DEF EInv, Placed
  <2> QED BY <2>1, <2>2
<1> QED BY <1>2, <1>5, <1>7 DEF EInv

\* The dispatch ends: its signal is finished.  (A script runs only during a
\* dispatch; without one nothing is freed, for done has no such entry.)
LEMMA EndSignalKeeps ==
  ASSUME EInv, EndSignal
  PROVE  EInv'
<1>0. /\ Free(current) /\ current' = Nobody /\ Nobody \notin Sigs
      /\ UNCHANGED <<queue, timer, dying, used>>
  BY DispatcherAssumption DEF EndSignal
<1>1. (Guarded /\ OnceInQueue /\ OnceInTimer /\ OnceInHands)'
  BY <1>0 DEF EInv, Guarded, OnceInQueue, OnceInTimer, OnceInHands
<1>2. \A x \in Sigs : /\ InQueue(x)' <=> InQueue(x)
                      /\ InTimer(x)' <=> InTimer(x)
                      /\ InHands(x)' <=> InHands(x)
  BY <1>0 DEF InQueue, InTimer, InHands
<1>3. CASE current \in Sigs
  <2>1. done[current] = 0 /\ current \in used
    BY <1>3 DEF EInv, Placed
  <2>2. /\ done' \in [Sigs -> Nat] /\ done'[current] = 1
        /\ \A x \in Sigs : x # current => done'[x] = done[x]
    BY <1>0, <1>3, <2>1, Freed
  <2>3. Shape'
    BY <1>0, <2>2 DEF EInv, Shape
  <2>4. ASSUME NEW x \in Sigs PROVE Placed(x)'
    <3>1. CASE x = current
      BY <1>0, <1>2, <2>1, <2>2, <3>1 DEF EInv, Placed
    <3>2. CASE x # current
      BY <1>0, <1>2, <2>2, <3>2 DEF EInv, Placed
    <3> QED BY <3>1, <3>2
  <2> QED BY <1>1, <2>3, <2>4 DEF EInv
<1>4. CASE current = Nobody
  <2>1. done' = done
    BY <1>0, <1>4 DEF EInv, Shape, Free
  <2> QED BY <1>0, <1>4, <2>1, Untouched
<1> QED BY <1>3, <1>4 DEF EInv, Shape

LEMMA NextKeeps == EInv /\ [Next]_vars => EInv'
<1> SUFFICES ASSUME EInv, [Next]_vars PROVE EInv'
  OBVIOUS
<1>1. CASE UNCHANGED vars
  BY <1>1, Untouched DEF vars, loop, books
<1>2. CASE EventLoop
  <2>1. CASE AddHandler \/ RemoveHandlers
    BY <2>1, HandlersKeep
  <2>2. CASE BeginSignal
    BY <2>2, BeginSignalKeeps
  <2>3. CASE (\E h \in Handlers : Visit(h)) \/ Return \/ RunScripts
    BY <2>3, Untouched DEF Visit, Return, RunScripts, books
  <2>4. CASE EndSignal
    BY <2>4, EndSignalKeeps
  <2> QED BY <1>2, <2>1, <2>2, <2>3, <2>4 DEF EventLoop
<1>3. CASE TimerService
  BY <1>3, ExpireKeeps, SignalScheduledKeeps DEF TimerService
<1>4. CASE Abort
  BY <1>4, Untouched DEF Abort, loop, books
<1>5. ASSUME NEW a \in Actors, NEW h \in Handlers, RegisterEvent(a, h)
      PROVE  EInv'
  BY <1>5, RegisterKeeps
<1>6. ASSUME NEW a \in Actors, NEW c \in Callers, DeregisterEvent(a, c)
      PROVE  EInv'
  BY <1>6, DeregisterKeeps
<1>7. ASSUME NEW a \in Actors, NEW s \in Sigs,
             SignalNow(a, s) \/ SignalLater(a, s)
      PROVE  EInv'
  BY <1>7, SignalNowKeeps, SignalLaterKeeps
<1> QED BY <1>1, <1>2, <1>3, <1>4, <1>5, <1>6, <1>7 DEF Next

\* Every signal raised has one place, or is finished: EInv holds always.
THEOREM EventsInvariance == Spec => []EInv
BY InitHolds, NextKeeps, PTL DEF Spec

\* A signal's data is freed, or its semaphore given, exactly once
\* (FreeQueueSignalEvent), whatever its way through the timers, the queue and
\* the overflows, for every number of tasks, timers and signals.
THEOREM EventsSignalsConserved == Spec => []SignalsConserved
BY EventsInvariance, Conserved, PTL

-----------------------------------------------------------------------------
(* DeregisterEvent on the events task silences at once.                    *)

\* A silenced handler has lost its callback: m_callback is never set again.
Silent == silenced \subseteq Handlers /\ silenced \cap valid = {}

\* DeregisterEvent clears what it silences, and nothing sets a callback.
LEMMA SilentKept == Silent /\ [Next]_vars => Silent'
<1> SUFFICES ASSUME Silent, [Next]_vars PROVE Silent'
  OBVIOUS
<1>1. CASE UNCHANGED <<silenced, valid>>
  BY <1>1 DEF Silent
<1>2. ASSUME NEW a \in Actors, NEW c \in Callers, DeregisterEvent(a, c)
      PROVE  Silent'
  <2>1. \/ UNCHANGED <<silenced, valid>>
        \/ silenced' = silenced \cup Entries(c) /\ valid' = valid \ Entries(c)
    BY <1>2 DEF DeregisterEvent, Invalidate
  <2>2. Entries(c) \subseteq Handlers
    BY DEF Entries, Listed
  <2> QED BY <1>1, <2>1, <2>2 DEF Silent
<1>3. CASE EventLoop
  BY <1>1, <1>3 DEF EventLoop, AddHandler, RemoveHandlers, BeginSignal, Visit,
     Return, RunScripts, EndSignal, books
<1>4. CASE TimerService
  BY <1>1, <1>4 DEF TimerService, Expire, SignalScheduledEvent, books
<1>5. CASE Abort \/ UNCHANGED vars
  BY <1>1, <1>5 DEF Abort, vars, books
<1>6. ASSUME NEW a \in Actors, NEW h \in Handlers, RegisterEvent(a, h)
      PROVE  Silent'
  BY <1>1, <1>6 DEF RegisterEvent
<1>7. ASSUME NEW a \in Actors, NEW s \in Sigs,
             SignalNow(a, s) \/ SignalLater(a, s)
      PROVE  Silent'
  BY <1>1, <1>7 DEF SignalNow, SignalLater
<1> QED BY <1>2, <1>3, <1>4, <1>5, <1>6, <1>7 DEF Next

\* No step makes a silenced handler the running one.
LEMMA SilentStep ==
  Silent /\ [Next]_vars => \A h \in silenced : running' = h => running = h
<1> SUFFICES ASSUME Silent, [Next]_vars, NEW h \in silenced, running' = h
             PROVE  running = h
  OBVIOUS
<1>0. h # Nobody /\ h # Script /\ h \notin valid
  BY DispatcherAssumption DEF Silent
<1>1. CASE running' = running
  BY <1>1
<1>2. CASE EventLoop
  <2>1. CASE \E x \in Handlers : Visit(x)
    BY <1>0, <1>1, <2>1 DEF Visit, HasCallback
  <2>2. CASE Return \/ RunScripts \/ EndSignal
    BY <1>0, <2>2 DEF Return, RunScripts, EndSignal
  <2>3. CASE AddHandler \/ RemoveHandlers \/ BeginSignal
    BY <1>1, <2>3 DEF AddHandler, RemoveHandlers, BeginSignal, loop
  <2> QED BY <1>2, <2>1, <2>2, <2>3 DEF EventLoop
<1>3. CASE TimerService
  BY <1>1, <1>3 DEF TimerService, Expire, SignalScheduledEvent, loop
<1>4. CASE Abort \/ UNCHANGED vars
  BY <1>1, <1>4 DEF Abort, vars, loop
<1>5. ASSUME NEW a \in Actors, NEW x \in Handlers, RegisterEvent(a, x)
      PROVE  running = h
  BY <1>1, <1>5 DEF RegisterEvent, loop
<1>6. ASSUME NEW a \in Actors, NEW c \in Callers, DeregisterEvent(a, c)
      PROVE  running = h
  BY <1>1, <1>6 DEF DeregisterEvent, loop
<1>7. ASSUME NEW a \in Actors, NEW s \in Sigs,
             SignalNow(a, s) \/ SignalLater(a, s)
      PROVE  running = h
  BY <1>1, <1>7 DEF SignalNow, SignalLater, loop
<1> QED BY <1>2, <1>3, <1>4, <1>5, <1>6, <1>7 DEF Next

\* DeregisterEvent's promise to a component that is going away: no later
\* dispatch, and not the one in progress, calls its handlers.
THEOREM EventsSilencedAtOnce == Spec => SilencedAtOnce
<1>1. Init => Silent
  BY DEF Init, Silent
<1>2. Silent /\ [Next]_vars
        => [\A h \in silenced : running' = h => running = h]_vars
  BY SilentStep
<1> QED BY <1>1, <1>2, SilentKept, PTL DEF Spec, SilencedAtOnce

-----------------------------------------------------------------------------
(* The types of all variables.                                             *)

\* What TypeOK says beyond Shape.
Others ==
  /\ Len(queue) <= QueueSize
  /\ place \in [Handlers -> Nat] /\ added \in Nat /\ valid \subseteq Handlers
  /\ at \in Handlers \cup {Nobody}
  /\ running \in Handlers \cup {Nobody, Script}
  /\ dying \subseteq [task : Actors \cup {TimerTask}, msg : Message]
  /\ crashed \in BOOLEAN
  /\ registered \subseteq Handlers /\ left \subseteq Callers
  /\ called \subseteq Handlers /\ before \in [Handlers -> SUBSET Sigs]
  /\ silenced \subseteq Handlers /\ going \subseteq Handlers

\* A message goes into a queue with room, or into the hands of its task.
LEMMA PostTypes ==
  ASSUME EInv, Others, NEW a \in Actors \cup {TimerTask}, NEW m \in Message,
         NEW n, Post(a, m, n)
  PROVE  /\ Len(queue') <= QueueSize
         /\ dying' \subseteq [task : Actors \cup {TimerTask}, msg : Message]
<1>1. queue \in Seq(Message) /\ QueueSize \in Nat
  BY DispatcherAssumption DEF EInv, Shape
<1>2. CASE Fits /\ queue' = Append(queue, m) /\ UNCHANGED dying
  <2>1. Len(queue') = Len(queue) + 1 /\ Len(queue) \in Nat
    BY <1>1, <1>2
  <2> QED BY <1>1, <1>2, <2>1 DEF Fits, Others
<1>3. CASE UNCHANGED queue /\ Overflow(a, m, n)
  <2>1. [task |-> a, msg |-> m]
          \in [task : Actors \cup {TimerTask}, msg : Message]
    OBVIOUS
  <2> QED BY <1>3, <2>1 DEF Overflow, Others
<1> QED BY <1>2, <1>3 DEF Post

\* The events task takes the head.
LEMMA TakenTypes ==
  ASSUME EInv, Others, queue # <<>>, queue' = Tail(queue)
  PROVE  Len(queue') <= QueueSize
<1>1. queue \in Seq(Message) /\ QueueSize \in Nat
  BY DispatcherAssumption DEF EInv, Shape
<1>2. Len(queue') = Len(queue) - 1 /\ Len(queue) \in Nat
  BY <1>1, HeadTailProperties
<1> QED BY <1>1, <1>2 DEF Others

\* The calls of RegisterEvent and DeregisterEvent.
LEMMA CallTypes ==
  ASSUME EInv, Others, NEW a \in Actors
  PROVE  /\ \A h \in Handlers : RegisterEvent(a, h) => Others'
         /\ \A c \in Callers : DeregisterEvent(a, c) => Others'
<1>1. ASSUME NEW h \in Handlers, RegisterEvent(a, h) PROVE Others'
  <2>1. AddMsg(h) \in Message
    BY DEF AddMsg, Message
  <2>2. /\ Len(queue') <= QueueSize
        /\ dying' \subseteq [task : Actors \cup {TimerTask}, msg : Message]
    BY <1>1, <2>1, PostTypes DEF RegisterEvent
  <2> DEFINE earlier ==
               {s \in Sigs : current = s \/ Contains(queue, SignalMsg(s))}
  <2>3. before' = [before EXCEPT ![h] = earlier] /\ earlier \subseteq Sigs
    BY <1>1 DEF RegisterEvent
  <2> HIDE DEF earlier
  <2>4. before' \in [Handlers -> SUBSET Sigs]
    BY <2>3 DEF Others
  <2> QED BY <1>1, <2>2, <2>4 DEF RegisterEvent, Others, lists, loop
<1>2. ASSUME NEW c \in Callers, DeregisterEvent(a, c) PROVE Others'
  <2>1. RemoveMsg(c) \in Message
    BY <1>2 DEF RemoveMsg, Message
  <2>2. /\ Len(queue') <= QueueSize
        /\ dying' \subseteq [task : Actors \cup {TimerTask}, msg : Message]
    BY <1>2, <2>1, PostTypes DEF DeregisterEvent
  <2>3. Entries(c) \subseteq Handlers
    BY DEF Entries, Listed
  <2>4. valid' \subseteq Handlers /\ silenced' \subseteq Handlers
        /\ going' \subseteq Handlers /\ left' \subseteq Callers
    BY <1>2, <2>3 DEF DeregisterEvent, Invalidate, Others
  <2> QED BY <1>2, <2>2, <2>4 DEF DeregisterEvent, Others, lists, loop
<1> QED BY <1>1, <1>2

\* The signals, from the callers and from the timers.
LEMMA SignalTypes ==
  ASSUME EInv, Others
  PROVE  /\ \A a \in Actors, s \in Sigs :
              SignalNow(a, s) \/ SignalLater(a, s) => Others'
         /\ TimerService => Others'
<1>1. ASSUME NEW a \in Actors, NEW s \in Sigs, SignalNow(a, s) PROVE Others'
  <2>1. /\ Len(queue') <= QueueSize
        /\ dying' \subseteq [task : Actors \cup {TimerTask}, msg : Message]
    BY <1>1, SignalMsgs, PostTypes DEF SignalNow
  <2> QED BY <1>1, <2>1 DEF SignalNow, Others, lists, loop
<1>2. ASSUME NEW a \in Actors, NEW s \in Sigs, SignalLater(a, s) PROVE Others'
  BY <1>2 DEF SignalLater, Others, lists, loop
<1>3. ASSUME NEW t \in Timers, Expire(t) PROVE Others'
  BY <1>3 DEF Expire, Others, lists, loop, books
<1>4. ASSUME NEW t \in Timers, SignalScheduledEvent(t) PROVE Others'
  <2>1. timer[t].payload \in Sigs \cup {Nobody}
    BY DEF EInv, Shape, Timer
  <2>2. /\ Len(queue') <= QueueSize
        /\ dying' \subseteq [task : Actors \cup {TimerTask}, msg : Message]
    <3>1. CASE timer[t].payload = Nobody
      BY <1>4, <3>1 DEF SignalScheduledEvent, Others
    <3>2. CASE timer[t].payload \in Sigs /\ timer[t].payload # Nobody
      BY <1>4, <3>2, SignalMsgs, PostTypes DEF SignalScheduledEvent
    <3> QED BY <2>1, <3>1, <3>2
  <2> QED BY <1>4, <2>2 DEF SignalScheduledEvent, Others, lists, loop
<1> QED BY <1>1, <1>2, <1>3, <1>4 DEF TimerService

\* The events task.
LEMMA LoopTypes ==
  ASSUME EInv, Others, EventLoop
  PROVE  Others'
<1>1. CASE AddHandler \/ RemoveHandlers
  <2>1. Head(queue) \in Message /\ Len(queue') <= QueueSize
    BY <1>1, HeadTaken, TakenTypes DEF AddHandler, RemoveHandlers, CanTake
  <2>2. place' \in [Handlers -> Nat] /\ added' \in Nat
    BY <1>1 DEF AddHandler, RemoveHandlers, PushBack, Others
  <2> QED BY <1>1, <2>1, <2>2 DEF AddHandler, RemoveHandlers, Others, loop, books
<1>2. CASE BeginSignal
  <2>1. Len(queue') <= QueueSize
    BY <1>2, TakenTypes DEF BeginSignal, CanTake
  <2> QED BY <1>2, <2>1 DEF BeginSignal, Others, lists
<1>3. ASSUME NEW h \in Handlers, Visit(h) PROVE Others'
  BY <1>3 DEF Visit, Others, lists
<1>4. CASE Return \/ RunScripts
  BY <1>4 DEF Return, RunScripts, Others, lists, books
<1>5. CASE EndSignal
  BY <1>5 DEF EndSignal, Others, lists
<1> QED BY <1>1, <1>2, <1>3, <1>4, <1>5 DEF EventLoop

LEMMA OthersInit == Init => Others
<1> SUFFICES ASSUME Init PROVE Others
  OBVIOUS
<1>1. Len(queue) = 0 /\ QueueSize \in Nat /\ 0 <= QueueSize
  BY DispatcherAssumption DEF Init
<1> QED BY <1>1 DEF Init, Others

LEMMA OthersKept == EInv /\ Others /\ [Next]_vars => Others'
<1> SUFFICES ASSUME EInv, Others, [Next]_vars PROVE Others'
  OBVIOUS
<1>1. CASE UNCHANGED vars
  BY <1>1 DEF vars, lists, loop, books, Others
<1>2. CASE Abort
  BY <1>2 DEF Abort, lists, loop, books, Others
<1> QED BY <1>1, <1>2, CallTypes, SignalTypes, LoopTypes DEF Next

\* The types of the dispatcher's variables, its queue never longer than
\* CONFIG_OVMS_HW_EVENT_QUEUE_SIZE.
THEOREM EventsTypes == Spec => []TypeOK
<1>1. Init => Others
  BY OthersInit
<1>2. EInv /\ Others => TypeOK
  BY DEF EInv, Shape, Others, TypeOK
<1> QED BY <1>1, <1>2, EventsInvariance, OthersKept, PTL DEF Spec

-----------------------------------------------------------------------------
(* A handler is not called for what was posted before it.  Its adding      *)
(* waits in the queue behind those signals, so that they are finished when *)
(* it comes into a list.                                                   *)

Adding(h) == \E i \in DOMAIN queue : queue[i] = AddMsg(h)

Ahead(s, h) ==
  \A i, j \in DOMAIN queue :
    queue[i] = AddMsg(h) /\ queue[j] = SignalMsg(s) => j < i

\* A handler that is on its way or in a list was registered.
Known == \A h \in Handlers : Adding(h) \/ h \in Listed => h \in registered

\* The signal s, posted before the handler h.
Passed(s, h) ==
  /\ h \in registered
  /\ InQueue(s) \/ current = s \/ done[s] = 1
  /\ Ahead(s, h)
  /\ h \in Listed => done[s] = 1

Earlier == Known /\ \A h \in Handlers : \A s \in before[h] : Passed(s, h)

\* What a message at the end of the queue does to the order.
LEMMA PostOrder ==
  ASSUME EInv, NEW a, NEW m \in Message, NEW n, Post(a, m, n)
  PROVE  /\ \A s \in Sigs : InQueue(s) => InQueue(s)'
         /\ \A h \in Handlers : Adding(h)' => Adding(h) \/ m = AddMsg(h)
         /\ \A s \in Sigs, h \in Handlers :
              Ahead(s, h) /\ m # SignalMsg(s) => Ahead(s, h)'
<1>1. queue \in Seq(Message)
  BY DEF EInv, Shape
<1>2. CASE Fits /\ queue' = Append(queue, m) /\ UNCHANGED dying
  <2> DEFINE last == Len(queue) + 1
  <2>1. /\ queue'[last] = m
        /\ \A i \in DOMAIN queue : /\ i \in DOMAIN queue' /\ i < last
                                   /\ queue'[i] = queue[i]
        /\ \A i \in DOMAIN queue' : i \in DOMAIN queue \/ i = last
    BY <1>1, <1>2
  <2> HIDE DEF last
  <2>2. \A s \in Sigs : InQueue(s) => InQueue(s)'
    BY <2>1 DEF InQueue
  <2>3. \A h \in Handlers : Adding(h)' => Adding(h) \/ m = AddMsg(h)
    BY <2>1 DEF Adding
  <2>4. ASSUME NEW s \in Sigs, NEW h \in Handlers, Ahead(s, h),
               m # SignalMsg(s)
        PROVE  Ahead(s, h)'
    BY <2>1, <2>4 DEF Ahead
  <2> QED BY <2>2, <2>3, <2>4
<1>3. CASE UNCHANGED queue
  BY <1>3 DEF InQueue, Adding, Ahead
<1> QED BY <1>2, <1>3 DEF Post

\* What taking the head does to it.
LEMMA TakeOrder ==
  ASSUME EInv, queue # <<>>, queue' = Tail(queue)
  PROVE  /\ \A h \in Handlers : /\ Adding(h)' => Adding(h)
                                /\ Head(queue) = AddMsg(h) => Adding(h)
         /\ \A s \in Sigs, h \in Handlers :
              Ahead(s, h) => /\ Ahead(s, h)'
                             /\ Head(queue) = AddMsg(h) => ~InQueue(s)
<1>1. queue \in Seq(Message)
  BY DEF EInv, Shape
<1>2. /\ Head(queue) = queue[1] /\ 1 \in DOMAIN queue
      /\ \A i \in DOMAIN queue : i \in Nat /\ ~(i < 1)
      /\ \A i \in DOMAIN queue' : /\ i + 1 \in DOMAIN queue /\ i \in Nat
                                  /\ queue'[i] = queue[i + 1]
  <2>1. /\ queue' \in Seq(Message)
        /\ Len(queue') = Len(queue) - 1
        /\ \A i \in 1 .. Len(queue') : queue'[i] = queue[i + 1]
    BY <1>1, HeadTailProperties
  <2>2. Len(queue) \in Nat /\ Len(queue) # 0 /\ Len(queue') \in Nat
    BY <1>1, <2>1, EmptySeq
  <2>3. DOMAIN queue = 1 .. Len(queue) /\ DOMAIN queue' = 1 .. Len(queue')
    BY <1>1, <2>1
  <2>4. Head(queue) = queue[1]
    BY <1>1, HeadTailProperties
  <2> QED BY <2>1, <2>2, <2>3, <2>4
<1>3. \A h \in Handlers : /\ Adding(h)' => Adding(h)
                          /\ Head(queue) = AddMsg(h) => Adding(h)
  BY <1>2 DEF Adding
<1>4. ASSUME NEW s \in Sigs, NEW h \in Handlers, Ahead(s, h)
      PROVE  Ahead(s, h)'
  <2> SUFFICES ASSUME NEW i \in DOMAIN queue', NEW j \in DOMAIN queue',
                      queue'[i] = AddMsg(h), queue'[j] = SignalMsg(s)
               PROVE  j < i
    BY DEF Ahead
  <2>1. j + 1 < i + 1
    BY <1>2, <1>4 DEF Ahead
  <2> QED BY <1>2, <2>1
<1>5. ASSUME NEW s \in Sigs, NEW h \in Handlers, Ahead(s, h),
             Head(queue) = AddMsg(h), InQueue(s)
      PROVE  FALSE
  BY <1>2, <1>5 DEF Ahead, InQueue
<1> QED BY <1>3, <1>4, <1>5

\* What is finished stays so.
LEMMA Finished ==
  ASSUME EInv, EInv', NEW x, UNCHANGED done \/ Free(x)
  PROVE  \A s \in Sigs : done[s] = 1 => done'[s] = 1
<1> SUFFICES ASSUME NEW s \in Sigs, done[s] = 1 PROVE done'[s] = 1
  OBVIOUS
<1>1. done'[s] \in {0, 1}
  BY DEF EInv, Placed
<1>2. done'[s] \in {done[s], done[s] + 1}
  BY DEF EInv, Shape, Free
<1> QED BY <1>1, <1>2

\* The steps that touch neither queue nor lists nor the dispatched signal.
LEMMA EarlierUntouched ==
  ASSUME Earlier, UNCHANGED <<queue, place, current, done, registered, before>>
  PROVE  Earlier'
<1>1. Known'
  BY DEF Earlier, Known, Adding, Listed
<1>2. \A h \in Handlers : \A s \in before'[h] : Passed(s, h)'
  BY DEF Earlier, Passed, InQueue, Ahead, Listed
<1> QED BY <1>1, <1>2 DEF Earlier

\* A message that adds no handler: a signal that no handler has before it, or
\* a removal.
LEMMA EarlierPosted ==
  ASSUME EInv, EInv', Others, Earlier, NEW a, NEW m \in Message, NEW n, NEW x,
         Post(a, m, n), UNCHANGED done \/ Free(x),
         UNCHANGED <<place, current, registered, before>>,
         \A h \in Handlers : m # AddMsg(h),
         \A h \in Handlers : \A s \in before[h] : m # SignalMsg(s)
  PROVE  Earlier'
<1>1. \A h \in Handlers : before[h] \subseteq Sigs
  BY DEF Others
<1>2. Known'
  BY PostOrder DEF Earlier, Known, Listed
<1>3. ASSUME NEW h \in Handlers, NEW s \in before[h] PROVE Passed(s, h)'
  <2>1. s \in Sigs /\ Passed(s, h)
    BY <1>1 DEF Earlier
  <2>2. Ahead(s, h)' /\ (InQueue(s) => InQueue(s)')
    BY <2>1, PostOrder DEF Passed
  <2>3. done[s] = 1 => done'[s] = 1
    BY <2>1, Finished
  <2> QED BY <2>1, <2>2, <2>3 DEF Passed, Listed
<1> QED BY <1>2, <1>3 DEF Earlier

\* RegisterEvent: what is before the new handler is in dispatch, or ahead of
\* its adding in the queue.
LEMMA EarlierRegister ==
  ASSUME EInv, EInv', Others, Earlier, NEW a, NEW h \in Handlers,
         RegisterEvent(a, h)
  PROVE  Earlier'
<1>0. /\ h \notin registered /\ registered' = registered \cup {h}
      /\ Post(a, AddMsg(h), On[h])
      /\ UNCHANGED <<place, current, done>>
  BY DEF RegisterEvent, lists, loop
<1>1. /\ before' = [before EXCEPT ![h] =
           {s \in Sigs : current = s \/ Contains(queue, SignalMsg(s))}]
      /\ before \in [Handlers -> SUBSET Sigs]
  BY DEF RegisterEvent, Others
<1>2. /\ AddMsg(h) \in Message
      /\ \A s \in Sigs : AddMsg(h) # SignalMsg(s)
      /\ \A g \in Handlers : AddMsg(h) = AddMsg(g) => g = h
  BY DEF AddMsg, SignalMsg, Message
<1>3. /\ \A s \in Sigs : InQueue(s) => InQueue(s)'
      /\ \A g \in Handlers : Adding(g)' => Adding(g) \/ g = h
      /\ \A s \in Sigs, g \in Handlers : Ahead(s, g) => Ahead(s, g)'
  <2>1. /\ \A s \in Sigs : InQueue(s) => InQueue(s)'
        /\ \A g \in Handlers : Adding(g)' => Adding(g) \/ AddMsg(h) = AddMsg(g)
        /\ \A s \in Sigs, g \in Handlers :
             Ahead(s, g) /\ AddMsg(h) # SignalMsg(s) => Ahead(s, g)'
    BY <1>0, <1>2, PostOrder
  <2> QED BY <1>2, <2>1
<1>4. Known'
  BY <1>0, <1>3 DEF Earlier, Known, Listed
<1>5. ASSUME NEW g \in Handlers, g # h, NEW s \in before'[g]
      PROVE  Passed(s, g)'
  <2>1. s \in Sigs /\ Passed(s, g)
    BY <1>1, <1>5 DEF Earlier
  <2> QED BY <1>0, <1>3, <2>1 DEF Passed, Listed
<1>6. ASSUME NEW s \in before'[h] PROVE Passed(s, h)'
  <2>1. s \in Sigs /\ (current = s \/ Contains(queue, SignalMsg(s)))
    BY <1>1
  <2>2. Contains(queue, SignalMsg(s)) => InQueue(s)
    BY DEF Contains, InQueue, EInv, Shape
  <2>3. ~Adding(h) /\ h \notin Listed
    BY <1>0 DEF Earlier, Known
  <2>4. Ahead(s, h)'
    BY <1>3, <2>1, <2>3 DEF Ahead, Adding
  <2> QED BY <1>0, <1>3, <2>1, <2>2, <2>3, <2>4 DEF Passed, Listed
<1> QED BY <1>4, <1>5, <1>6 DEF Earlier

\* The signals, from the callers and from the timers.
LEMMA EarlierSignals ==
  ASSUME EInv, EInv', Others, Earlier,
         TimerService \/ (\E a \in Actors, s \in Sigs :
                            SignalNow(a, s) \/ SignalLater(a, s))
  PROVE  Earlier'
<1>0. \A s \in Sigs : \A h \in Handlers : SignalMsg(s) # AddMsg(h)
  BY DEF SignalMsg, AddMsg
<1>1. ASSUME NEW s \in Sigs, NEW h \in Handlers, s \in before[h]
      PROVE  s \in used /\ ~InTimer(s)
  <2>1. Passed(s, h) /\ Placed(s)
    BY <1>1 DEF Earlier, EInv
  <2> QED BY <2>1 DEF Passed, Placed
<1>2. \A h \in Handlers : before[h] \subseteq Sigs
  BY DEF Others
<1>3. ASSUME NEW a \in Actors, NEW s \in Sigs, SignalNow(a, s) PROVE Earlier'
  <2>1. \A h \in Handlers : \A x \in before[h] : SignalMsg(s) # SignalMsg(x)
    BY <1>1, <1>2, <1>3, SignalMsgs DEF SignalNow
  <2>2. /\ Post(a, SignalMsg(s), NameOf[s])
        /\ UNCHANGED done \/ Free(s)
        /\ UNCHANGED <<place, current, registered, before>>
    BY <1>3 DEF SignalNow, lists, loop
  <2> QED BY <1>0, <2>1, <2>2, SignalMsgs, EarlierPosted
<1>4. ASSUME NEW a \in Actors, NEW s \in Sigs, SignalLater(a, s) PROVE Earlier'
  <2>1. /\ UNCHANGED <<queue, place, current, registered, before>>
        /\ UNCHANGED done \/ Free(s)
    BY <1>4 DEF SignalLater, lists, loop
  <2>2. Known'
    BY <2>1 DEF Earlier, Known, Adding, Listed
  <2>3. ASSUME NEW h \in Handlers, NEW x \in before'[h] PROVE Passed(x, h)'
    <3>1. x \in Sigs /\ Passed(x, h)
      BY <1>2, <2>1 DEF Earlier
    <3>2. done[x] = 1 => done'[x] = 1
      BY <2>1, <3>1, Finished
    <3> QED BY <2>1, <3>1, <3>2 DEF Passed, InQueue, Ahead, Listed
  <2> QED BY <2>2, <2>3 DEF Earlier
<1>5. ASSUME NEW t \in Timers, Expire(t) PROVE Earlier'
  BY <1>5, EarlierUntouched DEF Expire, lists, loop, books
<1>6. ASSUME NEW t \in Timers, SignalScheduledEvent(t) PROVE Earlier'
  <2>0. UNCHANGED <<place, current, registered, before>>
    BY <1>6 DEF SignalScheduledEvent, lists, loop
  <2>1. timer[t].payload \in Sigs \cup {Nobody}
    BY DEF EInv, Shape, Timer
  <2>2. CASE timer[t].payload = Nobody
    BY <1>6, <2>0, <2>2, EarlierUntouched DEF SignalScheduledEvent
  <2>3. ASSUME NEW s \in Sigs, timer[t].payload = s, s # Nobody PROVE Earlier'
    <3>1. InTimer(s)
      BY <2>3 DEF InTimer
    <3>2. \A h \in Handlers : \A x \in before[h] : SignalMsg(s) # SignalMsg(x)
      BY <1>1, <1>2, <3>1, SignalMsgs
    <3>3. Post(TimerTask, SignalMsg(s), NameOf[s]) /\ (UNCHANGED done \/ Free(s))
      BY <1>6, <2>3 DEF SignalScheduledEvent
    <3> QED BY <1>0, <2>0, <3>2, <3>3, SignalMsgs, EarlierPosted
  <2> QED BY <2>1, <2>2, <2>3
<1> QED BY <1>3, <1>4, <1>5, <1>6 DEF TimerService

\* The events task.  A handler comes into a list with no signal before it
\* left in the queue, and none in dispatch.
LEMMA EarlierLoop ==
  ASSUME EInv, EInv', Others, Earlier, EventLoop
  PROVE  Earlier'
<1>0. /\ \A h \in Handlers : before[h] \subseteq Sigs
      /\ Nobody \notin Sigs
  BY DispatcherAssumption DEF Others
<1>1. CASE AddHandler
  <2>1. /\ queue # <<>> /\ queue' = Tail(queue) /\ current = Nobody
        /\ Head(queue).type = "addhandler"
        /\ place' = [place EXCEPT ![Head(queue).what] = added + 1]
        /\ UNCHANGED <<current, done, registered, before>>
    BY <1>1 DEF AddHandler, CanTake, PushBack, loop, books
  <2>2. PICK new \in Handlers : Head(queue) = AddMsg(new)
    <3>1. Head(queue) \in Message
      BY <2>1, HeadTaken
    <3> QED BY <2>1, <3>1 DEF Message, AddMsg
  <2>3. /\ Head(queue).what = new
        /\ \A s \in Sigs : Head(queue) # SignalMsg(s)
    BY <2>2 DEF AddMsg, SignalMsg
  <2>4. \A h \in Handlers : h # new => (h \in Listed' <=> h \in Listed)
    BY <2>1, <2>3 DEF Others, Listed
  <2>5. \A s \in Sigs : InQueue(s)' <=> InQueue(s)
    BY <2>1, <2>3, HeadTaken
  <2>6. Adding(new) /\ new \in registered
    BY <2>1, <2>2, TakeOrder DEF Earlier, Known
  <2>7. Known'
    BY <2>1, <2>4, <2>6, TakeOrder DEF Earlier, Known
  <2>8. ASSUME NEW h \in Handlers, NEW s \in before'[h] PROVE Passed(s, h)'
    <3>1. s \in Sigs /\ Passed(s, h) /\ current # s
      BY <1>0, <2>1 DEF Earlier
    <3>2. Ahead(s, h)' /\ (h = new => ~InQueue(s))
      BY <2>1, <2>2, <3>1, TakeOrder DEF Passed
    <3> QED BY <2>1, <2>4, <2>5, <3>1, <3>2 DEF Passed
  <2> QED BY <2>7, <2>8 DEF Earlier
<1>2. CASE RemoveHandlers
  <2>1. /\ queue # <<>> /\ queue' = Tail(queue)
        /\ Head(queue).type = "removehandlers"
        /\ place' = [h \in Handlers |->
                       IF Caller[h] = Head(queue).what THEN 0 ELSE place[h]]
        /\ UNCHANGED <<current, done, registered, before>>
    BY <1>2 DEF RemoveHandlers, CanTake, loop, books
  <2>2. \A s \in Sigs : Head(queue) # SignalMsg(s)
    BY <2>1 DEF SignalMsg
  <2>3. \A s \in Sigs : InQueue(s)' <=> InQueue(s)
    BY <2>1, <2>2, HeadTaken
  <2>4. Listed' \subseteq Listed
    BY <2>1 DEF Listed
  <2>5. Known'
    BY <2>1, <2>4, TakeOrder DEF Earlier, Known
  <2>6. ASSUME NEW h \in Handlers, NEW s \in before'[h] PROVE Passed(s, h)'
    <3>1. s \in Sigs /\ Passed(s, h)
      BY <1>0, <2>1 DEF Earlier
    <3>2. Ahead(s, h)'
      BY <2>1, <3>1, TakeOrder DEF Passed
    <3> QED BY <2>1, <2>3, <2>4, <3>1, <3>2 DEF Passed
  <2> QED BY <2>5, <2>6 DEF Earlier
<1>3. CASE BeginSignal
  <2>1. /\ queue # <<>> /\ queue' = Tail(queue) /\ current = Nobody
        /\ Head(queue).type = "signal" /\ current' = Head(queue).what
        /\ UNCHANGED <<place, done, registered, before>>
    BY <1>3 DEF BeginSignal, CanTake, lists
  <2>2. Head(queue) \in Message
    BY <2>1, HeadTaken
  <2>3. \A s \in Sigs : InQueue(s) => InQueue(s)' \/ current' = s
    <3> SUFFICES ASSUME NEW s \in Sigs, InQueue(s), ~InQueue(s)'
                 PROVE  current' = s
      OBVIOUS
    <3>1. Head(queue) = SignalMsg(s)
      BY <2>1, HeadTaken
    <3> QED BY <2>1, <3>1 DEF SignalMsg
  <2>4. Known'
    BY <2>1, TakeOrder DEF Earlier, Known, Listed
  <2>5. ASSUME NEW h \in Handlers, NEW s \in before'[h] PROVE Passed(s, h)'
    <3>1. s \in Sigs /\ Passed(s, h) /\ current # s
      BY <1>0, <2>1 DEF Earlier
    <3>2. Ahead(s, h)'
      BY <2>1, <3>1, TakeOrder DEF Passed
    <3> QED BY <2>1, <2>3, <3>1, <3>2 DEF Passed, Listed
  <2> QED BY <2>4, <2>5 DEF Earlier
<1>4. CASE EndSignal
  <2>1. /\ Free(current) /\ UNCHANGED <<queue, place, registered, before>>
    BY <1>4 DEF EndSignal, lists
  <2>2. Known'
    BY <2>1 DEF Earlier, Known, Adding, Listed
  <2>3. ASSUME NEW h \in Handlers, NEW s \in before'[h] PROVE Passed(s, h)'
    <3>1. s \in Sigs /\ Passed(s, h)
      BY <1>0, <2>1 DEF Earlier
    <3>2. done[s] = 1 => done'[s] = 1
      BY <2>1, <3>1, Finished
    <3>3. current = s => done'[s] = 1
      BY <2>1, <3>1 DEF Free, EInv, Shape, Placed
    <3> QED BY <2>1, <3>1, <3>2, <3>3 DEF Passed, InQueue, Ahead, Listed
  <2> QED BY <2>2, <2>3 DEF Earlier
<1>5. CASE (\E h \in Handlers : Visit(h)) \/ Return \/ RunScripts
  BY <1>5, EarlierUntouched DEF Visit, Return, RunScripts, lists, books
<1> QED BY <1>1, <1>2, <1>3, <1>4, <1>5 DEF EventLoop

LEMMA EarlierKept ==
  EInv /\ EInv' /\ Others /\ Earlier /\ [Next]_vars => Earlier'
<1> SUFFICES ASSUME EInv, EInv', Others, Earlier, [Next]_vars PROVE Earlier'
  OBVIOUS
<1>1. CASE UNCHANGED vars \/ Abort
  BY <1>1, EarlierUntouched DEF vars, Abort, lists, loop, books
<1>2. ASSUME NEW a \in Actors, NEW h \in Handlers, RegisterEvent(a, h)
      PROVE  Earlier'
  BY <1>2, EarlierRegister
<1>3. ASSUME NEW a \in Actors, NEW c \in Callers, DeregisterEvent(a, c)
      PROVE  Earlier'
  <2>1. /\ RemoveMsg(c) \in Message
        /\ \A h \in Handlers : RemoveMsg(c) # AddMsg(h)
        /\ \A s : RemoveMsg(c) # SignalMsg(s)
    BY DEF RemoveMsg, AddMsg, SignalMsg, Message
  <2>2. /\ Post(a, RemoveMsg(c), c)
        /\ UNCHANGED <<place, current, done, registered, before>>
    BY <1>3 DEF DeregisterEvent, lists, loop
  <2> QED BY <2>1, <2>2, EarlierPosted
<1> QED BY <1>1, <1>2, <1>3, EarlierSignals, EarlierLoop DEF Next

LEMMA EarlierStep ==
  EInv /\ Others /\ Earlier /\ [Next]_vars =>
    \A h \in Handlers : running' = h /\ running # h => current \notin before[h]
<1> SUFFICES ASSUME EInv, Others, Earlier, [Next]_vars, NEW h \in Handlers,
                    running' = h, running # h, current \in before[h]
             PROVE  FALSE
  OBVIOUS
<1>0. h # Nobody /\ h # Script
  BY DispatcherAssumption
<1>1. CASE Visit(h)
  <2>1. h \in Listed
    BY <1>1 DEF Visit, IsNext, Rest, Listeners
  <2>2. current \in Sigs /\ Passed(current, h) /\ Placed(current)
    BY DEF Others, Earlier, EInv
  <2> QED BY <2>1, <2>2 DEF Passed, Placed
<1>2. CASE running' = running \/ running' \in {Nobody, Script}
  BY <1>0, <1>2
<1>3. CASE EventLoop
  <2>1. ASSUME NEW g \in Handlers, Visit(g) PROVE FALSE
    BY <1>1, <1>2, <2>1 DEF Visit
  <2> QED BY <1>2, <1>3, <2>1 DEF EventLoop, AddHandler, RemoveHandlers,
     BeginSignal, Return, RunScripts, EndSignal, loop
<1>4. CASE ~EventLoop
  BY <1>2, <1>4 DEF Next, TimerService, Expire, SignalScheduledEvent, Abort,
     RegisterEvent, DeregisterEvent, SignalNow, SignalLater, vars, loop
<1> QED BY <1>3, <1>4

\* RegisterEvent's guarantee: the handler is never called for a signal that
\* was in dispatch or already in the queue when it was registered, whatever
\* the tasks and the timers post, and however the queue overflows.
THEOREM EventsNeverForEarlier == Spec => NeverForEarlier
<1>1. Init => Others
  BY OthersInit
<1>2. Init => Earlier
  <2> SUFFICES ASSUME Init PROVE Earlier
    OBVIOUS
  <2>1. DOMAIN queue = {} /\ Listed = {} /\ \A h \in Handlers : before[h] = {}
    BY DEF Init, Listed
  <2> QED BY <2>1 DEF Earlier, Known, Adding
<1>3. EInv /\ Others /\ Earlier /\ [Next]_vars
        => [\A h \in Handlers : running' = h /\ running # h
              => current \notin before[h]]_vars
  BY EarlierStep
<1> QED BY <1>1, <1>2, <1>3, EventsInvariance, OthersKept, EarlierKept, PTL
        DEF Spec, NeverForEarlier

-----------------------------------------------------------------------------
(* Every handler hears: what the loop has not visited is still before it.  *)

Heard ==
  /\ current = Nobody => running = Nobody /\ at = Nobody
  /\ current # Nobody =>
       /\ at # Nobody => at \in Listeners(NameOf[current])
       /\ Listeners(NameOf[current]) \cap valid \subseteq called \cup Rest
       /\ running = Script => Rest = {}

\* The steps outside the loop: the lists stay while a signal is dispatched,
\* and no callback is set.
LEMMA HeardUntouched ==
  ASSUME Heard, UNCHANGED <<current, at, running, called>>,
         current # Nobody => UNCHANGED place, valid' \subseteq valid
  PROVE  Heard'
<1>1. CASE current = Nobody
  BY <1>1 DEF Heard
<1>2. CASE current # Nobody
  <2>1. Listeners(NameOf[current])' = Listeners(NameOf[current])
    BY <1>2 DEF Listeners, Listed
  <2>2. Rest' = Rest
    BY <1>2 DEF Rest, Before, Listeners, Listed
  <2> QED BY <1>2, <2>1, <2>2 DEF Heard
<1> QED BY <1>1, <1>2

\* The order of the visits goes one way: who comes next leaves the others
\* before the loop.
LEMMA VisitLeaves ==
  ASSUME Others, NEW h \in Handlers, Visit(h)
  PROVE  /\ h \in Listeners(NameOf[current]) /\ Rest \ {h} \subseteq Rest'
         /\ Listeners(NameOf[current])' = Listeners(NameOf[current])
<1>0. /\ h \in Rest /\ \A g \in Rest \ {h} : Before(NameOf[current], h, g)
      /\ at' = h /\ UNCHANGED <<place, current>>
  BY DEF Visit, IsNext, lists
<1>1. Listeners(NameOf[current])' = Listeners(NameOf[current])
  BY <1>0 DEF Listeners, Listed
<1>2. ASSUME NEW g \in Rest \ {h} PROVE g \in Rest'
  <2>1. Before(NameOf[current], h, g) /\ g \in Listeners(NameOf[current])
    BY <1>0 DEF Rest
  <2>2. Before(NameOf[current], at, g)'
    BY <1>0, <2>1 DEF Before
  <2> QED BY <1>0, <1>1, <2>1, <2>2 DEF Rest
<1>3. h \in Listeners(NameOf[current])
  BY <1>0 DEF Rest
<1> QED BY <1>1, <1>2, <1>3

LEMMA HeardLoop ==
  ASSUME EInv, Others, Heard, EventLoop
  PROVE  Heard'
<1>0. Nobody # Script /\ Nobody \notin Handlers \cup Sigs
      /\ Script \notin Handlers
  BY DispatcherAssumption
<1>1. CASE AddHandler \/ RemoveHandlers
  BY <1>1, HeardUntouched DEF AddHandler, RemoveHandlers, CanTake, loop, books
<1>2. CASE BeginSignal
  <2>1. /\ current = Nobody /\ at' = Nobody /\ running' = Nobody
        /\ UNCHANGED place
    BY <1>2 DEF BeginSignal, CanTake, lists, Heard
  <2>2. Rest' = Listeners(NameOf[current])'
    BY <2>1 DEF Rest
  <2> QED BY <1>0, <2>1, <2>2 DEF Heard
<1>3. ASSUME NEW h \in Handlers, Visit(h) PROVE Heard'
  <2>1. /\ h \in Listeners(NameOf[current]) /\ Rest \ {h} \subseteq Rest'
        /\ Listeners(NameOf[current])' = Listeners(NameOf[current])
    BY <1>3, VisitLeaves
  <2>2. /\ current # Nobody /\ at' = h /\ UNCHANGED <<current, valid>>
        /\ running = Nobody /\ running' \in {h, Nobody}
        /\ called \subseteq called' /\ (h \in valid => h \in called')
    BY <1>3 DEF Visit, Dispatching, HasCallback
  <2>3. (Listeners(NameOf[current]) \cap valid \subseteq called \cup Rest)'
    BY <2>1, <2>2 DEF Heard
  <2>4. at' \in Listeners(NameOf[current])' /\ running' # Script
    BY <1>0, <2>1, <2>2
  <2> QED BY <2>2, <2>3, <2>4 DEF Heard
<1>4. CASE Return
  <2>1. /\ running \in Handlers /\ running' = Nobody
        /\ UNCHANGED <<place, valid, current, at, called>>
    BY <1>4 DEF Return, lists, books
  <2>2. /\ Rest' = Rest
        /\ Listeners(NameOf[current])' = Listeners(NameOf[current])
    BY <2>1 DEF Rest, Before, Listeners, Listed
  <2> QED BY <1>0, <2>1, <2>2 DEF Heard
<1>5. CASE RunScripts
  <2>1. /\ current # Nobody /\ Rest = {}
        /\ UNCHANGED <<place, valid, current, at, called>>
    BY <1>5 DEF RunScripts, Dispatching, lists, books
  <2>2. /\ Rest' = Rest
        /\ Listeners(NameOf[current])' = Listeners(NameOf[current])
    BY <2>1 DEF Rest, Before, Listeners, Listed
  <2> QED BY <2>1, <2>2 DEF Heard
<1>6. CASE EndSignal
  BY <1>6 DEF EndSignal, Heard
<1> QED BY <1>1, <1>2, <1>3, <1>4, <1>5, <1>6 DEF EventLoop

LEMMA HeardKept == EInv /\ Others /\ Heard /\ [Next]_vars => Heard'
<1> SUFFICES ASSUME EInv, Others, Heard, [Next]_vars PROVE Heard'
  OBVIOUS
<1>1. CASE EventLoop
  BY <1>1, HeardLoop
<1>2. CASE ~EventLoop
  <2>1. UNCHANGED <<place, current, at, running, called>>
    BY <1>2 DEF Next, TimerService, Expire, SignalScheduledEvent, Abort,
       RegisterEvent, DeregisterEvent, SignalNow, SignalLater, vars, loop,
       lists, books
  <2>2. valid' \subseteq valid
    BY <1>2 DEF Next, TimerService, Expire, SignalScheduledEvent, Abort,
       RegisterEvent, DeregisterEvent, SignalNow, SignalLater, vars
  <2> QED BY <2>1, <2>2, HeardUntouched
<1> QED BY <1>1, <1>2

LEMMA HeardStep ==
  Heard =>
    (running = Script /\ current' = Nobody =>
       Listeners(NameOf[current]) \cap valid \subseteq called)
<1> SUFFICES ASSUME Heard, running = Script
             PROVE  Listeners(NameOf[current]) \cap valid \subseteq called
  OBVIOUS
<1>1. current # Nobody
  BY DispatcherAssumption DEF Heard
<1> QED BY <1>1 DEF Heard

\* HandleQueueSignalEvent: when the dispatch of a signal ends, every handler
\* in the lists for it whose callback stands has been called, whatever is
\* registered, deregistered and signalled while the handlers run, for every
\* number of handlers and any order of the lists.
THEOREM EventsEverybodyHears == Spec => EverybodyHears
<1>1. Init => Heard
  BY DEF Init, Heard
<1>2. Heard /\ [Next]_vars
        => [running = Script /\ current' = Nobody =>
              Listeners(NameOf[current]) \cap valid \subseteq called]_vars
  BY HeardStep
<1> QED BY <1>1, <1>2, OthersInit, EventsInvariance, OthersKept, HeardKept, PTL
        DEF Spec, EverybodyHears

-----------------------------------------------------------------------------
(* The loop over the lists comes to its end: no two handlers stand in the  *)
(* same place of a list, so that there is always one that comes next.      *)

Apart ==
  /\ \A h \in Handlers : place[h] <= added
  /\ \A g, h \in Listed : place[g] = place[h] => g = h

LEMMA LeastPlace ==
  ASSUME NEW S, S \subseteq Nat, S # {}
  PROVE  \E x \in S : \A y \in S : x <= y
<1>1. PICK x \in S : \A y \in S : ~(<<y, x>> \in OpToRel(<, Nat))
  BY NatLessThanWellFounded, WFMin
<1>2. \A y \in S : ~(y < x)
  BY <1>1 DEF OpToRel
<1> QED BY <1>2

LEMMA ApartKept == Others /\ Apart /\ [Next]_vars => Apart'
<1> SUFFICES ASSUME Others, Apart, [Next]_vars PROVE Apart'
  OBVIOUS
<1>1. CASE UNCHANGED lists
  BY <1>1 DEF lists, Apart, Listed
<1>2. CASE AddHandler
  <2> DEFINE new == Head(queue).what
  <2>1. added' = added + 1 /\ place' = [place EXCEPT ![new] = added + 1]
    BY <1>2 DEF AddHandler, PushBack
  <2> HIDE DEF new
  <2>2. /\ place \in [Handlers -> Nat] /\ added \in Nat
        /\ \A h \in Handlers : place[h] <= added
    BY DEF Others, Apart
  <2>3. \A h \in Handlers : place'[h] = IF h = new THEN added + 1 ELSE place[h]
    BY <2>1, <2>2
  <2>4. \A h \in Handlers : place'[h] <= added'
    BY <2>1, <2>2, <2>3
  <2>5. ASSUME NEW g \in Listed', NEW h \in Listed', place'[g] = place'[h]
        PROVE  g = h
    <3>1. CASE g # new /\ h # new
      BY <2>2, <2>3, <2>5, <3>1 DEF Apart, Listed
    <3>2. CASE g = new \/ h = new
      BY <2>2, <2>3, <2>5, <3>2 DEF Listed
    <3> QED BY <3>1, <3>2
  <2> QED BY <2>4, <2>5 DEF Apart
<1>3. CASE RemoveHandlers
  <2>1. /\ added' = added
        /\ \A h \in Handlers : place'[h] = 0 \/ place'[h] = place[h]
    BY <1>3 DEF RemoveHandlers
  <2> QED BY <2>1 DEF Others, Apart, Listed
<1>4. CASE EventLoop
  BY <1>1, <1>2, <1>3, <1>4 DEF EventLoop, BeginSignal, Visit, Return,
     RunScripts, EndSignal
<1>5. CASE ~EventLoop
  BY <1>1, <1>5 DEF Next, TimerService, Expire, SignalScheduledEvent, Abort,
     RegisterEvent, DeregisterEvent, SignalNow, SignalLater, vars
<1> QED BY <1>4, <1>5

\* The first of a list among handlers of one event.
LEMMA FirstOfList ==
  ASSUME Others, Apart, NEW S, S \subseteq Listed, S # {}
  PROVE  \E h \in S : \A g \in S \ {h} : place[h] < place[g]
<1>1. place \in [Handlers -> Nat] /\ S \subseteq Handlers
  BY DEF Others, Listed
<1>2. PICK x \in {place[h] : h \in S} : \A y \in {place[h] : h \in S} : x <= y
  <2>1. {place[h] : h \in S} \subseteq Nat /\ {place[h] : h \in S} # {}
    BY <1>1
  <2> QED BY <2>1, LeastPlace
<1>3. PICK h \in S : place[h] = x
  BY <1>2
<1>4. \A g \in S \ {h} : place[h] < place[g]
  BY <1>1, <1>2, <1>3 DEF Apart
<1> QED BY <1>4

LEMMA SomeoneIsNext ==
  ASSUME EInv, Others, Apart, Dispatching, Rest # {}
  PROVE  \E h \in Handlers : IsNext(h)
<1> DEFINE n == NameOf[current]
           own == {h \in Rest : On[h] = n}
<1>1. /\ n # AnyEvent
      /\ \A h \in Rest : h \in Listed /\ h \in Handlers
                         /\ On[h] \in {n, AnyEvent}
  BY DispatcherAssumption
     DEF EInv, Shape, Dispatching, Rest, Listeners, Listed
<1> HIDE DEF n
<1>2. ASSUME own # {} PROVE \E h \in Handlers : IsNext(h)
  <2>1. PICK h \in own : \A g \in own \ {h} : place[h] < place[g]
    BY <1>1, <1>2, FirstOfList
  <2>2. \A g \in Rest \ {h} : Before(n, h, g)
    BY <1>1, <2>1 DEF Before
  <2> QED BY <1>1, <2>1, <2>2 DEF IsNext, n
<1>3. ASSUME own = {} PROVE \E h \in Handlers : IsNext(h)
  <2>1. PICK h \in Rest : \A g \in Rest \ {h} : place[h] < place[g]
    BY <1>1, FirstOfList
  <2>2. \A g \in Rest : On[g] = AnyEvent
    BY <1>1, <1>3
  <2>3. \A g \in Rest \ {h} : Before(n, h, g)
    BY <2>1, <2>2 DEF Before
  <2> QED BY <1>1, <2>1, <2>3 DEF IsNext, n
<1> QED BY <1>2, <1>3

\* HandleQueueSignalEvent's loops: between two callbacks there is a next
\* handler or none is left, for any number of handlers, lists and removals.
THEOREM EventsLoopGoesOn ==
  Spec => [](Dispatching => Rest = {} \/ \E h \in Handlers : IsNext(h))
<1>1. Init => Apart
  BY DEF Init, Apart, Listed
<1>2. EInv /\ Others /\ Apart
        => (Dispatching => Rest = {} \/ \E h \in Handlers : IsNext(h))
  BY SomeoneIsNext
<1> QED BY <1>1, <1>2, OthersInit, EventsInvariance, OthersKept, ApartKept, PTL
        DEF Spec

=============================================================================
