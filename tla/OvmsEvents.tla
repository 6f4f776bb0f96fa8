----------------------------- MODULE OvmsEvents -----------------------------
(***************************************************************************)
(* OvmsEvents (main/ovms_events.{h,cpp}): the dispatcher every part of the *)
(* firmware hangs from.  All tasks post to one bounded queue: signals, and *)
(* the adding and the removing of handlers.  The events task takes the     *)
(* messages in order and runs the handlers of a signal one after the       *)
(* other; a handler may itself signal, register and deregister.  A delayed *)
(* signal waits in a one-shot timer and is posted by the timer task.       *)
(*                                                                         *)
(* A message that does not fit is dropped when it is about a ticker;       *)
(* for any other the task that posts it stops and then aborts the system.  *)
(* Abstracted: the payloads, the strings and the trace.  The events task's *)
(* own abort after 5 seconds without a message is left out.                *)
(***************************************************************************)
EXTENDS Naturals, FiniteSets, SequencesExt

CONSTANTS
  Handlers,            \* EventCallbackEntry objects, each registered once
  Caller, On,          \* of a handler: who registers it, and for which event
  Sigs, NameOf,        \* signals, each raised once, and their event
  Tickers,             \* the events named "ticker."
  AnyEvent,            \* the event "*", which nothing signals
  EventTask, Tasks,    \* the events task, and the tasks that call it
  TimerTask, Timers,   \* the timer service, and the timers it can create
  QueueSize,           \* CONFIG_OVMS_HW_EVENT_QUEUE_SIZE
  Nobody, Script       \* no handler is running; the event scripts are

ASSUME DispatcherAssumption ==
  /\ Caller \in [Handlers -> {Caller[h] : h \in Handlers}]
  /\ On \in [Handlers -> {On[h] : h \in Handlers}]
  /\ NameOf \in [Sigs -> {NameOf[s] : s \in Sigs}]
  /\ \A s \in Sigs : NameOf[s] # AnyEvent
  /\ EventTask # TimerTask /\ {EventTask, TimerTask} \cap Tasks = {}
  /\ Nobody # Script /\ {Nobody, Script} \cap (Handlers \cup Sigs) = {}
  /\ QueueSize \in Nat \ {0}

VARIABLES
  queue,               \* m_taskqueue
  place,               \* of a handler in its event's list in m_map, or 0
  added,               \* entries put into m_map so far
  valid,               \* handlers whose m_callback is set
  current,             \* the signal being dispatched, or Nobody
  at,                  \* the handler the loop visited last, or Nobody
  running,             \* m_current_callback, Script, or Nobody
  timer,               \* m_timers, m_timer_active and the timer service
  dying,               \* tasks in CheckQueueOverflow, with their message
  crashed,             \* abort() was called
  used,                \* signals raised so far
  registered,          \* handlers registered so far
  left,                \* callers that have deregistered (bound: once each)
  done,                \* history: FreeQueueSignalEvent calls, per signal
  called,              \* history: handlers called for the current signal
  before,              \* history: per handler, the signals posted before it
  silenced,            \* history: handlers deregistered on the events task
  going                \* history: handlers their owner has deregistered

books == <<used, registered, left, done, called, before, silenced, going>>
loop == <<current, at, running>>
lists == <<place, added>>
vars == <<queue, lists, valid, loop, timer, dying, crashed, books>>

Callers == {Caller[h] : h \in Handlers}
Actors == Tasks \cup {EventTask}

Message ==
  [type : {"addhandler"}, what : Handlers] \cup
  [type : {"removehandlers"}, what : Callers] \cup
  [type : {"signal"}, what : Sigs]

AddMsg(h) == [type |-> "addhandler", what |-> h]
RemoveMsg(c) == [type |-> "removehandlers", what |-> c]
SignalMsg(s) == [type |-> "signal", what |-> s]

\* A timer: created; running; expired with its callback to come; the payload
\* (the timer's ID); and m_timer_active.
Timer == [made : BOOLEAN, armed : BOOLEAN, due : BOOLEAN,
          payload : Sigs \cup {Nobody}, active : BOOLEAN]
NewTimer == [made |-> FALSE, armed |-> FALSE, due |-> FALSE,
             payload |-> Nobody, active |-> FALSE]

Init ==
  /\ queue = <<>> /\ valid = Handlers
  /\ place = [h \in Handlers |-> 0] /\ added = 0
  /\ current = Nobody /\ at = Nobody /\ running = Nobody
  /\ timer = [t \in Timers |-> NewTimer]
  /\ dying = {} /\ crashed = FALSE
  /\ used = {} /\ registered = {} /\ left = {}
  /\ done = [s \in Sigs |-> 0] /\ called = {}
  /\ before = [h \in Handlers |-> {}] /\ silenced = {} /\ going = {}

-----------------------------------------------------------------------------
(* Posting to the queue.                                                   *)

Stopped(a) == \E d \in dying : d.task = a

\* A task can call the dispatcher; the events task from what it runs.
CanAct(a) ==
  ~crashed /\ ~Stopped(a) /\ (a = EventTask => running # Nobody)

\* Mutant of Fits: one message too many.
FitsOneMore == Len(queue) <= QueueSize

\* xQueueSend does not wait for room.
Fits == Len(queue) < QueueSize

\* Mutant of Important: every message may be lost.
NothingMatters(n) == FALSE

\* CheckQueueOverflow: what is lost on a full queue ends the system, unless
\* its event is a ticker.
Important(n) == n \notin Tickers

\* The task waits for a running OTA job and 100 ms, then aborts.
Overflow(a, m, n) ==
  dying' = IF Important(n) THEN dying \cup {[task |-> a, msg |-> m]} ELSE dying

Post(a, m, n) ==
  \/ Fits /\ queue' = Append(queue, m) /\ UNCHANGED dying
  \/ ~Fits /\ UNCHANGED queue /\ Overflow(a, m, n)

\* FreeQueueSignalEvent: gives the semaphore or calls the done function.
Free(s) == done' = [done EXCEPT ![s] = @ + 1]

-----------------------------------------------------------------------------
(* Registering.  Only the events task touches the lists, so that a loop    *)
(* over them never sees them change.                                       *)

\* An entry comes behind those there are; its place tells it from any other.
PushBack(h) ==
  added' = added + 1 /\ place' = [place EXCEPT ![h] = added + 1]

\* Mutant of RegisterEvent: the handler is put in the list at once.
RegisterAtOnce(a, h) ==
  /\ CanAct(a) /\ h \notin registered
  /\ registered' = registered \cup {h}
  /\ before' = [before EXCEPT ![h] =
       {s \in Sigs : current = s \/ Contains(queue, SignalMsg(s))}]
  /\ PushBack(h)
  /\ UNCHANGED <<queue, valid, loop, timer, dying, crashed, used, left, done,
                 called, silenced, going>>

RegisterEvent(a, h) ==
  /\ CanAct(a) /\ h \notin registered
  /\ registered' = registered \cup {h}
  /\ before' = [before EXCEPT ![h] =
       {s \in Sigs : current = s \/ Contains(queue, SignalMsg(s))}]
  /\ Post(a, AddMsg(h), On[h])
  /\ UNCHANGED <<lists, valid, loop, timer, crashed, used, left, done, called,
                 silenced, going>>

Listed == {h \in Handlers : place[h] > 0}

Entries(c) == {h \in Listed : Caller[h] = c}

\* The entries whose callback is cleared at once: those in the lists, and only
\* when the call comes from the events task.
Invalidate(a, c) == IF a = EventTask THEN Entries(c) ELSE {}

DeregisterEvent(a, c) ==
  /\ CanAct(a) /\ c \notin left
  /\ left' = left \cup {c}
  /\ valid' = valid \ Invalidate(a, c)
  /\ silenced' = silenced \cup (IF a = EventTask THEN Entries(c) ELSE {})
  /\ going' = going \cup {h \in registered : Caller[h] = c}
  /\ Post(a, RemoveMsg(c), c)
  /\ UNCHANGED <<lists, loop, timer, crashed, used, registered, done, called,
                 before>>

-----------------------------------------------------------------------------
(* Signalling.                                                             *)

SignalNow(a, s) ==
  /\ CanAct(a) /\ s \notin used
  /\ used' = used \cup {s}
  /\ Post(a, SignalMsg(s), NameOf[s])
  /\ IF ~Fits /\ ~Important(NameOf[s]) THEN Free(s) ELSE UNCHANGED done
  /\ UNCHANGED <<lists, valid, loop, timer, crashed, registered, left, called,
                 before, silenced, going>>

\* Mutant of Available: a timer that has expired counts as free, though its
\* callback has not run.
NotArmed == {t \in Timers : timer[t].made /\ ~timer[t].armed}

\* m_timer_active, and not the state of the timer service, says what is free.
Available == {t \in Timers : timer[t].made /\ ~timer[t].active}

\* ScheduleEvent: a free timer, or a new one.  The timer service may have no
\* room for the timer or for the command that starts it: the event is dropped.
SignalLater(a, s) ==
  /\ CanAct(a) /\ s \notin used
  /\ ~Stopped(TimerTask)              \* it stops with m_timers_mutex locked
  /\ used' = used \cup {s}
  /\ \/ \E t \in Timers :
          /\ t \in Available \/ (Available = {} /\ ~timer[t].made)
          /\ \/ /\ timer' = [timer EXCEPT ![t].made = TRUE, ![t].armed = TRUE,
                                          ![t].payload = s, ![t].active = TRUE]
                /\ UNCHANGED done
             \/ /\ timer' = [timer EXCEPT ![t].made = TRUE,
                                          ![t].payload = Nobody]
                /\ Free(s)
     \/ /\ Available = {}
        /\ Free(s) /\ UNCHANGED timer
  /\ UNCHANGED <<queue, lists, valid, loop, dying, crashed, registered, left,
                 called, before, silenced, going>>

\* The timer service takes an expired timer off its list, and calls it later.
Expire(t) ==
  /\ ~crashed /\ timer[t].armed
  /\ timer' = [timer EXCEPT ![t].armed = FALSE, ![t].due = TRUE]
  /\ UNCHANGED <<queue, lists, valid, loop, dying, crashed, books>>

\* SignalScheduledEvent.  An overflow keeps the timer task here, with the
\* timer still marked active.
SignalScheduledEvent(t) ==
  LET s == timer[t].payload IN
  /\ ~crashed /\ ~Stopped(TimerTask) /\ timer[t].due
  /\ IF s = Nobody
       THEN /\ timer' = [timer EXCEPT ![t].due = FALSE]
            /\ UNCHANGED <<queue, dying, done>>
       ELSE /\ Post(TimerTask, SignalMsg(s), NameOf[s])
            /\ IF ~Fits /\ ~Important(NameOf[s]) THEN Free(s)
               ELSE UNCHANGED done
            /\ timer' = [timer EXCEPT ![t].due = FALSE, ![t].payload = Nobody,
                            ![t].active = ~Fits /\ Important(NameOf[s])]
  /\ UNCHANGED <<lists, valid, loop, crashed, used, registered, left, called,
                 before, silenced, going>>

-----------------------------------------------------------------------------
(* EventTask.                                                              *)

CanTake == ~crashed /\ ~Stopped(EventTask) /\ current = Nobody /\ queue # <<>>

AddHandler ==
  /\ CanTake /\ Head(queue).type = "addhandler"
  /\ queue' = Tail(queue)
  /\ PushBack(Head(queue).what)
  /\ UNCHANGED <<valid, loop, timer, dying, crashed, books>>

RemoveHandlers ==
  /\ CanTake /\ Head(queue).type = "removehandlers"
  /\ queue' = Tail(queue)
  /\ place' = [h \in Handlers |->
                IF Caller[h] = Head(queue).what THEN 0 ELSE place[h]]
  /\ UNCHANGED <<added, valid, loop, timer, dying, crashed, books>>

BeginSignal ==
  /\ CanTake /\ Head(queue).type = "signal"
  /\ queue' = Tail(queue)
  /\ current' = Head(queue).what /\ called' = {}
  /\ UNCHANGED <<lists, valid, at, running, timer, dying, crashed, used,
                 registered, left, done, before, silenced, going>>

\* The handlers of event n, and the order in which the loops visit them: those
\* for the event, then those for any event, each list from its front.
Listeners(n) == {h \in Listed : On[h] \in {n, AnyEvent}}

Before(n, g, h) ==
  \/ On[g] = n /\ On[h] # n
  \/ On[g] = On[h] /\ place[g] < place[h]

\* Mutant of Rest: a handler without a callback ends the loop.
RestOfValid ==
  {h \in Listeners(NameOf[current]) :
     at = Nobody \/ (at \in valid /\ Before(NameOf[current], at, h))}

\* What the iterators have still to visit, and what they visit next.
Rest ==
  {h \in Listeners(NameOf[current]) :
     at = Nobody \/ Before(NameOf[current], at, h)}

IsNext(h) == h \in Rest /\ \A g \in Rest \ {h} : Before(NameOf[current], h, g)

Dispatching == ~crashed /\ current # Nobody /\ running = Nobody

\* Mutant of HasCallback: the callback is not tested.
CallsAll(h) == TRUE

HasCallback(h) == h \in valid

Visit(h) ==
  /\ Dispatching /\ IsNext(h)
  /\ at' = h
  /\ IF HasCallback(h)
       THEN running' = h /\ called' = called \cup {h}
       ELSE UNCHANGED <<running, called>>
  /\ UNCHANGED <<queue, lists, valid, current, timer, dying, crashed, used,
                 registered, left, done, before, silenced, going>>

\* A callback returns.  It may have been stopped by an overflow of its own.
Return ==
  /\ ~crashed /\ ~Stopped(EventTask) /\ running \in Handlers
  /\ running' = Nobody
  /\ UNCHANGED <<queue, lists, valid, current, at, timer, dying, crashed, books>>

RunScripts ==
  /\ Dispatching /\ Rest = {}
  /\ running' = Script
  /\ UNCHANGED <<queue, lists, valid, current, at, timer, dying, crashed, books>>

EndSignal ==
  /\ ~crashed /\ ~Stopped(EventTask) /\ running = Script
  /\ Free(current)
  /\ current' = Nobody /\ at' = Nobody /\ running' = Nobody
  /\ UNCHANGED <<queue, lists, valid, timer, dying, crashed, used, registered,
                 left, called, before, silenced, going>>

Abort ==
  /\ ~crashed /\ dying # {}
  /\ crashed' = TRUE
  /\ UNCHANGED <<queue, lists, valid, loop, timer, dying, books>>

-----------------------------------------------------------------------------
EventLoop ==
  \/ AddHandler \/ RemoveHandlers
  \/ BeginSignal \/ (\E h \in Handlers : Visit(h))
  \/ Return \/ RunScripts \/ EndSignal

TimerService == \E t \in Timers : Expire(t) \/ SignalScheduledEvent(t)

Next ==
  \/ EventLoop
  \/ TimerService
  \/ Abort
  \/ \E a \in Actors :
       \/ \E h \in Handlers : RegisterEvent(a, h)
       \/ \E c \in Callers : DeregisterEvent(a, c)
       \/ \E s \in Sigs : SignalNow(a, s) \/ SignalLater(a, s)

Spec == Init /\ [][Next]_vars

\* A callback returns (the watchdog sees to it), and so does a script; an
\* expired timer is served; a task that stopped aborts.
FairSpec ==
  /\ Spec
  /\ WF_vars(EventLoop) /\ WF_vars(Abort)
  /\ \A t \in Timers : WF_vars(Expire(t)) /\ WF_vars(SignalScheduledEvent(t))

-----------------------------------------------------------------------------
(* What the module promises.                                               *)

\* The types of the variables.
TypeOK ==
  /\ queue \in Seq(Message) /\ Len(queue) <= QueueSize
  /\ place \in [Handlers -> Nat] /\ added \in Nat /\ valid \subseteq Handlers
  /\ current \in Sigs \cup {Nobody} /\ at \in Handlers \cup {Nobody}
  /\ running \in Handlers \cup {Nobody, Script}
  /\ timer \in [Timers -> Timer]
  /\ dying \subseteq [task : Actors \cup {TimerTask}, msg : Message]
  /\ crashed \in BOOLEAN
  /\ used \subseteq Sigs
  /\ registered \subseteq Handlers /\ left \subseteq Callers
  /\ done \in [Sigs -> Nat] /\ called \subseteq Handlers
  /\ before \in [Handlers -> SUBSET Sigs]
  /\ silenced \subseteq Handlers /\ going \subseteq Handlers

Copies(s) ==
  Cardinality({i \in DOMAIN queue : queue[i] = SignalMsg(s)}) +
  Cardinality({t \in Timers : timer[t].payload = s}) +
  Cardinality({d \in dying : d.msg = SignalMsg(s)}) +
  (IF current = s THEN 1 ELSE 0)

\* A signal raised is always in exactly one place (queue, timer, dispatch, the
\* hands of a task that is stopping) or finished, and it is finished once: its
\* data is freed, or its semaphore given, neither twice nor never, whatever
\* the timers and the overflows do.
SignalsConserved ==
  \A s \in Sigs : Copies(s) + done[s] = (IF s \in used THEN 1 ELSE 0)

\* RegisterEvent's guarantee, and more: a handler is never called for a signal
\* that was in dispatch or already in the queue when it was registered.
NeverForEarlier ==
  [][\A h \in Handlers :
       running' = h /\ running # h => current \notin before[h]]_vars

\* A handler that was in the lists when its owner deregistered on the events
\* task is never called again, not even by the dispatch in progress.
SilencedAtOnce ==
  [][\A h \in silenced : running' = h => running = h]_vars

\* At the end of a dispatch each handler that is in the lists for the event,
\* with its callback, has been called for it: an invalidated neighbour, or one
\* that registers or deregisters meanwhile, hides none.
EverybodyHears ==
  [][running = Script /\ current' = Nobody =>
       Listeners(NameOf[current]) \cap valid \subseteq called]_vars

\* A handler whose owner has deregistered, its adding still queued or not, is
\* out of the lists for good one day, unless the system goes down.
HandlerLeaves ==
  \A h \in Handlers : h \in going ~> (crashed \/ [](h \notin Listed))
=============================================================================
