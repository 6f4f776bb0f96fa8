-------------------------- MODULE OvmsNotifyProofs --------------------------
(***************************************************************************)
(* Proofs about OvmsNotify, for every set of web clients and every size of *)
(* the queues.  Accounted is inductive once the readers still owed an      *)
(* entry are known to be registered: the backlog's timer clears the bit of *)
(* a client that is gone, and nobody may be owed that bit.  The second     *)
(* part proves HeldIsAliveElse from HInv: a client holds an entry in one   *)
(* place, and its bit in the entry stays set as long as it does.  The last *)
(* part adds the sizes of the queues, for TypeOK.                          *)
(***************************************************************************)
EXTENDS OvmsNotify, FiniteSetTheorems, SequenceTheorems, TLAPS

\* The types the argument needs.
Shape ==
  /\ next \in Nat \ {0} /\ live \subseteq Ids
  /\ pending \in [Ids -> SUBSET Readers] /\ owed \in [Ids -> SUBSET Readers]
  /\ todo = None \/ todo \in SUBSET Readers
  /\ state \in [Web -> {"closed", "open", "closing"}]
  /\ None \notin Ids

\* Entries not raised yet have no bits.
Unraised == \A e \in Ids : e >= next => pending[e] = {}

\* Whoever is owed an entry, or is about to be, is registered; the second
\* entry of a command is never for Pushover.
OwedRegistered ==
  /\ \A e \in Ids : owed[e] \subseteq Registered
  /\ todo # None => todo \subseteq Registered \ {Push}

NInv == Shape /\ Unraised /\ OwedRegistered /\ Accounted

LEMMA InitHolds == Init => NInv
<1> SUFFICES ASSUME Init PROVE NInv
  OBVIOUS
<1>1. Shape
  BY ReadersAssumption DEF Init, Shape
<1>2. Unraised /\ OwedRegistered /\ Accounted
  BY DEF Init, Unraised, OwedRegistered, Accounted
<1> QED BY <1>1, <1>2 DEF NInv

LEMMA ReadersFacts ==
  /\ Push # Server /\ Push \notin Web /\ Server \notin Web
  /\ Registered \subseteq Readers /\ Push \in Registered /\ Server \in Registered
  /\ \A big : Accepting(big) \subseteq Registered
  /\ Accepting(FALSE) = Registered
  /\ Accepting(TRUE) = Registered \ {Push}
BY ReadersAssumption DEF Registered, Readers, Accepting, Accepts

-----------------------------------------------------------------------------
(* Raising.                                                                *)

\* The two things QueueEntry does that matter here: the new entry's bits, and
\* who is owed it.
LEMMA Queued ==
  ASSUME NInv, NEW big \in BOOLEAN, NEW want \in SUBSET Readers,
         NEW busy, NEW ok, next \in Ids,
         want \subseteq Accepting(big),
         QueueEntry(next, big, want, busy, ok), state' = state
  PROVE  /\ next' = next + 1 /\ next' \in Nat \ {0}
         /\ live' \subseteq Ids /\ pending' \in [Ids -> SUBSET Readers]
         /\ owed' \in [Ids -> SUBSET Readers]
         /\ Unraised' /\ Accounted'
         /\ \A e \in Ids : owed'[e] \subseteq Registered'
<1>1. PICK gone : /\ pending' = [pending EXCEPT ![next] =
                        want \ (gone \cup (Registered \ Accepting(big)))]
                  /\ owed' = [owed EXCEPT ![next] = want \ gone]
                  /\ live' = IF want \ (gone \cup (Registered \ Accepting(big))) = {}
                               THEN live ELSE live \cup {next}
                  /\ next' = next + 1
  <2>1. next \in Ids /\ pending \in [Ids -> SUBSET Readers]
    BY DEF NInv, Shape
  <2> QED BY <2>1 DEF QueueEntry, Processed
<1>2. want \ (gone \cup (Registered \ Accepting(big))) = want \ gone
  OBVIOUS
<1>3. /\ pending' = [pending EXCEPT ![next] = want \ gone]
      /\ live' = IF want \ gone = {} THEN live ELSE live \cup {next}
  BY <1>1, <1>2
<1> DEFINE bits == want \ gone
<1>4. bits \in SUBSET Readers /\ bits \subseteq Registered
  BY ReadersFacts
<1>5. owed' = [owed EXCEPT ![next] = bits]
  BY <1>1
<1>6. /\ pending' = [pending EXCEPT ![next] = bits]
      /\ live' = IF bits = {} THEN live ELSE live \cup {next}
  BY <1>3
<1> HIDE DEF bits
<1>7. Registered' = Registered
  BY DEF Registered
<1>8. /\ pending'[next] = bits /\ owed'[next] = bits
      /\ \A e \in Ids : e # next => pending'[e] = pending[e] /\ owed'[e] = owed[e]
  BY <1>5, <1>6 DEF NInv, Shape
<1>9. next \notin live
  BY DEF NInv, Shape, Unraised, Accounted
<1>10. Accounted'
  BY <1>6, <1>8, <1>9 DEF NInv, Accounted, Shape
<1>11. Unraised'
  BY <1>1, <1>8 DEF NInv, Unraised, Shape, Ids
<1>12. \A e \in Ids : owed'[e] \subseteq Registered'
  BY <1>4, <1>7, <1>8 DEF NInv, OwedRegistered
<1> QED BY <1>1, <1>4, <1>5, <1>6, <1>10, <1>11, <1>12 DEF NInv, Shape

LEMMA StringKeeps ==
  ASSUME NInv, NEW big \in BOOLEAN, NEW busy, NEW ok,
         NotifyString(big, busy, ok)
  PROVE  NInv'
<1>1. /\ QueueEntry(next, big, Accepting(big), busy, ok)
      /\ next \in Ids /\ todo' = todo /\ todo = None /\ state' = state
  BY DEF NotifyString
<1>2. Accepting(big) \in SUBSET Readers
  BY ReadersFacts
<1> QED BY <1>1, <1>2, Queued DEF NInv, Shape, OwedRegistered

LEMMA CommandKeeps ==
  ASSUME NInv, NEW big \in BOOLEAN, NEW busy, NEW ok,
         NotifyCommand(big, busy, ok)
  PROVE  NInv'
<1>1. PICK want \in SUBSET Readers :
        /\ want \subseteq Accepting(FALSE)
        /\ QueueEntry(next, FALSE, want, busy, ok)
  BY ReadersFacts DEF NotifyCommand
<1>2. /\ next \in Ids /\ state' = state /\ todo = None
      /\ todo' = None \/ todo' = Registered \ {Push}
  BY DEF NotifyCommand
<1>3. /\ next' = next + 1 /\ next' \in Nat \ {0}
      /\ live' \subseteq Ids /\ pending' \in [Ids -> SUBSET Readers]
      /\ owed' \in [Ids -> SUBSET Readers]
      /\ Unraised' /\ Accounted'
      /\ \A e \in Ids : owed'[e] \subseteq Registered'
  BY <1>1, <1>2, Queued
<1>4. Registered' = Registered /\ Registered \subseteq Readers
  BY <1>2, ReadersFacts DEF Registered
<1> QED BY <1>2, <1>3, <1>4 DEF NInv, Shape, OwedRegistered

LEMMA RestKeeps ==
  ASSUME NInv, NEW busy, NEW ok, NotifyCommandRest(busy, ok)
  PROVE  NInv'
<1>1. todo # None /\ todo' = None /\ state' = state
  BY DEF NotifyCommandRest
<1>2. todo \in SUBSET Readers /\ todo \subseteq Accepting(TRUE)
  BY <1>1, ReadersFacts DEF NInv, Shape, OwedRegistered
<1>3. CASE next \in Ids
  <2>1. QueueEntry(next, TRUE, todo, busy, ok)
    BY <1>3 DEF NotifyCommandRest
  <2> QED BY <1>1, <1>2, <1>3, <2>1, Queued DEF NInv, Shape, OwedRegistered
<1>4. CASE next \notin Ids
  <2>1. UNCHANGED <<next, live, pending, owed>>
    BY <1>4 DEF NotifyCommandRest
  <2>2. Registered' = Registered
    BY <1>1 DEF Registered
  <2> QED BY <1>1, <2>1, <2>2 DEF NInv, Shape, Unraised, OwedRegistered, Accounted
<1> QED BY <1>3, <1>4

-----------------------------------------------------------------------------
(* Reading.                                                                *)

\* MarkRead clears bits of r only, on entries that have them; it keeps the
\* account when r is owed none of them.
LEMMA ReadKeeps ==
  ASSUME NInv, NEW r \in Readers, NEW es \in SUBSET Ids, MarkRead(r, es),
         owed' \in [Ids -> SUBSET Readers],
         \A e \in Ids : owed'[e] \subseteq owed[e],
         \A e \in es : r \notin owed'[e],
         \A e \in Ids : owed'[e] \subseteq Registered',
         state' \in [Web -> {"closed", "open", "closing"}],
         todo' = todo, next' = next, todo = None \/ Registered \subseteq Registered'
  PROVE  NInv'
<1>1. /\ pending' \in [Ids -> SUBSET Readers]
      /\ \A e \in Ids : pending'[e] = IF e \in es \cap live
                                        THEN pending[e] \ {r} ELSE pending[e]
      /\ live' = {e \in live : pending'[e] # {}}
  BY DEF MarkRead, Marked, Uncleared, NInv, Shape
<1>2. Shape'
  BY <1>1 DEF NInv, Shape
<1>3. Unraised'
  BY <1>1 DEF NInv, Unraised
<1>4. OwedRegistered'
  BY DEF NInv, OwedRegistered
<1>5. Accounted'
  <2> SUFFICES ASSUME NEW e \in Ids
               PROVE  /\ owed'[e] \subseteq pending'[e]
                      /\ e \in live' <=> pending'[e] # {}
    BY DEF Accounted
  <2>1. owed[e] \subseteq pending[e] /\ (e \in live <=> pending[e] # {})
    BY DEF NInv, Accounted
  <2> QED BY <1>1, <2>1
<1> QED BY <1>2, <1>3, <1>4, <1>5 DEF NInv

LEMMA ServerKeeps == ASSUME NInv, ServerSends PROVE NInv'
<1>1. PICK e \in Ids : /\ MarkRead(Server, {e})
                       /\ owed' = [owed EXCEPT ![e] = @ \ {Server}]
  BY DEF ServerSends, FirstUnread, NInv, Shape
<1>2. /\ owed' \in [Ids -> SUBSET Readers]
      /\ \A x \in Ids : owed'[x] \subseteq owed[x]
      /\ Server \notin owed'[e]
  BY <1>1 DEF NInv, Shape
<1>3. state' = state /\ todo' = todo /\ next' = next
  BY DEF ServerSends, clients
<1>4. Registered' = Registered
  BY <1>3 DEF Registered
<1>5. \A x \in Ids : owed'[x] \subseteq Registered'
  BY <1>2, <1>4 DEF NInv, OwedRegistered
<1>6. Server \in Readers /\ {e} \in SUBSET Ids
  BY DEF Readers
<1>7. state' \in [Web -> {"closed", "open", "closing"}]
  BY <1>3 DEF NInv, Shape
<1> QED BY <1>1, <1>2, <1>3, <1>4, <1>5, <1>6, <1>7, ReadKeeps

\* The client's end, in two steps: it stays registered until the second.
LEMMA CloseKeeps ==
  ASSUME NInv, NEW w \in Web, CloseBegin(w) \/ CloseEnd(w)
  PROVE  NInv'
<1>1. /\ todo' = todo /\ next' = next
      /\ owed' = [e \in Ids |-> owed[e] \ {w}]
      /\ state' = [state EXCEPT ![w] = "closing"]
         \/ (state' = [state EXCEPT ![w] = "closed"] /\ todo = None)
  BY DEF CloseBegin, CloseEnd
<1>2. PICK es : MarkRead(w, es)
  BY DEF CloseBegin, CloseEnd
<1> DEFINE js == es \cap Ids
<1>3. MarkRead(w, js)
  BY <1>2 DEF MarkRead, Marked, Uncleared, NInv, Shape
<1>4. /\ owed' \in [Ids -> SUBSET Readers]
      /\ \A e \in Ids : owed'[e] \subseteq owed[e] /\ w \notin owed'[e]
  BY <1>1 DEF NInv, Shape
<1>5. state' \in [Web -> {"closed", "open", "closing"}]
  BY <1>1 DEF NInv, Shape
<1>6. Registered \ {w} \subseteq Registered'
  BY <1>1 DEF Registered, NInv, Shape
<1>7. todo = None \/ Registered \subseteq Registered'
  BY <1>1 DEF Registered, NInv, Shape
<1>8. \A e \in Ids : owed'[e] \subseteq Registered'
  BY <1>4, <1>6 DEF NInv, OwedRegistered
<1>9. w \in Readers /\ js \in SUBSET Ids /\ \A e \in js : w \notin owed'[e]
  BY <1>4 DEF Readers
<1> HIDE DEF js
<1> QED BY <1>1, <1>3, <1>4, <1>5, <1>7, <1>8, <1>9, ReadKeeps

\* A client that is gone is owed nothing, so its bit may be cleared.
LEMMA TickerKeeps == ASSUME NInv, UpdateTicker PROVE NInv'
<1>1. todo' = todo /\ next' = next /\ state' = state /\ owed' = owed
  BY DEF UpdateTicker, books
<1>2. Registered' = Registered
  BY <1>1 DEF Registered
<1>3. CASE UNCHANGED <<live, pending>>
  BY <1>1, <1>2, <1>3 DEF NInv, Shape, Unraised, OwedRegistered, Accounted
<1>4. ASSUME NEW w \in Web, NEW e \in Ids, state[w] = "closed", MarkRead(w, {e})
      PROVE  NInv'
  <2>1. w \notin Registered
    BY <1>4, ReadersFacts DEF Registered
  <2>2. \A x \in Ids : owed'[x] \subseteq Registered' /\ w \notin owed'[x]
    BY <1>1, <1>2, <2>1 DEF NInv, OwedRegistered
  <2>3. w \in Readers /\ {e} \in SUBSET Ids
    BY DEF Readers
  <2>4. /\ owed' \in [Ids -> SUBSET Readers]
        /\ state' \in [Web -> {"closed", "open", "closing"}]
    BY <1>1 DEF NInv, Shape
  <2> QED BY <1>1, <1>2, <1>4, <2>2, <2>3, <2>4, ReadKeeps
<1> QED BY <1>3, <1>4 DEF UpdateTicker

\* The last frame is out.
LEMMA EndJobKeeps == ASSUME NInv, NEW w \in Web, EndJob(w) PROVE NInv'
<1>1. /\ todo' = todo /\ next' = next /\ state' = state
      /\ MarkRead(w, {job[w]})
      /\ owed' = [owed EXCEPT ![job[w]] = @ \ {w}]
  BY DEF EndJob
<1>2. Registered' = Registered
  BY <1>1 DEF Registered
<1> DEFINE js == {job[w]} \cap Ids
<1>3. MarkRead(w, js)
  BY <1>1 DEF MarkRead, Marked, Uncleared, NInv, Shape
<1>4. /\ owed' \in [Ids -> SUBSET Readers]
      /\ \A e \in Ids : owed'[e] \subseteq owed[e]
      /\ \A e \in js : w \notin owed'[e]
  BY <1>1 DEF NInv, Shape
<1>5. \A e \in Ids : owed'[e] \subseteq Registered'
  BY <1>2, <1>4 DEF NInv, OwedRegistered
<1>6. w \in Readers /\ js \in SUBSET Ids
  BY DEF Readers
<1>7. state' \in [Web -> {"closed", "open", "closing"}]
  BY <1>1 DEF NInv, Shape
<1> HIDE DEF js
<1> QED BY <1>1, <1>2, <1>3, <1>4, <1>5, <1>6, <1>7, ReadKeeps

LEMMA NextKeeps == NInv /\ [Next]_vars => NInv'
<1> SUFFICES ASSUME NInv, [Next]_vars PROVE NInv'
  OBVIOUS
<1>1. CASE UNCHANGED <<entries, state, owed>>
  <2>1. Registered' = Registered
    BY <1>1 DEF Registered
  <2> QED
    BY <1>1, <2>1 DEF entries, NInv, Shape, Unraised, OwedRegistered, Accounted
<1>2. ASSUME NEW busy, NEW ok, NEW big \in BOOLEAN,
             NotifyString(big, busy, ok) \/ NotifyCommand(big, busy, ok)
      PROVE  NInv'
  BY <1>2, StringKeeps, CommandKeeps
<1>3. ASSUME NEW busy, NEW ok, NotifyCommandRest(busy, ok) PROVE NInv'
  BY <1>3, RestKeeps
<1>4. CASE ServerSends \/ UpdateTicker
  BY <1>4, ServerKeeps, TickerKeeps
<1>5. ASSUME NEW w \in Web, CreateHandler(w) PROVE NInv'
  <2>1. UNCHANGED <<next, live, pending, todo, owed>> /\ todo = None
    BY <1>5 DEF CreateHandler, entries, books
  <2>2. state' \in [Web -> {"closed", "open", "closing"}]
    BY <1>5 DEF CreateHandler, NInv, Shape
  <2>3. Registered \subseteq Registered'
    BY <1>5 DEF CreateHandler, Registered, NInv, Shape
  <2> QED
    BY <2>1, <2>2, <2>3 DEF NInv, Shape, Unraised, OwedRegistered, Accounted
<1>6. ASSUME NEW w \in Web, CloseBegin(w) \/ CloseEnd(w) PROVE NInv'
  BY <1>6, CloseKeeps
<1>7. ASSUME NEW w \in Web, StartJob(w) \/ EndJob(w) PROVE NInv'
  BY <1>1, <1>7, EndJobKeeps DEF StartJob, books
<1> QED
  BY <1>1, <1>2, <1>3, <1>4, <1>5, <1>6, <1>7 DEF Next, WebTask, vars, clients,
     books

\* NInv holds always.
THEOREM NotifyInvariance == Spec => []NInv
BY InitHolds, NextKeeps, PTL DEF Spec

\* No notification is lost without a trace (m_pendingreaders): a reader that is
\* still owed an entry has its bit in it, and the entry is kept exactly while a
\* bit is set; for every number of clients and every size of their queues.
THEOREM NotifyAccounted == Spec => []Accounted
<1>1. NInv => Accounted
  BY DEF NInv
<1> QED BY <1>1, NotifyInvariance, PTL

-----------------------------------------------------------------------------
(* The pointers of the web clients.  An entry is handed to a client once,  *)
(* so that the client holds it in one place; its bit stays set as long.    *)

Delivery(w, e) == [client |-> w, entry |-> e]
InJobs(w, e) == \E i \in DOMAIN jobs[w] : jobs[w][i] = e
InBack(w, e) == \E i \in DOMAIN backlog : backlog[i] = Delivery(w, e)

Queues ==
  /\ jobs \in [Web -> Seq(Ids)] /\ job \in [Web -> Ids \cup {None}]
  /\ backlog \in Seq([client : Web, entry : Ids])

Once ==
  /\ \A w \in Web : \A i, j \in DOMAIN jobs[w] : jobs[w][i] = jobs[w][j] => i = j
  /\ \A i, j \in DOMAIN backlog : backlog[i] = backlog[j] => i = j

\* One place, of an entry raised already; a job only of an open client; a
\* backlog entry of a client that is gone is an orphan; and the bit.
Placed(w, e) ==
  /\ InJobs(w, e) => ~InBack(w, e) /\ job[w] # e
  /\ InBack(w, e) => job[w] # e /\ (state[w] # "closed" \/ <<w, e>> \in orphaned)
  /\ InJobs(w, e) \/ job[w] = e => state[w] = "open"
  /\ InJobs(w, e) \/ job[w] = e \/ InBack(w, e) =>
       /\ e < next
       /\ w \in pending[e] \/ <<w, e>> \in unasked \/ <<w, e>> \in orphaned

HInv == NInv /\ Queues /\ Once /\ \A w \in Web, e \in Ids : Placed(w, e)

LEMMA PointersAlive == HInv => HeldIsAliveElse
<1> SUFFICES ASSUME HInv, NEW w \in Web, NEW e \in Ids, e \in Held(w)
             PROVE  e \in live \/ <<w, e>> \in unasked \/ <<w, e>> \in orphaned
  <2>1. HInv => \A w \in Web : Held(w) \subseteq Ids
    BY DEF HInv, NInv, Shape, Queues, Held, Unsent, InBacklog, ToSet
  <2> QED BY <2>1 DEF HeldIsAliveElse
<1>1. InJobs(w, e) \/ job[w] = e \/ InBack(w, e)
  <2>1. CASE e \in Unsent(w)
    BY <2>1 DEF Unsent, ToSet, InJobs
  <2>2. CASE e \in InBacklog(w)
    BY <2>2 DEF InBacklog, Contains, InBack, Delivery, HInv, Queues
  <2> QED BY <2>1, <2>2 DEF Held
<1>2. w \in pending[e] => e \in live
  BY DEF HInv, NInv, Accounted
<1> QED BY <1>1, <1>2 DEF HInv, Placed

LEMMA PointersInit == Init => HInv
<1> SUFFICES ASSUME Init PROVE HInv
  OBVIOUS
<1>1. Queues /\ Once
  BY DEF Init, Queues, Once
<1>2. \A w \in Web, e \in Ids : ~InJobs(w, e) /\ ~InBack(w, e) /\ job[w] # e
  BY ReadersAssumption DEF Init, InJobs, InBack
<1>3. \A w \in Web, e \in Ids : Placed(w, e)
  BY <1>2 DEF Placed
<1> QED BY <1>1, <1>3, InitHolds DEF HInv

-----------------------------------------------------------------------------
(* Delivery.                                                               *)

\* The readers that wait, in some order, each once.
LEMMA Listed ==
  ASSUME NEW S, IsFiniteSet(S)
  PROVE  /\ Cardinality(S) \in Nat
         /\ SetToSeq(S) \in [1 .. Cardinality(S) -> S]
         /\ IsInjective(SetToSeq(S))
<1>1. Cardinality(S) \in Nat /\ ExistsBijection(1 .. Cardinality(S), S)
  BY FS_CardinalityType
<1>2. \E f \in [1 .. Cardinality(S) -> S] : IsInjective(f)
  BY <1>1 DEF ExistsBijection, Bijection, Injection, IsInjective
<1> QED BY <1>1, <1>2 DEF SetToSeq

\* What fits in the backlog is a sequence without repetitions.
LEMMA FittingIsSeq ==
  ASSUME NEW S, NEW n \in Nat, NEW q \in [1 .. n -> S],
         Len(backlog) \in Nat, BacklogSize \in Nat, IsInjective(q)
  PROVE  /\ Fitting(q) \in Seq(S)
         /\ \A i, j \in DOMAIN Fitting(q) : Fitting(q)[i] = Fitting(q)[j] => i = j
<1> DEFINE room == BacklogSize - Len(backlog)
           k == IF room < 0 THEN 0 ELSE IF room < n THEN room ELSE n
           f == [i \in 1 .. k |-> q[i]]
<1>1. k \in Nat /\ 1 .. k \subseteq 1 .. n
  OBVIOUS
<1>2. {j \in DOMAIN q : j + Len(backlog) <= BacklogSize} = 1 .. k
  OBVIOUS
<1>3. Fitting(q) = f
  BY <1>2 DEF Fitting
<1> HIDE DEF k
<1>4. f \in [1 .. k -> S]
  BY <1>1
<1>5. f \in Seq(S)
  BY <1>1, <1>4, SeqDef
<1>6. \A i, j \in DOMAIN f : f[i] = f[j] => i = j
  BY <1>1 DEF IsInjective
<1> QED BY <1>3, <1>5, <1>6

\* The library's facts about the concatenation, for any two sequences.
LEMMA Joined ==
  ASSUME NEW S, NEW s \in Seq(S), NEW t \in Seq(S)
  PROVE  /\ s \o t \in Seq(S) /\ Len(s \o t) = Len(s) + Len(t)
         /\ \A i \in 1 .. Len(s) + Len(t) :
              (s \o t)[i] = IF i <= Len(s) THEN s[i] ELSE t[i - Len(s)]
BY ConcatProperties

\* The backlog grows by deliveries of a new entry, one to each client of f.
LEMMA BacklogGrows ==
  ASSUME HInv, NEW S \in SUBSET Web, NEW f \in Seq(S), next \in Ids,
         \A i, j \in DOMAIN f : f[i] = f[j] => i = j,
         backlog' = backlog \o [i \in DOMAIN f |-> Delivery(f[i], next)]
  PROVE  /\ backlog' \in Seq([client : Web, entry : Ids])
         /\ \A i, j \in DOMAIN backlog' : backlog'[i] = backlog'[j] => i = j
         /\ \A w \in Web, e \in Ids :
              InBack(w, e)' <=> InBack(w, e) \/ (e = next /\ w \in ToSet(f))
<1> DEFINE R == [client : Web, entry : Ids]
           g == [i \in DOMAIN f |-> Delivery(f[i], next)]
<1>1. Len(f) \in Nat /\ DOMAIN f = 1 .. Len(f) /\ \A i \in DOMAIN f : f[i] \in S
  BY LenProperties
<1>2. g \in [1 .. Len(f) -> R]
  BY <1>1 DEF Delivery
<1>3. g \in Seq(R) /\ Len(g) = Len(f)
  <2> HIDE DEF g, R
  <2>1. g \in Seq(R)
    BY <1>1, <1>2, SeqDef
  <2>2. DOMAIN g = 1 .. Len(g) /\ Len(g) \in Nat /\ DOMAIN g = 1 .. Len(f)
    BY <1>2, <2>1, LenProperties
  <2>3. \A m, n \in Nat : 1 .. m = 1 .. n => m = n
    OBVIOUS
  <2>4. Len(f) \in Nat
    BY <1>1
  <2>5. Len(g) = Len(f)
    BY <2>2, <2>3, <2>4, Zenon
  <2> QED BY <2>1, <2>5
<1>4. backlog \in Seq(R) /\ \A w \in Web : ~InBack(w, next)
  <2>1. backlog \in Seq(R)
    BY DEF HInv, Queues
  <2>2. \A w \in Web : ~InBack(w, next)
    <3> TAKE w \in Web
    <3>1. Placed(w, next) /\ next \in Nat
      BY DEF HInv, NInv, Shape
    <3>2. ~(next < next)
      BY <3>1
    <3> QED BY <3>1, <3>2 DEF Placed
  <2> QED BY <2>1, <2>2
<1>5. \A i \in DOMAIN f : g[i] = Delivery(f[i], next)
  OBVIOUS
<1>6. backlog' = backlog \o g
  OBVIOUS
<1> HIDE DEF g, R
<1>7. /\ backlog' \in Seq(R) /\ Len(backlog') = Len(backlog) + Len(f)
      /\ \A i \in 1 .. Len(backlog) + Len(f) :
           backlog'[i] = IF i <= Len(backlog) THEN backlog[i]
                         ELSE g[i - Len(backlog)]
  <2>1. /\ backlog \o g \in Seq(R) /\ Len(backlog \o g) = Len(backlog) + Len(g)
        /\ \A i \in 1 .. Len(backlog) + Len(g) :
             (backlog \o g)[i] = IF i <= Len(backlog) THEN backlog[i]
                                 ELSE g[i - Len(backlog)]
    BY <1>3, <1>4, Joined
  <2>2. Len(g) = Len(f)
    BY <1>3
  <2> QED BY <1>6, <2>1, <2>2, Zenon
<1>8. Len(backlog) \in Nat /\ DOMAIN backlog = 1 .. Len(backlog)
      /\ DOMAIN backlog' = 1 .. Len(backlog) + Len(f)
  <2>1. Len(backlog) \in Nat /\ DOMAIN backlog = 1 .. Len(backlog)
    BY <1>4, LenProperties
  <2>2. DOMAIN backlog' = 1 .. Len(backlog')
    BY <1>7, LenProperties
  <2> QED BY <1>7, <2>1, <2>2
<1>9. /\ \A i \in DOMAIN backlog : i \in DOMAIN backlog' /\ backlog'[i] = backlog[i]
      /\ \A j \in DOMAIN f : /\ Len(backlog) + j \in DOMAIN backlog'
                             /\ backlog'[Len(backlog) + j] = Delivery(f[j], next)
      /\ \A i \in DOMAIN backlog' :
           \/ i \in DOMAIN backlog
           \/ i - Len(backlog) \in DOMAIN f /\ i = Len(backlog) + (i - Len(backlog))
  <2>1. ASSUME NEW i \in DOMAIN backlog
        PROVE  i \in DOMAIN backlog' /\ backlog'[i] = backlog[i]
    BY <1>1, <1>7, <1>8
  <2>2. ASSUME NEW j \in DOMAIN f
        PROVE  /\ Len(backlog) + j \in DOMAIN backlog'
               /\ backlog'[Len(backlog) + j] = Delivery(f[j], next)
    <3> DEFINE i == Len(backlog) + j
    <3>1. /\ j \in 1 .. Len(f) /\ i \in 1 .. Len(backlog) + Len(f)
          /\ ~(i <= Len(backlog)) /\ i - Len(backlog) = j
      BY <1>1, <1>8
    <3>2. backlog'[i] = g[j]
      BY <1>7, <3>1
    <3> QED BY <1>5, <1>8, <3>1, <3>2
  <2>3. ASSUME NEW i \in DOMAIN backlog', i \notin DOMAIN backlog
        PROVE  /\ i - Len(backlog) \in DOMAIN f
               /\ i = Len(backlog) + (i - Len(backlog))
    BY <1>1, <1>8, <2>3
  <2> QED BY <2>1, <2>2, <2>3
<1>10. \A w, v, x, y : Delivery(w, x) = Delivery(v, y) => w = v /\ x = y
  BY DEF Delivery
<1>11. ASSUME NEW w \in Web, NEW e \in Ids
       PROVE  InBack(w, e)' <=> InBack(w, e) \/ (e = next /\ w \in ToSet(f))
  <2>1. InBack(w, e) => InBack(w, e)'
    BY <1>9 DEF InBack
  <2>2. e = next /\ w \in ToSet(f) => InBack(w, e)'
    BY <1>9 DEF InBack, ToSet
  <2>3. ASSUME NEW i \in DOMAIN backlog', backlog'[i] = Delivery(w, e)
        PROVE  InBack(w, e) \/ (e = next /\ w \in ToSet(f))
    <3>1. CASE i \in DOMAIN backlog
      BY <1>9, <2>3, <3>1 DEF InBack
    <3>2. ASSUME NEW j \in DOMAIN f, i = Len(backlog) + j
          PROVE  e = next /\ w \in ToSet(f)
      BY <1>9, <1>10, <2>3, <3>2 DEF ToSet
    <3> QED BY <1>9, <3>1, <3>2
  <2> QED BY <2>1, <2>2, <2>3 DEF InBack
<1>12. ASSUME NEW i \in DOMAIN backlog', NEW j \in DOMAIN backlog',
              backlog'[i] = backlog'[j]
       PROVE  i = j
  <2>1. CASE i \in DOMAIN backlog /\ j \in DOMAIN backlog
    BY <1>9, <1>12, <2>1 DEF HInv, Once
  <2>2. ASSUME NEW x \in DOMAIN backlog, NEW y \in DOMAIN f,
               backlog[x] = Delivery(f[y], next)
        PROVE  FALSE
    BY <1>1, <1>4, <2>2 DEF InBack
  <2>3. CASE i \notin DOMAIN backlog /\ j \notin DOMAIN backlog
    <3>1. PICK x \in DOMAIN f : i = Len(backlog) + x
      BY <1>9, <2>3
    <3>2. PICK y \in DOMAIN f : j = Len(backlog) + y
      BY <1>9, <2>3
    <3>3. f[x] = f[y]
      BY <1>9, <1>10, <1>12, <3>1, <3>2
    <3> QED BY <3>1, <3>2, <3>3
  <2> QED BY <1>9, <1>12, <2>1, <2>2, <2>3
<1> QED BY <1>7, <1>11, <1>12 DEF R

\* A job is queued: the queue stays without repetitions.
LEMMA Queueing ==
  ASSUME NEW q \in Seq(Ids), NEW e \in Ids,
         \A i, j \in DOMAIN q : q[i] = q[j] => i = j,
         \A i \in DOMAIN q : q[i] # e
  PROVE  /\ Append(q, e) \in Seq(Ids)
         /\ \A i, j \in DOMAIN Append(q, e) :
              Append(q, e)[i] = Append(q, e)[j] => i = j
         /\ \A x : (\E i \in DOMAIN Append(q, e) : Append(q, e)[i] = x)
                   <=> (\E i \in DOMAIN q : q[i] = x) \/ x = e
<1>1. /\ Append(q, e) \in Seq(Ids) /\ Len(Append(q, e)) = Len(q) + 1
      /\ \A i \in 1 .. Len(q) : Append(q, e)[i] = q[i]
      /\ Append(q, e)[Len(q) + 1] = e
  BY AppendProperties
<1>2. Len(q) \in Nat /\ DOMAIN q = 1 .. Len(q)
  BY LenProperties
<1>3. DOMAIN Append(q, e) = 1 .. Len(q) + 1
  BY <1>1, LenProperties
<1> DEFINE a == Append(q, e)
<1>4. /\ \A i \in DOMAIN q : i \in DOMAIN a /\ a[i] = q[i]
      /\ Len(q) + 1 \in DOMAIN a /\ a[Len(q) + 1] = e
      /\ \A i \in DOMAIN a : i \in DOMAIN q \/ i = Len(q) + 1
  BY <1>1, <1>2, <1>3
<1>5. a \in Seq(Ids)
  BY <1>1
<1> HIDE DEF a
<1>6. \A i, j \in DOMAIN a : a[i] = a[j] => i = j
  BY <1>4
<1>7. \A x : (\E i \in DOMAIN a : a[i] = x) <=> (\E i \in DOMAIN q : q[i] = x) \/ x = e
  BY <1>4
<1> QED BY <1>5, <1>6, <1>7 DEF a

\* A new entry is handed out: each client has it in one place, and the bit is
\* set, unless the client was not asked.
LEMMA QueuePlaces ==
  ASSUME HInv, NInv', NEW big \in BOOLEAN, NEW want \in SUBSET Readers,
         NEW busy \in SUBSET Web, NEW ok, next \in Ids,
         want \subseteq Accepting(big), Circumstances(busy),
         QueueEntry(next, big, want, busy, ok),
         UNCHANGED <<state, job, orphaned>>
  PROVE  HInv'
<1> DEFINE acc == Accepting(big)
           S == acc \cap busy
           f == Fitting(SetToSeq(S))
           late == ToSet(f)
           now == {w \in (acc \cap Web) \ busy : Room(jobs[w], JobSize)}
           lost == (acc \cap Web) \ (late \cup now)
           sent == acc \cap ({Push} \cup (IF ok THEN {Server} ELSE {}))
           bits == want \ ((sent \cup lost) \cup (Registered \ acc))
<1>1. /\ next' = next + 1 /\ pending' = [pending EXCEPT ![next] = bits]
      /\ backlog' = backlog \o [i \in DOMAIN f |-> Delivery(f[i], next)]
      /\ jobs' = [w \in Web |-> IF w \in now THEN Append(jobs[w], next)
                                ELSE jobs[w]]
      /\ unasked' = unasked \cup {<<w, next>> : w \in (late \cup now) \ want}
  <2>1. next' = next + 1 /\ pending' = [pending EXCEPT ![next] = bits]
    BY DEF QueueEntry, Processed
  <2>2. backlog' = backlog \o [i \in DOMAIN f |-> Delivery(f[i], next)]
    <3>1. backlog' = backlog \o [i \in DOMAIN f |->
                                   [client |-> SetToSeq(S)[i], entry |-> next]]
      BY DEF QueueEntry
    <3>2. \A i \in DOMAIN f : f[i] = SetToSeq(S)[i]
      BY DEF Fitting
    <3>3. [i \in DOMAIN f |-> [client |-> SetToSeq(S)[i], entry |-> next]]
            = [i \in DOMAIN f |-> Delivery(f[i], next)]
      <4> HIDE DEF f, S
      <4> QED BY <3>2 DEF Delivery
    <3> QED BY <3>1, <3>3
  <2>3. jobs' = [w \in Web |-> IF w \in now THEN Append(jobs[w], next)
                               ELSE jobs[w]]
    BY DEF QueueEntry
  <2>4. unasked' = unasked \cup {<<w, next>> : w \in (late \cup now) \ want}
    BY DEF QueueEntry
  <2> QED BY <2>1, <2>2, <2>3, <2>4
<1>2. next \in Nat /\ \A w \in Web : ~InJobs(w, next) /\ ~InBack(w, next)
                                     /\ job[w] # next
  <2>1. next \in Nat /\ ~(next < next)
    BY DEF HInv, NInv, Shape
  <2> QED BY <2>1 DEF HInv, Placed
<1>3. f \in Seq(S) /\ \A i, j \in DOMAIN f : f[i] = f[j] => i = j
  <2>1. IsFiniteSet(S)
    BY ReadersAssumption, FS_Subset
  <2>2. Len(backlog) \in Nat /\ BacklogSize \in Nat
    BY ReadersAssumption, LenProperties DEF HInv, Queues
  <2> HIDE DEF S
  <2> QED BY <2>1, <2>2, Listed, FittingIsSeq
<1>4. late \subseteq S
  <2> HIDE DEF S, f
  <2> QED BY <1>3, LenProperties DEF ToSet
<1>5. /\ backlog' \in Seq([client : Web, entry : Ids])
      /\ \A i, j \in DOMAIN backlog' : backlog'[i] = backlog'[j] => i = j
      /\ \A w \in Web, e \in Ids :
           InBack(w, e)' <=> InBack(w, e) \/ (e = next /\ w \in late)
  <2>1. S \in SUBSET Web
    OBVIOUS
  <2> HIDE DEF S, f
  <2> QED BY <1>1, <1>3, <2>1, BacklogGrows
<1> HIDE DEF f, now
<1>6. /\ jobs' \in [Web -> Seq(Ids)]
      /\ \A w \in Web : \A i, j \in DOMAIN jobs'[w] :
           jobs'[w][i] = jobs'[w][j] => i = j
      /\ \A w \in Web, e \in Ids :
           InJobs(w, e)' <=> InJobs(w, e) \/ (e = next /\ w \in now)
  <2>1. ASSUME NEW w \in Web
        PROVE  /\ jobs'[w] \in Seq(Ids)
               /\ \A i, j \in DOMAIN jobs'[w] : jobs'[w][i] = jobs'[w][j] => i = j
               /\ \A e \in Ids :
                    InJobs(w, e)' <=> InJobs(w, e) \/ (e = next /\ w \in now)
    <3>1. /\ jobs[w] \in Seq(Ids)
          /\ \A i, j \in DOMAIN jobs[w] : jobs[w][i] = jobs[w][j] => i = j
          /\ \A i \in DOMAIN jobs[w] : jobs[w][i] # next
      BY <1>2 DEF HInv, Queues, Once, InJobs
    <3>2. CASE w \in now
      <4>1. jobs'[w] = Append(jobs[w], next)
        BY <1>1, <3>2
      <4> QED BY <3>1, <3>2, <4>1, Queueing DEF InJobs
    <3>3. CASE w \notin now
      BY <1>1, <3>1, <3>3 DEF InJobs
    <3> QED BY <3>2, <3>3
  <2>2. jobs' = [w \in Web |-> jobs'[w]]
    BY <1>1
  <2> QED BY <2>1, <2>2
<1>7. \A w \in Web : w \in now => state[w] = "open"
  <2>1. ASSUME NEW w \in Web, w \in now, w \notin busy, w \in Registered
        PROVE  state[w] = "open"
    BY <2>1, ReadersFacts DEF Circumstances, Locked, Registered, HInv, NInv, Shape
  <2> QED BY <2>1, ReadersFacts DEF now
<1>8. \A w \in Web : w \in late => state[w] # "closed" /\ w \notin now
  BY <1>4, ReadersFacts DEF now, Registered
<1>9. \A w \in Web : w \in late \cup now =>
        w \in pending'[next] \/ <<w, next>> \in unasked'
  <2> SUFFICES ASSUME NEW w \in Web, w \in late \cup now, w \in want
               PROVE  w \in pending'[next]
    BY <1>1
  <2>1. pending'[next] = bits
    BY <1>1 DEF HInv, NInv, Shape
  <2> QED BY <2>1, ReadersFacts
<1> HIDE DEF late, bits
<1>10. ASSUME NEW w \in Web, NEW e \in Ids PROVE Placed(w, e)'
  <2>1. CASE e = next
    BY <1>1, <1>2, <1>5, <1>6, <1>7, <1>8, <1>9, <2>1 DEF Placed
  <2>2. CASE e # next
    <3>1. Placed(w, e)
      BY DEF HInv
    <3>2. /\ InJobs(w, e)' <=> InJobs(w, e)
          /\ InBack(w, e)' <=> InBack(w, e)
          /\ pending'[e] = pending[e]
      BY <1>1, <1>5, <1>6, <2>2 DEF HInv, NInv, Shape
    <3>3. e < next => e < next'
      BY <1>1, <1>2 DEF Ids
    <3> QED BY <1>1, <3>1, <3>2, <3>3 DEF Placed
  <2> QED BY <2>1, <2>2
<1> QED BY <1>5, <1>6, <1>10 DEF HInv, Queues, Once

LEMMA RaisePlaces ==
  ASSUME HInv, NInv', NEW busy \in SUBSET Web, NEW ok, NEW big \in BOOLEAN,
         \/ NotifyString(big, busy, ok) \/ NotifyCommand(big, busy, ok)
         \/ NotifyCommandRest(busy, ok)
  PROVE  HInv'
<1>1. CASE NotifyString(big, busy, ok)
  BY <1>1, QueuePlaces, ReadersFacts DEF NotifyString
<1>2. CASE NotifyCommand(big, busy, ok)
  <2>1. PICK want \in SUBSET Readers :
          /\ want \subseteq Accepting(FALSE)
          /\ QueueEntry(next, FALSE, want, busy, ok)
    BY <1>2, ReadersFacts DEF NotifyCommand
  <2> QED BY <1>2, <2>1, QueuePlaces DEF NotifyCommand
<1>3. CASE NotifyCommandRest(busy, ok) /\ next \in Ids
  <2>1. todo \in SUBSET Readers /\ todo \subseteq Accepting(TRUE)
    BY <1>3, ReadersFacts
       DEF NotifyCommandRest, HInv, NInv, Shape, OwedRegistered
  <2> QED BY <1>3, <2>1, QueuePlaces DEF NotifyCommandRest
<1>4. CASE NotifyCommandRest(busy, ok) /\ next \notin Ids
  <2>1. UNCHANGED <<next, pending, jobs, job, backlog, state, unasked, orphaned>>
    BY <1>4 DEF NotifyCommandRest
  <2> QED BY <2>1 DEF HInv, Queues, Once, Placed, InJobs, InBack
<1> QED BY <1>1, <1>2, <1>3, <1>4

-----------------------------------------------------------------------------
(* Sending and closing.                                                    *)

\* MarkRead clears r's bits in es, and no others.
LEMMA BitsCleared ==
  ASSUME NInv, NEW r, NEW es, MarkRead(r, es)
  PROVE  \A e \in Ids, w \in Web :
           w \in pending[e] /\ (w # r \/ e \notin es) => w \in pending'[e]
BY DEF MarkRead, Marked, NInv, Shape

LEMMA ServerPlaces ==
  ASSUME HInv, NInv', ServerSends
  PROVE  HInv'
<1>1. PICK e : MarkRead(Server, {e})
  BY DEF ServerSends
<1>2. \A x \in Ids, w \in Web : w \in pending[x] => w \in pending'[x]
  BY <1>1, BitsCleared, ReadersFacts DEF HInv
<1>3. UNCHANGED <<next, jobs, job, backlog, state, unasked, orphaned>>
  BY DEF ServerSends, clients
<1> QED BY <1>2, <1>3 DEF HInv, Queues, Once, Placed, InJobs, InBack

\* A slot that opens has no jobs; what the backlog has for it is an orphan.
LEMMA CreatePlaces ==
  ASSUME HInv, NInv', NEW v \in Web, CreateHandler(v)
  PROVE  HInv'
<1>1. /\ UNCHANGED <<next, pending, jobs, job, backlog, unasked, orphaned>>
      /\ state' = [state EXCEPT ![v] = "open"]
  BY DEF CreateHandler, entries, books
<1>2. \A w \in Web : state[w] = "open" => state'[w] = "open"
  BY <1>1 DEF HInv, NInv, Shape
<1>3. \A w \in Web : state[w] # "closed" => state'[w] # "closed"
  BY <1>1 DEF HInv, NInv, Shape
<1> QED BY <1>1, <1>2, <1>3 DEF HInv, Queues, Once, Placed, InJobs, InBack

\* Closing, first: the jobs go with their bits; the backlog keeps its own.
LEMMA CloseBeginPlaces ==
  ASSUME HInv, NInv', NEW v \in Web, CloseBegin(v)
  PROVE  HInv'
<1>1. /\ UNCHANGED <<next, backlog, unasked, orphaned>>
      /\ state' = [state EXCEPT ![v] = "closing"]
      /\ MarkRead(v, ToSet(jobs[v]))
      /\ jobs' = [jobs EXCEPT ![v] = <<>>] /\ job' = [job EXCEPT ![v] = None]
  BY DEF CloseBegin
<1>2. Queues' /\ Once'
  BY <1>1 DEF HInv, Queues, Once
<1>3. ASSUME NEW w \in Web, NEW e \in Ids PROVE Placed(w, e)'
  <2>0. Placed(w, e) /\ (InBack(w, e)' <=> InBack(w, e))
    BY <1>1 DEF HInv, InBack
  <2>1. CASE w = v
    <3>1. ~InJobs(w, e)' /\ job'[w] # e /\ state'[w] # "closed"
      BY <1>1, <2>1, ReadersAssumption DEF HInv, NInv, Shape, Queues, InJobs
    <3>2. InBack(w, e) => e \notin ToSet(jobs[v])
      BY <2>0, <2>1 DEF Placed, InJobs, ToSet
    <3>3. InBack(w, e) /\ w \in pending[e] => w \in pending'[e]
      BY <1>1, <3>2, BitsCleared DEF HInv
    <3> QED BY <1>1, <2>0, <3>1, <3>3 DEF Placed
  <2>2. CASE w # v
    <3>1. /\ InJobs(w, e)' <=> InJobs(w, e)
          /\ job'[w] = job[w] /\ state'[w] = state[w]
      BY <1>1, <2>2 DEF HInv, NInv, Shape, Queues, InJobs
    <3>2. w \in pending[e] => w \in pending'[e]
      BY <1>1, <2>2, BitsCleared DEF HInv
    <3> QED BY <1>1, <2>0, <3>1, <3>2 DEF Placed
  <2> QED BY <2>1, <2>2
<1> QED BY <1>2, <1>3 DEF HInv

\* Closing, second: what the backlog still has becomes an orphan.
LEMMA CloseEndPlaces ==
  ASSUME HInv, NInv', NEW v \in Web, CloseEnd(v)
  PROVE  HInv'
<1>1. /\ UNCHANGED <<next, backlog, jobs, job, unasked>>
      /\ state[v] = "closing" /\ state' = [state EXCEPT ![v] = "closed"]
      /\ MarkRead(v, BitsOf(v))
      /\ orphaned' = orphaned \cup {<<v, e>> : e \in InBacklog(v)}
  BY DEF CloseEnd
<1>2. Queues' /\ Once'
  BY <1>1 DEF HInv, Queues, Once
<1>3. ASSUME NEW w \in Web, NEW e \in Ids PROVE Placed(w, e)'
  <2>0. /\ Placed(w, e) /\ (InBack(w, e)' <=> InBack(w, e))
        /\ (InJobs(w, e)' <=> InJobs(w, e))
    BY <1>1 DEF HInv, InBack, InJobs
  <2>1. CASE w = v
    <3>1. ~InJobs(w, e) /\ job[w] # e
      BY <1>1, <2>0, <2>1 DEF Placed
    <3>2. InBack(w, e) => <<w, e>> \in orphaned'
      <4>1. DOMAIN backlog = 1 .. Len(backlog)
        BY LenProperties DEF HInv, Queues
      <4>2. InBack(w, e) => e \in InBacklog(w)
        BY <4>1 DEF InBacklog, InBack, Contains, Delivery
      <4> QED BY <1>1, <2>1, <4>2
    <3> QED BY <1>1, <2>0, <3>1, <3>2 DEF Placed
  <2>2. CASE w # v
    <3>1. state'[w] = state[w]
      BY <1>1, <2>2 DEF HInv, NInv, Shape
    <3>2. w \in pending[e] => w \in pending'[e]
      BY <1>1, <2>2, BitsCleared DEF HInv
    <3> QED BY <1>1, <2>0, <3>1, <3>2 DEF Placed
  <2> QED BY <2>1, <2>2
<1> QED BY <1>2, <1>3 DEF HInv

\* Taking the head of a sequence without repetitions.
LEMMA Taking ==
  ASSUME NEW S, NEW q \in Seq(S), q # <<>>,
         \A i, j \in DOMAIN q : q[i] = q[j] => i = j
  PROVE  /\ Tail(q) \in Seq(S) /\ Head(q) \in S
         /\ \E i \in DOMAIN q : q[i] = Head(q)
         /\ \A i, j \in DOMAIN Tail(q) : Tail(q)[i] = Tail(q)[j] => i = j
         /\ \A x : (\E i \in DOMAIN Tail(q) : Tail(q)[i] = x)
                   <=> (\E i \in DOMAIN q : q[i] = x) /\ x # Head(q)
<1>1. /\ Tail(q) \in Seq(S) /\ Head(q) \in S /\ Len(Tail(q)) = Len(q) - 1
      /\ \A i \in 1 .. Len(Tail(q)) : Tail(q)[i] = q[i + 1]
  BY HeadTailProperties
<1>2. /\ Len(q) \in Nat /\ DOMAIN q = 1 .. Len(q) /\ Len(q) # 0
      /\ Len(Tail(q)) \in Nat /\ DOMAIN Tail(q) = 1 .. Len(Tail(q))
  BY <1>1, LenProperties, EmptySeq
<1>3. Head(q) = q[1]
  BY HeadTailProperties
<1> DEFINE t == Tail(q)
<1>4. /\ 1 \in DOMAIN q /\ q[1] = Head(q)
      /\ \A i \in DOMAIN t : i + 1 \in DOMAIN q /\ t[i] = q[i + 1] /\ i + 1 # 1
      /\ \A i \in DOMAIN q : i # 1 => i - 1 \in DOMAIN t /\ t[i - 1] = q[i]
      /\ \A i, j \in DOMAIN t : i + 1 = j + 1 => i = j
  BY <1>1, <1>2, <1>3
<1>5. t \in Seq(S)
  BY <1>1
<1> HIDE DEF t
<1>6. \A i, j \in DOMAIN t : t[i] = t[j] => i = j
  BY <1>4
<1>7. ASSUME NEW x
      PROVE  (\E i \in DOMAIN t : t[i] = x)
             <=> (\E i \in DOMAIN q : q[i] = x) /\ x # Head(q)
  <2>1. ASSUME NEW i \in DOMAIN t, t[i] = x
        PROVE  (\E j \in DOMAIN q : q[j] = x) /\ x # Head(q)
    BY <1>4, <2>1
  <2>2. ASSUME NEW i \in DOMAIN q, q[i] = x, x # Head(q)
        PROVE  \E j \in DOMAIN t : t[j] = x
    BY <1>4, <2>2
  <2> QED BY <2>1, <2>2
<1> QED BY <1>1, <1>4, <1>5, <1>6, <1>7 DEF t

\* The head of the backlog is dropped with its bit, or becomes a job.
LEMMA TickerPlaces ==
  ASSUME HInv, NInv', UpdateTicker
  PROVE  HInv'
<1> DEFINE R == [client : Web, entry : Ids]
<1>0. /\ backlog # <<>> /\ backlog' = Tail(backlog)
      /\ UNCHANGED <<next, state, job, unasked, orphaned>>
  BY DEF UpdateTicker, books
<1>1. PICK v \in Web, h \in Ids :
        /\ Head(backlog) = Delivery(v, h)
        /\ \/ state[v] = "closed" /\ MarkRead(v, {h}) /\ UNCHANGED jobs
           \/ /\ state[v] = "open" /\ jobs' = [jobs EXCEPT ![v] = Append(@, h)]
              /\ UNCHANGED <<live, pending>>
  BY DEF UpdateTicker, Delivery
<1>2. /\ backlog' \in Seq(R)
      /\ \A i, j \in DOMAIN backlog' : backlog'[i] = backlog'[j] => i = j
      /\ \E i \in DOMAIN backlog : backlog[i] = Head(backlog)
      /\ \A x : (\E i \in DOMAIN backlog' : backlog'[i] = x)
                <=> (\E i \in DOMAIN backlog : backlog[i] = x) /\ x # Head(backlog)
  <2>1. /\ backlog \in Seq(R)
        /\ \A i, j \in DOMAIN backlog : backlog[i] = backlog[j] => i = j
    BY DEF HInv, Queues, Once
  <2> HIDE DEF R
  <2> QED BY <1>0, <2>1, Taking
<1>3. /\ InBack(v, h)
      /\ \A w \in Web, e \in Ids :
           InBack(w, e)' <=> InBack(w, e) /\ ~(w = v /\ e = h)
  <2>1. \A w \in Web, e \in Ids : Delivery(w, e) = Head(backlog)
                                  <=> w = v /\ e = h
    BY <1>1 DEF Delivery
  <2>2. \A w \in Web, e \in Ids :
          InBack(w, e)' <=> InBack(w, e) /\ Delivery(w, e) # Head(backlog)
    BY <1>2 DEF InBack
  <2>3. InBack(v, h)
    BY <1>1, <1>2 DEF InBack
  <2> QED BY <2>1, <2>2, <2>3
<1>4. ~InJobs(v, h) /\ job[v] # h /\ h < next
      /\ (h \in Ids /\ (v \in pending[h] \/ <<v, h>> \in unasked
                        \/ <<v, h>> \in orphaned))
  BY <1>3 DEF HInv, Placed
<1>5. CASE state[v] = "closed" /\ MarkRead(v, {h}) /\ UNCHANGED jobs
  <2>1. Queues' /\ Once'
    BY <1>0, <1>2, <1>5 DEF HInv, Queues, Once
  <2>2. ASSUME NEW w \in Web, NEW e \in Ids PROVE Placed(w, e)'
    <3>1. Placed(w, e) /\ (InJobs(w, e)' <=> InJobs(w, e))
      BY <1>5 DEF HInv, InJobs
    <3>2. CASE w = v /\ e = h
      BY <1>0, <1>3, <1>4, <3>1, <3>2 DEF Placed
    <3>3. CASE ~(w = v /\ e = h)
      <4>1. w \in pending[e] => w \in pending'[e]
        BY <1>5, <3>3, BitsCleared DEF HInv
      <4> QED BY <1>0, <1>3, <3>1, <3>3, <4>1 DEF Placed
    <3> QED BY <3>2, <3>3
  <2> QED BY <2>1, <2>2 DEF HInv
<1>6. CASE /\ state[v] = "open" /\ jobs' = [jobs EXCEPT ![v] = Append(@, h)]
           /\ UNCHANGED <<live, pending>>
  <2>1. /\ jobs[v] \in Seq(Ids) /\ \A i \in DOMAIN jobs[v] : jobs[v][i] # h
        /\ \A i, j \in DOMAIN jobs[v] : jobs[v][i] = jobs[v][j] => i = j
    BY <1>4 DEF HInv, Queues, Once, InJobs
  <2>2. /\ jobs'[v] = Append(jobs[v], h)
        /\ \A w \in Web : w # v => jobs'[w] = jobs[w]
        /\ jobs' = [w \in Web |-> jobs'[w]]
    BY <1>6 DEF HInv, Queues
  <2>3. /\ jobs'[v] \in Seq(Ids)
        /\ \A i, j \in DOMAIN jobs'[v] : jobs'[v][i] = jobs'[v][j] => i = j
        /\ \A e : (\E i \in DOMAIN jobs'[v] : jobs'[v][i] = e)
                  <=> (\E i \in DOMAIN jobs[v] : jobs[v][i] = e) \/ e = h
    <3> DEFINE a == Append(jobs[v], h)
    <3>1. /\ a \in Seq(Ids)
          /\ \A i, j \in DOMAIN a : a[i] = a[j] => i = j
          /\ \A e : (\E i \in DOMAIN a : a[i] = e)
                    <=> (\E i \in DOMAIN jobs[v] : jobs[v][i] = e) \/ e = h
      BY <2>1, Queueing
    <3>2. jobs'[v] = a
      BY <2>2
    <3> HIDE DEF a
    <3> QED BY <3>1, <3>2
  <2>4. Queues' /\ Once'
    <3>1. \A w \in Web :
            /\ jobs'[w] \in Seq(Ids)
            /\ \A i, j \in DOMAIN jobs'[w] : jobs'[w][i] = jobs'[w][j] => i = j
      <4> TAKE w \in Web
      <4>1. CASE w = v
        BY <2>3, <4>1
      <4>2. CASE w # v
        BY <2>2, <4>2 DEF HInv, Queues, Once
      <4> QED BY <4>1, <4>2
    <3>2. jobs' \in [Web -> Seq(Ids)]
      BY <2>2, <3>1
    <3> QED BY <1>0, <1>2, <3>1, <3>2 DEF HInv, Queues, Once
  <2>5. \A w \in Web, e \in Ids :
          InJobs(w, e)' <=> InJobs(w, e) \/ (w = v /\ e = h)
    BY <2>2, <2>3 DEF InJobs
  <2>6. ASSUME NEW w \in Web, NEW e \in Ids PROVE Placed(w, e)'
    <3>1. Placed(w, e)
      BY DEF HInv
    <3>2. CASE w = v /\ e = h
      BY <1>0, <1>3, <1>4, <1>6, <2>5, <3>1, <3>2 DEF Placed
    <3>3. CASE ~(w = v /\ e = h)
      BY <1>0, <1>3, <1>6, <2>5, <3>1, <3>3 DEF Placed
    <3> QED BY <3>2, <3>3
  <2> QED BY <2>4, <2>6 DEF HInv
<1> QED BY <1>1, <1>5, <1>6

\* The head of a client's queue becomes the job in progress.
LEMMA StartPlaces ==
  ASSUME HInv, NInv', NEW v \in Web, StartJob(v)
  PROVE  HInv'
<1> DEFINE h == Head(jobs[v])
<1>1. /\ UNCHANGED <<next, pending, state, backlog, unasked, orphaned>>
      /\ job[v] = None /\ jobs[v] # <<>>
      /\ job' = [job EXCEPT ![v] = h] /\ jobs' = [jobs EXCEPT ![v] = Tail(@)]
  BY DEF StartJob, entries, books
<1>2. /\ jobs'[v] = Tail(jobs[v]) /\ job'[v] = h
      /\ \A w \in Web : w # v => jobs'[w] = jobs[w] /\ job'[w] = job[w]
      /\ jobs' = [w \in Web |-> jobs'[w]] /\ job' = [w \in Web |-> job'[w]]
  BY <1>1 DEF HInv, Queues
<1>3. /\ jobs'[v] \in Seq(Ids) /\ h \in Ids
      /\ \E i \in DOMAIN jobs[v] : jobs[v][i] = h
      /\ \A i, j \in DOMAIN jobs'[v] : jobs'[v][i] = jobs'[v][j] => i = j
      /\ \A e : (\E i \in DOMAIN jobs'[v] : jobs'[v][i] = e)
                <=> (\E i \in DOMAIN jobs[v] : jobs[v][i] = e) /\ e # h
  <2>1. /\ jobs[v] \in Seq(Ids)
        /\ \A i, j \in DOMAIN jobs[v] : jobs[v][i] = jobs[v][j] => i = j
    BY DEF HInv, Queues, Once
  <2> DEFINE b == Tail(jobs[v])
  <2>2. /\ b \in Seq(Ids) /\ h \in Ids
        /\ \E i \in DOMAIN jobs[v] : jobs[v][i] = h
        /\ \A i, j \in DOMAIN b : b[i] = b[j] => i = j
        /\ \A e : (\E i \in DOMAIN b : b[i] = e)
                  <=> (\E i \in DOMAIN jobs[v] : jobs[v][i] = e) /\ e # h
    BY <1>1, <2>1, Taking
  <2>3. jobs'[v] = b
    BY <1>2
  <2> HIDE DEF b, h
  <2> QED BY <2>2, <2>3
<1> HIDE DEF h
<1>4. Queues' /\ Once'
  <2>1. \A w \in Web :
          /\ jobs'[w] \in Seq(Ids)
          /\ \A i, j \in DOMAIN jobs'[w] : jobs'[w][i] = jobs'[w][j] => i = j
    <3> TAKE w \in Web
    <3>1. CASE w = v
      BY <1>3, <3>1
    <3>2. CASE w # v
      BY <1>2, <3>2 DEF HInv, Queues, Once
    <3> QED BY <3>1, <3>2
  <2>2. jobs' \in [Web -> Seq(Ids)] /\ job' \in [Web -> Ids \cup {None}]
    BY <1>1, <1>2, <1>3, <2>1 DEF HInv, Queues
  <2> QED BY <1>1, <2>1, <2>2 DEF HInv, Queues, Once
<1>5. InJobs(v, h) /\ \A w \in Web, e \in Ids :
        InJobs(w, e)' <=> InJobs(w, e) /\ ~(w = v /\ e = h)
  <2>1. InJobs(v, h)
    BY <1>3 DEF InJobs
  <2>2. \A e \in Ids : InJobs(v, e)' <=> InJobs(v, e) /\ e # h
    BY <1>3 DEF InJobs
  <2>3. \A w \in Web, e \in Ids : w # v => (InJobs(w, e)' <=> InJobs(w, e))
    BY <1>2 DEF InJobs
  <2> QED BY <2>1, <2>2, <2>3
<1>6. ASSUME NEW w \in Web, NEW e \in Ids PROVE Placed(w, e)'
  <2>1. Placed(w, e) /\ (InBack(w, e)' <=> InBack(w, e)) /\ e # None
    BY <1>1, ReadersAssumption DEF HInv, InBack
  <2>2. CASE w = v
    BY <1>1, <1>2, <1>5, <2>1, <2>2 DEF Placed
  <2>3. CASE w # v
    BY <1>1, <1>2, <1>5, <2>1, <2>3 DEF Placed
  <2> QED BY <2>2, <2>3
<1> QED BY <1>4, <1>6 DEF HInv

\* The job ends, and its bit with it.
LEMMA EndPlaces ==
  ASSUME HInv, NInv', NEW v \in Web, EndJob(v)
  PROVE  HInv'
<1>1. /\ UNCHANGED <<next, state, jobs, backlog, unasked, orphaned>>
      /\ job' = [job EXCEPT ![v] = None] /\ MarkRead(v, {job[v]})
  BY DEF EndJob
<1>2. Queues' /\ Once'
  BY <1>1 DEF HInv, Queues, Once
<1>3. ASSUME NEW w \in Web, NEW e \in Ids PROVE Placed(w, e)'
  <2>1. /\ Placed(w, e) /\ e # None
        /\ (InBack(w, e)' <=> InBack(w, e)) /\ (InJobs(w, e)' <=> InJobs(w, e))
    BY <1>1, ReadersAssumption DEF HInv, InBack, InJobs
  <2>2. /\ job'[w] = e => w # v /\ job[w] = e
        /\ w # v => job'[w] = job[w]
    BY <1>1, <2>1 DEF HInv, Queues
  <2>3. CASE w = v /\ e = job[v]
    BY <1>1, <2>1, <2>2, <2>3 DEF Placed
  <2>4. CASE ~(w = v /\ e = job[v])
    <3>1. w \in pending[e] => w \in pending'[e]
      BY <1>1, <2>4, BitsCleared DEF HInv
    <3> QED BY <1>1, <2>1, <2>2, <3>1 DEF Placed
  <2> QED BY <2>3, <2>4
<1> QED BY <1>2, <1>3 DEF HInv

LEMMA NextPlaces == HInv /\ [Next]_vars => HInv'
<1> SUFFICES ASSUME HInv, [Next]_vars PROVE HInv'
  OBVIOUS
<1>0. NInv'
  BY NextKeeps DEF HInv
<1>1. CASE UNCHANGED vars
  BY <1>0, <1>1 DEF vars, entries, clients, books, HInv, Queues, Once, Placed,
     InJobs, InBack
<1>2. ASSUME NEW busy \in SUBSET Web, NEW ok, NEW big \in BOOLEAN,
             NotifyString(big, busy, ok) \/ NotifyCommand(big, busy, ok)
      PROVE  HInv'
  BY <1>0, <1>2, RaisePlaces
<1>3. ASSUME NEW busy \in SUBSET Web, NEW ok, NotifyCommandRest(busy, ok)
      PROVE  HInv'
  BY <1>0, <1>3, RaisePlaces
<1>4. CASE ServerSends \/ UpdateTicker
  BY <1>0, <1>4, ServerPlaces, TickerPlaces
<1>5. ASSUME NEW w \in Web, CreateHandler(w) \/ CloseBegin(w) PROVE HInv'
  BY <1>0, <1>5, CreatePlaces, CloseBeginPlaces
<1>6. CASE WebTask
  BY <1>0, <1>6, CloseEndPlaces, StartPlaces, EndPlaces DEF WebTask
<1> QED BY <1>1, <1>2, <1>3, <1>4, <1>5, <1>6 DEF Next

\* The pointers of the web clients (PutNotification, m_jobqueue, m_job and
\* m_client_backlog) are to entries that exist, but for entries delivered to a
\* client that was not asked and for those its closing left in the backlog: for
\* every number of clients and every size of the queues.
THEOREM NotifyHeldIsAliveElse == Spec => []HeldIsAliveElse
BY PointersInit, NextPlaces, PointersAlive, PTL DEF Spec

-----------------------------------------------------------------------------
(* TypeOK: HInv has the types; what is left are the sizes of the queues.   *)

Sizes ==
  /\ next \in 1 .. MaxId + 1
  /\ Len(backlog) <= BacklogSize
  /\ \A w \in Web : Len(jobs[w]) <= JobSize
  /\ unasked \subseteq Web \X Ids /\ orphaned \subseteq Web \X Ids

LEMMA TypesCovered == HInv /\ Sizes => TypeOK
BY DEF HInv, NInv, Shape, Queues, Sizes, TypeOK

LEMMA SizesInit == Init => Sizes
<1> SUFFICES ASSUME Init PROVE Sizes
  OBVIOUS
<1>1. MaxId \in Nat /\ JobSize \in Nat /\ BacklogSize \in Nat
  BY ReadersAssumption
<1>2. next = 1 /\ backlog = <<>> /\ (\A w \in Web : jobs[w] = <<>>)
      /\ unasked = {} /\ orphaned = {}
  BY DEF Init
<1> QED BY <1>1, <1>2 DEF Sizes

\* Fitting takes what the backlog has room for.
LEMMA FittingFits ==
  ASSUME NEW S, NEW n \in Nat, NEW q \in [1 .. n -> S], Fitting(q) \in Seq(S),
         Len(backlog) \in Nat, Len(backlog) <= BacklogSize, BacklogSize \in Nat
  PROVE  Len(backlog) + Len(Fitting(q)) <= BacklogSize
<1>1. DOMAIN Fitting(q) = 1 .. Len(Fitting(q)) /\ Len(Fitting(q)) \in Nat
  BY LenProperties
<1>2. DOMAIN Fitting(q) = {j \in DOMAIN q : j + Len(backlog) <= BacklogSize}
  BY DEF Fitting
<1>3. CASE Len(Fitting(q)) = 0
  BY <1>3
<1>4. CASE Len(Fitting(q)) # 0
  <2>1. Len(Fitting(q)) \in DOMAIN Fitting(q)
    BY <1>1, <1>4
  <2>2. Len(Fitting(q)) + Len(backlog) <= BacklogSize
    BY <1>2, <2>1
  <2> QED BY <1>1, <2>2
<1> QED BY <1>3, <1>4

LEMMA BacklogLength ==
  ASSUME HInv, NEW S \in SUBSET Web, NEW f \in Seq(S), next \in Ids,
         backlog' = backlog \o [i \in DOMAIN f |-> [client |-> f[i], entry |-> next]]
  PROVE  Len(backlog') = Len(backlog) + Len(f)
<1> DEFINE R == [client : Web, entry : Ids]
           g == [i \in DOMAIN f |-> [client |-> f[i], entry |-> next]]
<1>1. Len(f) \in Nat /\ DOMAIN f = 1 .. Len(f) /\ \A i \in DOMAIN f : f[i] \in S
  BY LenProperties
<1>2. g \in [1 .. Len(f) -> R]
  BY <1>1
<1>3. backlog \in Seq(R)
  BY DEF HInv, Queues
<1>4. backlog' = backlog \o g
  OBVIOUS
<1> HIDE DEF g, R
<1>5. g \in Seq(R)
  BY <1>1, <1>2, SeqDef
<1>6. Len(g) = Len(f)
  <2>1. DOMAIN g = 1 .. Len(g) /\ Len(g) \in Nat /\ DOMAIN g = 1 .. Len(f)
    BY <1>2, <1>5, LenProperties
  <2>2. \A m, n \in Nat : 1 .. m = 1 .. n => m = n
    OBVIOUS
  <2> QED BY <1>1, <2>1, <2>2, Zenon
<1>7. Len(backlog \o g) = Len(backlog) + Len(g)
  BY <1>3, <1>5, Joined
<1> QED BY <1>4, <1>6, <1>7, Zenon

\* A new entry is handed out within the sizes.
LEMMA QueueSizes ==
  ASSUME HInv, Sizes, NEW big, NEW want, NEW busy \in SUBSET Web, NEW ok,
         next \in Ids, QueueEntry(next, big, want, busy, ok), orphaned' = orphaned
  PROVE  Sizes'
<1> DEFINE S == Accepting(big) \cap busy
           f == Fitting(SetToSeq(S))
           late == ToSet(f)
           now == {w \in (Accepting(big) \cap Web) \ busy : Room(jobs[w], JobSize)}
<1>1. /\ next' = next + 1
      /\ backlog' = backlog \o [i \in DOMAIN f |-> [client |-> SetToSeq(S)[i],
                                                    entry |-> next]]
      /\ jobs' = [w \in Web |-> IF w \in now THEN Append(jobs[w], next)
                                ELSE jobs[w]]
      /\ unasked' = unasked \cup {<<w, next>> : w \in (late \cup now) \ want}
  BY DEF QueueEntry
<1>2. /\ MaxId \in Nat /\ JobSize \in Nat /\ BacklogSize \in Nat
      /\ Len(backlog) \in Nat /\ S \in SUBSET Web
  BY ReadersAssumption, LenProperties DEF HInv, Queues
<1>3. next' \in 1 .. MaxId + 1
  BY <1>1, <1>2 DEF Ids
<1>4. f \in Seq(S) /\ Len(backlog) + Len(f) <= BacklogSize
  <2>1. /\ Cardinality(S) \in Nat /\ SetToSeq(S) \in [1 .. Cardinality(S) -> S]
        /\ IsInjective(SetToSeq(S))
    <3>1. IsFiniteSet(S)
      BY <1>2, ReadersAssumption, FS_Subset
    <3> QED BY <3>1, Listed
  <2> HIDE DEF S
  <2>2. f \in Seq(S)
    BY <1>2, <2>1, FittingIsSeq
  <2> QED BY <1>2, <2>1, <2>2, FittingFits DEF Sizes
<1>5. Len(backlog') <= BacklogSize
  <2>1. \A i \in DOMAIN f : f[i] = SetToSeq(S)[i]
    BY DEF Fitting
  <2> HIDE DEF f
  <2>2. backlog' = backlog \o [i \in DOMAIN f |-> [client |-> f[i], entry |-> next]]
    BY <1>1, <2>1
  <2> HIDE DEF S
  <2>3. Len(backlog') = Len(backlog) + Len(f)
    BY <1>2, <1>4, <2>2, BacklogLength
  <2> QED BY <1>4, <2>3
<1>6. late \subseteq Web /\ now \subseteq Web
  <2>1. DOMAIN f = 1 .. Len(f) /\ \A i \in DOMAIN f : f[i] \in S
    BY <1>4, LenProperties
  <2> HIDE DEF f
  <2> QED BY <2>1, <1>2 DEF ToSet
<1>7. unasked' \subseteq Web \X Ids
  <2> HIDE DEF late, now
  <2> QED BY <1>1, <1>6 DEF Sizes
<1>8. ASSUME NEW w \in Web PROVE Len(jobs'[w]) <= JobSize
  <2>1. /\ jobs[w] \in Seq(Ids) /\ Len(jobs[w]) \in Nat
        /\ Len(Append(jobs[w], next)) = Len(jobs[w]) + 1
    BY AppendProperties, LenProperties DEF HInv, Queues
  <2>2. w \in now => Len(jobs[w]) < JobSize
    BY DEF Room
  <2> HIDE DEF now
  <2>3. jobs'[w] = IF w \in now THEN Append(jobs[w], next) ELSE jobs[w]
    BY <1>1
  <2> QED BY <1>2, <2>1, <2>2, <2>3 DEF Sizes
<1> QED BY <1>3, <1>5, <1>7, <1>8 DEF Sizes

LEMMA SizesKept == HInv /\ Sizes /\ [Next]_vars => Sizes'
<1> SUFFICES ASSUME HInv, Sizes, [Next]_vars PROVE Sizes'
  OBVIOUS
<1>1. CASE UNCHANGED <<next, backlog, jobs, unasked, orphaned>>
  BY <1>1 DEF Sizes
<1>2. ASSUME NEW busy \in SUBSET Web, NEW ok, NEW big \in BOOLEAN,
             NotifyString(big, busy, ok) \/ NotifyCommand(big, busy, ok)
      PROVE  Sizes'
  BY <1>2, QueueSizes DEF NotifyString, NotifyCommand
<1>3. ASSUME NEW busy \in SUBSET Web, NEW ok, NotifyCommandRest(busy, ok)
      PROVE  Sizes'
  BY <1>1, <1>3, QueueSizes DEF NotifyCommandRest
<1>4. \A w \in Web : jobs[w] # <<>> => Len(Tail(jobs[w])) <= JobSize
  <2> TAKE w \in Web
  <2>1. jobs[w] \in Seq(Ids) /\ Len(jobs[w]) \in Nat /\ JobSize \in Nat
    BY LenProperties, ReadersAssumption DEF HInv, Queues
  <2>2. jobs[w] # <<>> => Len(Tail(jobs[w])) = Len(jobs[w]) - 1
    BY <2>1, HeadTailProperties
  <2> QED BY <2>1, <2>2 DEF Sizes
<1>5. CASE UpdateTicker
  <2>1. Len(backlog') <= BacklogSize
    <3>1. /\ backlog \in Seq([client : Web, entry : Ids]) /\ backlog # <<>>
          /\ backlog' = Tail(backlog)
      BY <1>5 DEF UpdateTicker, HInv, Queues
    <3>2. Len(backlog) \in Nat /\ Len(Tail(backlog)) = Len(backlog) - 1
      BY <3>1, LenProperties, HeadTailProperties
    <3> QED BY <3>1, <3>2, ReadersAssumption DEF Sizes
  <2>2. \A w \in Web : Len(jobs'[w]) <= JobSize
    <3> TAKE w \in Web
    <3>1. CASE jobs' = jobs
      BY <3>1 DEF Sizes
    <3>2. ASSUME NEW v \in Web, NEW e \in Ids, Room(jobs[v], JobSize),
                 jobs' = [jobs EXCEPT ![v] = Append(@, e)]
          PROVE  Len(jobs'[w]) <= JobSize
      <4>1. /\ jobs[v] \in Seq(Ids) /\ Len(jobs[v]) \in Nat /\ JobSize \in Nat
            /\ Len(Append(jobs[v], e)) = Len(jobs[v]) + 1
        BY AppendProperties, LenProperties, ReadersAssumption DEF HInv, Queues
      <4>2. jobs'[w] = IF w = v THEN Append(jobs[v], e) ELSE jobs[w]
        BY <3>2 DEF HInv, Queues
      <4>3. Len(jobs[v]) < JobSize
        BY <3>2 DEF Room
      <4> QED BY <4>1, <4>2, <4>3 DEF Sizes
    <3> QED BY <1>5, <3>1, <3>2 DEF UpdateTicker
  <2>3. UNCHANGED <<next, unasked, orphaned>>
    BY <1>5 DEF UpdateTicker, books
  <2> QED BY <2>1, <2>2, <2>3 DEF Sizes
<1>6. ASSUME NEW w \in Web, CloseBegin(w) PROVE Sizes'
  <2>1. /\ jobs' = [jobs EXCEPT ![w] = <<>>]
        /\ UNCHANGED <<next, backlog, unasked, orphaned>>
    BY <1>6 DEF CloseBegin
  <2>2. \A v \in Web : jobs'[v] = IF v = w THEN <<>> ELSE jobs[v]
    BY <2>1 DEF HInv, Queues
  <2>3. Len(<<>>) <= JobSize
    BY ReadersAssumption
  <2> QED BY <2>1, <2>2, <2>3 DEF Sizes
<1>7. ASSUME NEW w \in Web, CloseEnd(w) PROVE Sizes'
  <2>1. InBacklog(w) \subseteq Ids
    BY DEF InBacklog
  <2> QED BY <1>7, <2>1 DEF CloseEnd, Sizes
<1>8. ASSUME NEW w \in Web, StartJob(w) PROVE Sizes'
  <2>1. /\ jobs[w] # <<>> /\ jobs' = [jobs EXCEPT ![w] = Tail(jobs[w])]
        /\ UNCHANGED <<next, backlog, unasked, orphaned>>
    BY <1>8 DEF StartJob, entries, books
  <2>2. \A v \in Web : jobs'[v] = IF v = w THEN Tail(jobs[w]) ELSE jobs[v]
    BY <2>1 DEF HInv, Queues
  <2> QED BY <1>4, <2>1, <2>2 DEF Sizes
<1>9. ASSUME NEW w \in Web, CreateHandler(w) \/ EndJob(w) PROVE Sizes'
  BY <1>1, <1>9 DEF CreateHandler, EndJob, entries, books
<1>10. CASE ServerSends
  BY <1>1, <1>10 DEF ServerSends, clients
<1> QED BY <1>1, <1>2, <1>3, <1>5, <1>6, <1>7, <1>8, <1>9, <1>10
    DEF Next, WebTask, vars, entries, clients, books

\* The variables have their types: above all, no client's job queue and not the
\* backlog grows beyond its size, whatever is delivered when, for every number
\* of clients and every size.
THEOREM NotifyTypes == Spec => []TypeOK
<1>1. Spec => [](HInv /\ Sizes)
  BY PointersInit, NextPlaces, SizesInit, SizesKept, PTL DEF Spec
<1> QED BY <1>1, TypesCovered, PTL

=============================================================================
