---------------------------- MODULE CanOpenProofs ---------------------------
(***************************************************************************)
(* Proofs about CanOpen, for every number of tasks, registers, tries and   *)
(* every size of the queues.  OwnResult: the mutex lets one task wait, and *)
(* its job is in one place, so the one result of the shared client is its  *)
(* own.  TypeOK: with the types of the frames under way.  StateIsReal and  *)
(* AnswerIsReal: frames say what their nodes have said, and what m_response *)
(* holds matches the job, unless a notification was left from before.      *)
(* SdoIsReal: on a calm bus there is one exchange, and it is the job's.    *)
(***************************************************************************)
EXTENDS CanOpen, SequenceTheorems, TLAPS

-----------------------------------------------------------------------------
(* OwnResult.                                                              *)

\* A task waits for job i.
Awaited(i) == \E t \in Tasks : waiting[t] = i

\* Where a job of the synchronous client can be.
Queued == \E k \in DOMAIN queue : queue[k].client = "sync"
Worked == pc # "idle" /\ job.client = "sync"
Finished == finished["sync"] # <<>>

Shape ==
  /\ queue \in Seq(Jobs) /\ finished["sync"] \in Seq(Nat)
  /\ finished = [c \in Clients |-> finished[c]]
  /\ waiting \in [Tasks -> Nat \cup {None}]
  /\ next \in Nat
  /\ pc # "idle" => job \in Jobs
  /\ "sync" \in open /\ calm \in BOOLEAN
  /\ None \notin Nat

\* One task waits at a time.
OneWaits == \A t, u \in Tasks : waiting[t] # None /\ waiting[u] # None => t = u

\* The job it waits for is in one place at most ...
OnePlace ==
  /\ \A k, l \in DOMAIN queue :
       queue[k].client = "sync" /\ queue[l].client = "sync" => k = l
  /\ Queued => ~Worked /\ ~Finished
  /\ Worked => ~Finished
  /\ Len(finished["sync"]) <= 1

\* ... and there is no other job of the synchronous client.
OnlyAwaited ==
  /\ \A k \in DOMAIN queue : queue[k].client = "sync" => Awaited(queue[k].id)
  /\ Worked => Awaited(job.id)
  /\ Finished => Awaited(finished["sync"][1])

CInv == Shape /\ OneWaits /\ OnePlace /\ OnlyAwaited

LEMMA InitHolds == Init => CInv
<1> SUFFICES ASSUME Init PROVE CInv
  OBVIOUS
<1>1. Shape
  BY CanOpenAssumption DEF Init, Shape, Clients
<1>2. ~Queued /\ ~Worked /\ ~Finished
  BY DEF Init, Queued, Worked, Finished, Clients
<1>3. OneWaits /\ OnePlace
  BY <1>2 DEF Init, OneWaits, OnePlace, Clients
<1>4. OnlyAwaited
  BY <1>2 DEF Init, OnlyAwaited
<1> QED BY <1>1, <1>3, <1>4 DEF CInv

\* The steps that leave the jobs where they are.
LEMMA Untouched ==
  ASSUME CInv, UNCHANGED <<calm, queue, job, finished, waiting, open, next>>,
         pc' = "idle" <=> pc = "idle"
  PROVE  CInv'
BY DEF CInv, Shape, OneWaits, OnePlace, OnlyAwaited, Queued, Worked, Finished,
   Awaited

\* SubmitJob: the queue grows by the job.
LEMMA Submitted ==
  ASSUME NEW q \in Seq(Jobs), NEW j \in Jobs
  PROVE  /\ Append(q, j) \in Seq(Jobs)
         /\ \A k \in DOMAIN q : k \in DOMAIN Append(q, j) /\ Append(q, j)[k] = q[k]
         /\ Len(q) + 1 \in DOMAIN Append(q, j) /\ Append(q, j)[Len(q) + 1] = j
         /\ \A k \in DOMAIN Append(q, j) : k \in DOMAIN q \/ k = Len(q) + 1
<1>1. /\ Append(q, j) \in Seq(Jobs) /\ Len(Append(q, j)) = Len(q) + 1
      /\ \A i \in 1 .. Len(q) : Append(q, j)[i] = q[i]
      /\ Append(q, j)[Len(q) + 1] = j
  BY AppendProperties
<1>2. Len(q) \in Nat /\ DOMAIN q = 1 .. Len(q)
  BY LenProperties
<1>3. DOMAIN Append(q, j) = 1 .. Len(q) + 1
  BY <1>1, LenProperties
<1> QED BY <1>1, <1>2, <1>3

\* The head is taken.
LEMMA Taking ==
  ASSUME NEW q \in Seq(Jobs), q # <<>>
  PROVE  /\ Tail(q) \in Seq(Jobs) /\ 1 \in DOMAIN q /\ q[1] = Head(q)
         /\ Head(q) \in Jobs
         /\ \A k \in DOMAIN Tail(q) : /\ k + 1 \in DOMAIN q /\ k + 1 # 1
                                      /\ Tail(q)[k] = q[k + 1]
         /\ \A k, l \in DOMAIN Tail(q) : k + 1 = l + 1 => k = l
<1>1. /\ Tail(q) \in Seq(Jobs) /\ Len(Tail(q)) = Len(q) - 1 /\ Head(q) \in Jobs
      /\ \A i \in 1 .. Len(Tail(q)) : Tail(q)[i] = q[i + 1]
  BY HeadTailProperties
<1>2. /\ Len(q) \in Nat /\ DOMAIN q = 1 .. Len(q) /\ Len(q) # 0
      /\ Len(Tail(q)) \in Nat /\ DOMAIN Tail(q) = 1 .. Len(Tail(q))
  BY <1>1, LenProperties, EmptySeq
<1>3. Head(q) = q[1]
  BY HeadTailProperties
<1> QED BY <1>1, <1>2, <1>3

\* Without a task that waits there is no job of the synchronous client.
LEMMA NobodyWaits ==
  ASSUME CInv, MutexFree
  PROVE  ~Queued /\ ~Worked /\ ~Finished
<1>1. \A i \in Nat : ~Awaited(i)
  BY DEF CInv, Shape, MutexFree, Awaited
<1>2. \A j \in Jobs : j.id \in Nat
  BY DEF Jobs
<1>3. ~Queued
  BY <1>1, <1>2, LenProperties DEF CInv, Shape, OnlyAwaited, Queued
<1>4. ~Worked
  BY <1>1, <1>2 DEF CInv, Shape, OnlyAwaited, Worked
<1>5. ~Finished
  <2>1. Finished => finished["sync"][1] \in Nat
    BY HeadTailProperties DEF CInv, Shape, Finished
  <2> QED BY <1>1, <2>1 DEF CInv, OnlyAwaited
<1> QED BY <1>3, <1>4, <1>5

LEMMA ExecuteKeeps ==
  ASSUME CInv, NEW t \in Tasks, NEW j, ExecuteJob(t, j)
  PROVE  CInv'
<1>1. /\ MutexFree /\ j \in Uses(calm) /\ j.client = "sync"
      /\ queue' = Append(queue, j) /\ next' = next + 1
      /\ waiting' = [waiting EXCEPT ![t] = j.id]
      /\ UNCHANGED <<calm, job, pc, open, finished>>
  BY DEF ExecuteJob, Job, worker
<1>2. ~Queued /\ ~Worked /\ ~Finished
  BY <1>1, NobodyWaits
<1>3. j \in Jobs /\ j.id \in Nat
  BY <1>1, UsesAssumption DEF CInv, Shape, Jobs
<1>4. /\ queue' \in Seq(Jobs)
      /\ \A k \in DOMAIN queue : k \in DOMAIN queue' /\ queue'[k] = queue[k]
      /\ Len(queue) + 1 \in DOMAIN queue' /\ queue'[Len(queue) + 1] = j
      /\ \A k \in DOMAIN queue' : k \in DOMAIN queue \/ k = Len(queue) + 1
  BY <1>1, <1>3, Submitted DEF CInv, Shape
<1>5. \A k \in DOMAIN queue' : queue'[k].client = "sync"
        => k = Len(queue) + 1 /\ queue'[k] = j
  BY <1>2, <1>4 DEF Queued
<1>6. waiting' \in [Tasks -> Nat \cup {None}] /\ waiting'[t] = j.id
      /\ \A u \in Tasks : u # t => waiting'[u] = None
  BY <1>1, <1>3 DEF CInv, Shape, MutexFree
<1>7. ~Worked' /\ ~Finished'
  BY <1>1, <1>2 DEF Worked, Finished
<1>8. Shape'
  BY <1>1, <1>4, <1>6 DEF CInv, Shape
<1>9. OneWaits'
  BY <1>6 DEF OneWaits
<1>10. OnePlace'
  <2>1. Len(finished["sync"]) <= 1
    BY DEF CInv, OnePlace
  <2> QED BY <1>1, <1>5, <1>7, <2>1 DEF OnePlace
<1>11. OnlyAwaited'
  BY <1>5, <1>6, <1>7 DEF OnlyAwaited, Awaited
<1> QED BY <1>8, <1>9, <1>10, <1>11 DEF CInv

\* The task takes the one result there is: its own.
LEMMA ReceiveIsOwn ==
  ASSUME CInv, NEW t \in Tasks, ReceiveDone(t)
  PROVE  Head(finished["sync"]) = waiting[t]
<1>1. /\ waiting[t] # None /\ finished["sync"] # <<>>
      /\ finished["sync"] \in Seq(Nat)
  BY DEF ReceiveDone, CInv, Shape
<1>2. Head(finished["sync"]) = finished["sync"][1] /\ Head(finished["sync"]) \in Nat
  BY <1>1, HeadTailProperties
<1>3. PICK u \in Tasks : waiting[u] = finished["sync"][1]
  BY <1>1 DEF CInv, OnlyAwaited, Finished, Awaited
<1>4. u = t
  BY <1>1, <1>2, <1>3 DEF CInv, OneWaits, Shape
<1> QED BY <1>2, <1>3, <1>4

LEMMA ReceiveKeeps ==
  ASSUME CInv, NEW t \in Tasks, ReceiveDone(t)
  PROVE  CInv'
<1>1. /\ waiting[t] # None /\ Finished
      /\ waiting' = [waiting EXCEPT ![t] = None]
      /\ finished' = [finished EXCEPT !["sync"] = Tail(@)]
      /\ UNCHANGED <<calm, job, pc, queue, open, next>>
  BY DEF ReceiveDone, worker, Finished
<1>2. finished'["sync"] = Tail(finished["sync"])
  BY <1>1 DEF CInv, Shape, Clients
<1>3. finished'["sync"] \in Seq(Nat) /\ Len(finished'["sync"]) = 0
  <2>1. /\ Tail(finished["sync"]) \in Seq(Nat)
        /\ Len(Tail(finished["sync"])) = Len(finished["sync"]) - 1
    BY <1>1, HeadTailProperties DEF CInv, Shape, Finished
  <2>2. Len(finished["sync"]) \in Nat /\ Len(finished["sync"]) # 0
    BY <1>1, LenProperties, EmptySeq DEF CInv, Shape, Finished
  <2>3. Len(finished["sync"]) <= 1
    BY DEF CInv, OnePlace
  <2>4. \A n \in Nat : n # 0 /\ n <= 1 => n - 1 = 0
    OBVIOUS
  <2>5. Len(Tail(finished["sync"])) = 0
    BY <2>1, <2>2, <2>3, <2>4, Zenon
  <2> QED BY <1>2, <2>1, <2>5, Zenon
<1>4. ~Finished'
  BY <1>3, EmptySeq DEF Finished
<1>5. ~Queued' /\ ~Worked'
  BY <1>1 DEF CInv, OnePlace, Queued, Worked
<1>6. finished' = [c \in Clients |-> finished'[c]]
  BY <1>1 DEF CInv, Shape
<1>7. /\ waiting' \in [Tasks -> Nat \cup {None}]
      /\ \A u \in Tasks : waiting'[u] = None
  BY <1>1 DEF CInv, Shape, OneWaits
<1>8. Shape'
  BY <1>1, <1>3, <1>6, <1>7 DEF CInv, Shape
<1>9. OneWaits' /\ OnlyAwaited'
  BY <1>4, <1>5, <1>7 DEF OneWaits, OnlyAwaited, Queued
<1>10. OnePlace'
  BY <1>3, <1>4, <1>5 DEF OnePlace, Queued
<1> QED BY <1>8, <1>9, <1>10 DEF CInv

\* The asynchronous client does not touch the other's jobs.
LEMMA SubmitKeeps ==
  ASSUME CInv, NEW j, SubmitJob(j)
  PROVE  CInv'
<1>1. /\ j \in Uses(calm) /\ j.client = "async"
      /\ queue' = Append(queue, j) /\ next' = next + 1
      /\ UNCHANGED <<calm, job, pc, open, finished, waiting>>
  BY DEF SubmitJob, Job, worker
<1>2. j \in Jobs
  BY <1>1, UsesAssumption DEF CInv, Shape
<1>3. /\ queue' \in Seq(Jobs)
      /\ \A k \in DOMAIN queue : k \in DOMAIN queue' /\ queue'[k] = queue[k]
      /\ Len(queue) + 1 \in DOMAIN queue' /\ queue'[Len(queue) + 1] = j
      /\ \A k \in DOMAIN queue' : k \in DOMAIN queue \/ k = Len(queue) + 1
  BY <1>1, <1>2, Submitted DEF CInv, Shape
<1>4. \A k \in DOMAIN queue' : queue'[k].client = "sync"
        => k \in DOMAIN queue /\ queue'[k] = queue[k]
  BY <1>1, <1>3
<1>5. Shape'
  BY <1>1, <1>3 DEF CInv, Shape
<1>6. /\ (Queued' => Queued) /\ (Worked' <=> Worked) /\ (Finished' <=> Finished)
      /\ \A i : Awaited(i) => Awaited(i)'
  BY <1>1, <1>4 DEF Queued, Worked, Finished, Awaited
<1>7. OneWaits' /\ OnePlace'
  BY <1>1, <1>4, <1>6 DEF CInv, OneWaits, OnePlace
<1>8. OnlyAwaited'
  BY <1>1, <1>4, <1>6 DEF CInv, OnlyAwaited
<1> QED BY <1>5, <1>7, <1>8 DEF CInv

LEMMA AsyncKeeps ==
  ASSUME CInv, Fetch \/ Close
  PROVE  CInv'
<1>1. /\ UNCHANGED <<calm, job, pc, queue, waiting, next>>
      /\ "sync" \in open' /\ finished'["sync"] = finished["sync"]
      /\ finished' = [c \in Clients |-> finished'[c]]
  BY DEF Fetch, Close, worker, CInv, Shape, Clients
<1> QED BY <1>1 DEF CInv, Shape, OneWaits, OnePlace, OnlyAwaited, Queued,
           Worked, Finished, Awaited

\* The worker takes a job: a synchronous one is worked on, never dropped.
LEMMA TakeKeeps ==
  ASSUME CInv, Drop \/ Begin
  PROVE  CInv'
<1>1. /\ pc = "idle" /\ queue # <<>>
      /\ queue' = Tail(queue) /\ job' = Head(queue)
      /\ UNCHANGED <<calm, waiting, open, finished, next>>
  BY DEF Drop, Begin
<1>2. pc' # "idle" \/ Head(queue).client # "sync"
  BY DEF Drop, Begin, Ends, CInv, Shape
<1>3. /\ queue' \in Seq(Jobs) /\ 1 \in DOMAIN queue /\ queue[1] = Head(queue)
      /\ Head(queue) \in Jobs
      /\ \A k \in DOMAIN queue' : /\ k + 1 \in DOMAIN queue /\ k + 1 # 1
                                  /\ queue'[k] = queue[k + 1]
      /\ \A k, l \in DOMAIN queue' : k + 1 = l + 1 => k = l
  BY <1>1, Taking DEF CInv, Shape
<1>4. Shape'
  BY <1>1, <1>3 DEF CInv, Shape
<1>5. /\ Queued' => Queued
      /\ Worked' => Queued /\ ~Queued' /\ Head(queue).client = "sync"
      /\ Finished' <=> Finished
  <2>1. Queued' => Queued
    BY <1>3 DEF Queued
  <2>2. Worked' => Head(queue).client = "sync"
    BY <1>1 DEF Worked
  <2>3. Head(queue).client = "sync" => Queued /\ ~Queued'
    BY <1>3 DEF Queued, CInv, OnePlace
  <2> QED BY <1>1, <2>1, <2>2, <2>3 DEF Finished
<1>6. OneWaits'
  BY <1>1 DEF CInv, OneWaits
<1>7. OnePlace'
  <2>1. \A k, l \in DOMAIN queue' :
          queue'[k].client = "sync" /\ queue'[l].client = "sync" => k = l
    BY <1>3 DEF CInv, OnePlace
  <2> QED BY <1>1, <1>5, <2>1 DEF CInv, OnePlace
<1>8. OnlyAwaited'
  <2>1. \A i : Awaited(i)' <=> Awaited(i)
    BY <1>1 DEF Awaited
  <2>2. \A k \in DOMAIN queue' : queue'[k].client = "sync" => Awaited(queue'[k].id)
    BY <1>3 DEF CInv, OnlyAwaited
  <2>3. Worked' => Awaited(job'.id)
    BY <1>1, <1>3, <1>5 DEF CInv, OnlyAwaited
  <2>4. Finished' => Awaited(finished'["sync"][1])
    BY <1>1, <1>5 DEF CInv, OnlyAwaited
  <2> QED BY <2>1, <2>2, <2>3, <2>4 DEF OnlyAwaited
<1> QED BY <1>4, <1>6, <1>7, <1>8 DEF CInv

\* The result goes to the job's client.
LEMMA ReturnKeeps ==
  ASSUME CInv, Return
  PROVE  CInv'
<1> DEFINE c == job.client
           size == IF c = "sync" THEN 1 ELSE DoneSize
<1>1. /\ pc = "done" /\ pc' = "idle"
      /\ finished' = IF c \in open /\ Len(finished[c]) < size
                       THEN [finished EXCEPT ![c] = Append(@, job.id)]
                       ELSE finished
      /\ UNCHANGED <<calm, queue, waiting, open, next>>
  BY DEF Return
<1>2. job \in Jobs /\ job.id \in Nat /\ c \in Clients
  BY <1>1 DEF CInv, Shape, Jobs
<1>3. finished' = [x \in Clients |-> finished'[x]] /\ ~Worked'
  BY <1>1 DEF CInv, Shape, Worked
<1>4. CASE c # "sync"
  <2>1. finished'["sync"] = finished["sync"]
    BY <1>1, <1>4 DEF CInv, Shape
  <2> QED
    BY <1>1, <1>3, <2>1 DEF CInv, Shape, OneWaits, OnePlace, OnlyAwaited, Queued,
       Finished, Awaited
<1>5. CASE c = "sync"
  <2>1. Worked /\ ~Queued /\ finished["sync"] = <<>> /\ Awaited(job.id)
    BY <1>1, <1>5 DEF Worked, Finished, CInv, OnePlace, OnlyAwaited
  <2>2. finished'["sync"] = Append(<<>>, job.id)
    <3>1. Len(finished["sync"]) < 1 /\ "sync" \in open
      BY <2>1, EmptySeq DEF CInv, Shape
    <3>2. finished' = [finished EXCEPT !["sync"] = Append(finished["sync"], job.id)]
      BY <1>1, <1>5, <3>1
    <3> QED BY <2>1, <3>2 DEF CInv, Shape, Clients
  <2>3. /\ finished'["sync"] \in Seq(Nat) /\ Len(finished'["sync"]) = 1
        /\ finished'["sync"][1] = job.id
    BY <1>2, <2>2
  <2>4. Shape'
    BY <1>1, <1>3, <2>3 DEF CInv, Shape
  <2>5. ~Queued'
    BY <1>1, <2>1 DEF Queued
  <2>6. OneWaits' /\ OnePlace'
    BY <1>1, <1>3, <2>3, <2>5 DEF CInv, OneWaits, OnePlace, Queued
  <2>7. OnlyAwaited'
    BY <1>1, <1>3, <2>1, <2>3, <2>5 DEF OnlyAwaited, Queued, Awaited
  <2> QED BY <2>4, <2>6, <2>7 DEF CInv
<1> QED BY <1>4, <1>5

LEMMA NextKeeps == CInv /\ [Next]_vars => CInv'
<1> SUFFICES ASSUME CInv, [Next]_vars PROVE CInv'
  OBVIOUS
<1>1. CASE UNCHANGED vars
  BY <1>1, Untouched DEF vars, worker, clients
<1>2. ASSUME NEW j, SubmitJob(j) PROVE CInv'
  BY <1>2, SubmitKeeps
<1>3. ASSUME NEW j, NEW t \in Tasks, ExecuteJob(t, j) PROVE CInv'
  BY <1>3, ExecuteKeeps
<1>4. ASSUME NEW t \in Tasks, ReceiveDone(t) PROVE CInv'
  BY <1>4, ReceiveKeeps
<1>5. CASE Fetch \/ Close
  BY <1>5, AsyncKeeps
<1>6. CASE Worker
  <2>1. CASE Drop \/ Begin
    BY <2>1, TakeKeeps
  <2>2. CASE Take \/ Timeout
    BY <2>2, Untouched DEF Take, Timeout, Again, Ends, clients
  <2>3. CASE GotState
    BY <2>3, Untouched DEF GotState, Again, Ends, clients
  <2>4. CASE GotRead \/ Copy \/ GotWrite
    <3>1. /\ UNCHANGED <<calm, queue, job, finished, waiting, open, next>>
          /\ pc # "idle"
      BY <2>4 DEF GotRead, Copy, GotWrite, clients
    <3>2. pc' # "idle"
      BY <2>4 DEF GotRead, Copy, GotWrite, Refuse, Continue, Ends
    <3> QED BY <3>1, <3>2, Untouched
  <2>5. CASE Return
    BY <2>5, ReturnKeeps
  <2> QED BY <1>6, <2>1, <2>2, <2>3, <2>4, <2>5 DEF Worker
<1>7. CASE IncomingFrame \/ Lose
  BY <1>7, Untouched DEF IncomingFrame, Lose, worker, clients
<1>8. CASE NodeSDO \/ NodeNMT \/ \E n \in Nodes : NodeReports(n)
  BY <1>8, Untouched DEF NodeSDO, NodeNMT, NodeReports, worker, clients
<1> QED BY <1>1, <1>2, <1>3, <1>4, <1>5, <1>6, <1>7, <1>8 DEF Next

\* The invariant of the shared client holds always.
THEOREM CanOpenInvariance == Spec => []CInv
BY InitHolds, NextKeeps, PTL DEF Spec

\* A task that waits in ExecuteJob gets the result of its own job, for every
\* number of tasks that share the client, and whatever the other client does.
THEOREM CanOpenOwnResult == Spec => OwnResult
<1>1. CInv /\ [Next]_vars
        => [\A t \in Tasks :
              ReceiveDone(t) => Head(finished["sync"]) = waiting[t]]_vars
  BY ReceiveIsOwn
<1> QED BY <1>1, CanOpenInvariance, PTL DEF Spec, OwnResult

-----------------------------------------------------------------------------
(* TypeOK: it needs the types of the frames under way, of the request that *)
(* is repeated, and of the node's transfer, for what a register is given.  *)

SdoFrames ==
  [on : {"sdo"}, node : Nodes \cup {None}, kind : {"upload", "download", "useg", "dseg", "abort"},
   reg : Registers \cup {None}, toggle : BOOLEAN,
   value : Values \cup {None}, last : BOOLEAN]

\* A frame is a node's and, where it names one, of a register.
Named(f) ==
  /\ f.kind # "abort" => f.node \in Nodes
  /\ f.kind \in {"upload", "download"} => f.reg \in Registers

\* What an SDO request stores is a value.
Storable(f) ==
  /\ f.kind = "download" /\ f.reg \notin Long => f.value \in Values
  /\ f.kind = "dseg" /\ f.last => f.value \in Values

Requests ==
  {f \in SdoFrames : Named(f) /\ Storable(f)} \cup
  [on : {"nmt"}, node : Nodes, kind : {"nmt"}, command : Commands]
Replies ==
  {f \in SdoFrames : Named(f)} \cup
  [on : {"hb"}, node : Nodes, kind : {"hb"}, state : States]
Sayings ==
  Nodes \X {"state"} \X States \cup
  Nodes \X {"upload", "download"} \X Registers
Transfers == [dir : {"useg", "dseg"}, reg : Registers, toggle : BOOLEAN]

\* The conjuncts of TypeOK, and those it needs, by who changes them.
ClientsOK ==
  /\ calm \in BOOLEAN
  /\ queue \in Seq(Jobs) /\ Len(queue) <= QueueSize
  /\ waiting \in [Tasks -> (1 .. MaxJobs) \cup {None}]
  /\ open \subseteq Clients /\ "sync" \in open
  /\ finished \in [Clients -> Seq(1 .. MaxJobs)]
  /\ next \in 1 .. MaxJobs + 1

WorkerOK ==
  /\ job \in Jobs \cup {None} /\ pc \in {"idle", "wait", "got", "copy", "done"}
  /\ pc # "idle" => job # None
  /\ pc = "copy" => job.type = "read"
  /\ tries \in 0 .. MaxTries
  /\ result \in {"OK", "NoCANWrite", "Timeout", "Access", "SegMismatch",
                 "BufferTooSmall"}
  /\ note \in BOOLEAN /\ left \in {"no", "pending", "taken"}

NodeOK ==
  /\ regs \in [Nodes -> [Registers -> Values]] /\ state \in [Nodes -> States]
  /\ held \subseteq Values /\ took \in BOOLEAN /\ reported \subseteq Sayings

AskedOK ==
  /\ to_node \in Seq(Requests) /\ Len(to_node) <= Depth
  /\ request \in Requests

ToldOK ==
  /\ to_worker \in Seq(Replies) /\ Len(to_worker) <= Back
  /\ response \in Replies
  /\ server \in [Nodes -> Transfers \cup {None}]

TInv == ClientsOK /\ WorkerOK /\ NodeOK /\ AskedOK /\ ToldOK

LEMMA TypesCovered == TInv => TypeOK
BY DEF TInv, ClientsOK, WorkerOK, NodeOK, AskedOK, ToldOK, TypeOK, Sayings

LEMMA AbortTyped ==
  ASSUME NEW n \in Nodes \cup {None}
  PROVE  Abort(n) \in Requests /\ Abort(n) \in Replies /\ Abort(n).kind = "abort"
BY DEF Abort, SDO, SdoFrames, Named, Storable, Requests, Replies

LEMMA BlankTyped == Blank \in Requests /\ Blank \in Replies
BY AbortTyped DEF Blank

LEMMA TypesInit == Init => TInv
<1> SUFFICES ASSUME Init PROVE TInv
  OBVIOUS
<1>1. /\ MaxTries \in Nat \ {0} /\ QueueSize \in Nat \ {0} /\ MaxJobs \in Nat
      /\ Depth \in Nat \ {0} /\ Back \in Nat \ {0}
  BY CanOpenAssumption
<1>2. ClientsOK
  BY <1>1 DEF Init, ClientsOK, Clients
<1>3. WorkerOK
  <2>1. /\ job = None /\ pc = "idle" /\ tries = 0 /\ result = "OK"
        /\ note \in BOOLEAN /\ left = "no"
    BY DEF Init
  <2> QED BY <1>1, <2>1 DEF WorkerOK
<1>4. NodeOK
  BY DEF Init, NodeOK, States, PreOperational
<1>5. AskedOK /\ ToldOK
  BY <1>1, BlankTyped DEF Init, AskedOK, ToldOK
<1> QED BY <1>2, <1>3, <1>4, <1>5 DEF TInv

\* What Send leaves on the bus is a prefix of what is sent.
LEMMA Sending ==
  ASSUME NEW S, to_node \in Seq(S), NEW fs \in Seq(S), Send(fs)
  PROVE  /\ to_node' \in Seq(S) /\ Len(to_node') <= Depth
         /\ Len(to_node') <= Len(to_node) + Len(fs)
         /\ \A k \in DOMAIN to_node' :
              to_node'[k] = IF k <= Len(to_node) THEN to_node[k]
                            ELSE fs[k - Len(to_node)]
<1> DEFINE all == to_node \o fs
           k == IF Depth < Len(all) THEN Depth ELSE Len(all)
           f == [i \in 1 .. k |-> all[i]]
<1>1. /\ all \in Seq(S) /\ Len(all) = Len(to_node) + Len(fs)
      /\ \A i \in 1 .. Len(to_node) + Len(fs) :
           all[i] = IF i <= Len(to_node) THEN to_node[i] ELSE fs[i - Len(to_node)]
  BY ConcatProperties
<1>2. /\ Len(all) \in Nat /\ DOMAIN all = 1 .. Len(all)
      /\ \A i \in DOMAIN all : all[i] \in S
  BY <1>1, LenProperties
<1>3. Depth \in Nat
  BY CanOpenAssumption
<1>4. to_node' = [i \in {j \in DOMAIN all : j <= Depth} |-> all[i]]
  BY DEF Send
<1> HIDE DEF all
<1>5. k \in Nat /\ k <= Depth /\ k <= Len(all) /\ 1 .. k \subseteq 1 .. Len(all)
  BY <1>2, <1>3
<1>6. {j \in DOMAIN all : j <= Depth} = 1 .. k
  BY <1>2, <1>3
<1>7. to_node' = f
  BY <1>4, <1>6
<1> HIDE DEF k
<1>8. f \in [1 .. k -> S]
  BY <1>2, <1>5
<1>9. f \in Seq(S)
  BY <1>5, <1>8, SeqDef
<1>10. Len(f) = k
  <2>1. DOMAIN f = 1 .. Len(f) /\ Len(f) \in Nat /\ DOMAIN f = 1 .. k
    BY <1>9, LenProperties
  <2>2. \A m, n \in Nat : 1 .. m = 1 .. n => m = n
    OBVIOUS
  <2> QED BY <1>5, <2>1, <2>2, Zenon
<1>11. \A i \in DOMAIN f : f[i] = IF i <= Len(to_node) THEN to_node[i]
                                   ELSE fs[i - Len(to_node)]
  BY <1>1, <1>5
<1> QED BY <1>1, <1>5, <1>7, <1>9, <1>10, <1>11

LEMMA SendingTyped ==
  ASSUME TInv, NEW fs \in Seq(Requests), Send(fs)
  PROVE  to_node' \in Seq(Requests) /\ Len(to_node') <= Depth
BY Sending DEF TInv, AskedOK

LEMMA Bounds ==
  /\ MaxTries \in Nat \ {0} /\ QueueSize \in Nat \ {0} /\ MaxJobs \in Nat
  /\ Depth \in Nat \ {0} /\ Back \in Nat \ {0} /\ None \notin Jobs
BY CanOpenAssumption, UsesAssumption

\* A job is submitted: the queue had room, and its number is the next.
LEMMA SubmitTyped ==
  ASSUME TInv, NEW j, Job(j), HasRoom, queue' = Append(queue, j),
         next' = next + 1
  PROVE  /\ j \in Jobs /\ j.id \in 1 .. MaxJobs
         /\ queue' \in Seq(Jobs) /\ Len(queue') <= QueueSize
         /\ next' \in 1 .. MaxJobs + 1
<1>1. j \in Jobs /\ j.id = next
  BY UsesAssumption DEF Job, TInv, ClientsOK
<1>2. j.id \in 1 .. MaxJobs
  BY <1>1 DEF Jobs
<1>3. queue' \in Seq(Jobs) /\ Len(queue') = Len(queue) + 1 /\ Len(queue) \in Nat
  BY <1>1, AppendProperties, LenProperties DEF TInv, ClientsOK
<1>4. Len(queue') <= QueueSize
  BY <1>3, Bounds DEF HasRoom
<1>5. next' \in 1 .. MaxJobs + 1
  BY <1>1, <1>2, Bounds
<1> QED BY <1>1, <1>2, <1>3, <1>4, <1>5

\* The worker takes a job from the queue.
LEMMA TakenTyped ==
  ASSUME TInv, queue # <<>>, queue' = Tail(queue)
  PROVE  /\ Head(queue) \in Jobs /\ queue' \in Seq(Jobs)
         /\ Len(queue') <= QueueSize
<1>1. /\ Tail(queue) \in Seq(Jobs) /\ Len(Tail(queue)) = Len(queue) - 1
      /\ Head(queue) \in Jobs
  BY HeadTailProperties DEF TInv, ClientsOK
<1>2. Len(queue) \in Nat /\ Len(queue) <= QueueSize
  BY LenProperties DEF TInv, ClientsOK
<1> QED BY <1>1, <1>2, Bounds

\* The clients' steps, and what the worker's do to their queues.
LEMMA ClientsTyped ==
  ASSUME TInv,
         \/ \E j \in Uses(calm) :
              SubmitJob(j) \/ \E t \in Tasks : ExecuteJob(t, j)
         \/ \E t \in Tasks : ReceiveDone(t)
         \/ Fetch \/ Close \/ Drop \/ Begin \/ Return
  PROVE  ClientsOK'
<1> USE DEF TInv, ClientsOK
<1>1. ASSUME NEW j, SubmitJob(j) PROVE ClientsOK'
  BY <1>1, SubmitTyped DEF SubmitJob
<1>2. ASSUME NEW j, NEW t \in Tasks, ExecuteJob(t, j) PROVE ClientsOK'
  BY <1>2, SubmitTyped DEF ExecuteJob
<1>3. \A c \in Clients : finished[c] # <<>>
        => Tail(finished[c]) \in Seq(1 .. MaxJobs)
  BY HeadTailProperties
<1>4. ASSUME NEW t \in Tasks, ReceiveDone(t) PROVE ClientsOK'
  BY <1>3, <1>4 DEF ReceiveDone, Clients
<1>5. CASE Fetch
  BY <1>3, <1>5 DEF Fetch, Clients
<1>6. CASE Close
  <2>1. /\ open' = open \ {"async"}
        /\ finished' = [finished EXCEPT !["async"] = <<>>]
        /\ UNCHANGED <<calm, queue, waiting, next>>
    BY <1>6 DEF Close
  <2>2. <<>> \in Seq(1 .. MaxJobs)
    OBVIOUS
  <2> QED BY <2>1, <2>2
<1>7. CASE Drop \/ Begin
  <2>1. /\ queue # <<>> /\ queue' = Tail(queue)
        /\ UNCHANGED <<calm, waiting, open, finished, next>>
    BY <1>7 DEF Drop, Begin
  <2> QED BY <2>1, TakenTyped
<1>8. CASE Return
  <2>1. job \in Jobs /\ job.id \in 1 .. MaxJobs /\ job.client \in Clients
    BY <1>8 DEF Return, WorkerOK, Jobs
  <2>2. \A c \in Clients : Append(finished[c], job.id) \in Seq(1 .. MaxJobs)
    BY <2>1, AppendProperties
  <2>3. finished' = finished \/
          finished' = [finished EXCEPT ![job.client] =
                         Append(finished[job.client], job.id)]
    BY <1>8 DEF Return
  <2>4. finished' \in [Clients -> Seq(1 .. MaxJobs)]
    BY <2>1, <2>2, <2>3
  <2> QED BY <1>8, <2>4 DEF Return
<1> QED BY <1>1, <1>2, <1>4, <1>5, <1>6, <1>7, <1>8

\* The requests the worker sends.
LEMMA FirstTyped ==
  ASSUME NEW j \in Jobs, j.type # "hb"
  PROVE  FirstRequest(j) \in Requests
<1>1. CASE j.type = "read"
  <2>1. j.reg \in Registers /\ j.node \in Nodes
    BY <1>1 DEF Jobs
  <2> QED BY <1>1, <2>1 DEF FirstRequest, SDO, Requests, SdoFrames, Named, Storable
<1>2. CASE j.type = "write"
  <2>1. j.reg \in Registers /\ j.arg \in Values /\ j.node \in Nodes
    BY <1>2 DEF Jobs
  <2> DEFINE v == IF j.reg \in Long THEN None ELSE j.arg
             f == SDO(j.node, "download", j.reg, FALSE, v, j.reg \notin Long)
  <2>2. f \in SdoFrames
    BY <2>1 DEF SDO, SdoFrames
  <2>3. Named(f) /\ Storable(f)
    BY <2>1 DEF SDO, Named, Storable
  <2>4. FirstRequest(j) = f
    BY <1>2 DEF FirstRequest
  <2> QED BY <2>2, <2>3, <2>4 DEF Requests
<1>3. CASE j.type = "nmt"
  <2>1. j.arg \in Commands /\ j.node \in Nodes
    BY <1>3 DEF Jobs
  <2> QED BY <1>3, <2>1 DEF FirstRequest, NMT, Requests
<1> QED BY <1>1, <1>2, <1>3 DEF Jobs

LEMMA SegmentTyped ==
  ASSUME NEW t \in BOOLEAN, NEW last \in BOOLEAN, NEW v \in Values,
         job.node \in Nodes
  PROVE  /\ Segment("useg", t, None, FALSE) \in Requests
         /\ Segment("dseg", t, v, last) \in Requests
BY DEF Segment, SDO, Requests, SdoFrames, Named, Storable

\* Its job is for one of the nodes.
LEMMA JobNode ==
  ASSUME TInv, pc # "idle"
  PROVE  job \in Jobs /\ job.node \in Nodes
<1>1. job \in Jobs
  BY DEF TInv, WorkerOK
<1> QED BY <1>1 DEF Jobs

Results == {"OK", "NoCANWrite", "Timeout", "Access", "SegMismatch",
            "BufferTooSmall"}

\* A step of the worker within a job.
WithinJob ==
  /\ job' = job /\ note' \in BOOLEAN /\ left' \in {"no", "pending", "taken"}
  /\ pc' \in {"wait", "got", "copy", "done"} /\ (pc' = "copy" => job.type = "read")
  /\ tries' \in 0 .. MaxTries /\ result' \in Results
  /\ AskedOK'

LEMMA WithinTyped ==
  ASSUME TInv, pc # "idle", WithinJob
  PROVE  WorkerOK' /\ AskedOK'
BY DEF TInv, WorkerOK, WithinJob, Results

LEMMA AgainTyped ==
  ASSUME TInv, NEW fs \in Seq(Requests), Again(fs), note' = note,
         left' \in {left, "no"}
  PROVE  WithinJob
<1> DEFINE r == IF job.type = "hb" THEN <<>> ELSE <<request>>
<1>1. request \in Requests /\ r \in Seq(Requests) /\ fs \o r \in Seq(Requests)
  <2>1. request \in Requests
    BY DEF TInv, AskedOK
  <2>2. r \in Seq(Requests)
    BY <2>1
  <2> QED BY <2>1, <2>2, ConcatProperties
<1>2. /\ UNCHANGED <<job, request>> /\ pc' \in {"wait", "done"}
      /\ result' \in Results
      /\ Send(fs \o r) \/ Send(fs)
  BY DEF Again, Ends, TInv, WorkerOK, Results
<1>3. tries' \in 0 .. MaxTries
  BY Bounds DEF Again, TInv, WorkerOK
<1>4. AskedOK'
  <2> HIDE DEF r
  <2> QED BY <1>1, <1>2, SendingTyped DEF AskedOK
<1> QED BY <1>2, <1>3, <1>4 DEF WithinJob, TInv, WorkerOK

LEMMA ContinueTyped ==
  ASSUME TInv, NEW r \in Requests, Continue(r), UNCHANGED <<job, note, left>>
  PROVE  WithinJob
<1>1. <<r>> \in Seq(Requests)
  OBVIOUS
<1>2. AskedOK'
  BY <1>1, SendingTyped DEF Continue, AskedOK
<1> QED BY <1>2, Bounds DEF Continue, WithinJob, TInv, WorkerOK, Results

LEMMA RefuseTyped ==
  ASSUME TInv, pc # "idle", NEW r \in Results, Refuse(r), UNCHANGED <<job, note, left>>
  PROVE  WithinJob
<1>1. <<Abort(job.node)>> \in Seq(Requests)
  BY JobNode, AbortTyped
<1>2. AskedOK'
  BY <1>1, SendingTyped DEF Refuse, AskedOK, TInv
<1> QED BY <1>2 DEF Refuse, Ends, WithinJob, TInv, WorkerOK

\* A step that sends nothing.
LEMMA SilentTyped ==
  ASSUME TInv, UNCHANGED <<job, request, to_node>>, note' \in BOOLEAN,
         left' \in {"no", "pending", "taken"},
         tries' = tries, pc' \in {"got", "copy", "done"},
         pc' = "copy" => job.type = "read", result' \in Results
  PROVE  WithinJob
BY DEF WithinJob, TInv, WorkerOK, AskedOK

LEMMA BeginTyped ==
  ASSUME TInv, Begin
  PROVE  WorkerOK' /\ AskedOK' /\ NodeOK'
<1> DEFINE j == Head(queue)
           r == FirstRequest(j)
<1>1. /\ queue # <<>> /\ queue' = Tail(queue) /\ job' = j /\ tries' = 1
      /\ note' = note /\ left' \in {"no", "pending"}
      /\ UNCHANGED <<regs, state, reported>> /\ took' = FALSE
      /\ held' = IF j.type \in {"read", "write"} THEN {regs[j.node][j.reg]} ELSE {}
  BY DEF Begin, input, node
<1>2. j \in Jobs
  BY <1>1, TakenTyped
<1>3. /\ pc' \in {"wait", "done"} /\ result' \in Results
      /\ \/ UNCHANGED <<request, to_node>>
         \/ j.type # "hb" /\ request' = r /\ Send(<<r>>)
  BY DEF Begin, Ends, TInv, WorkerOK, Results
<1>4. WorkerOK'
  BY <1>1, <1>2, <1>3, Bounds DEF WorkerOK, TInv, Results
<1>5. AskedOK'
  <2>1. CASE UNCHANGED <<request, to_node>>
    BY <2>1 DEF TInv, AskedOK
  <2>2. CASE j.type # "hb" /\ request' = r /\ Send(<<r>>)
    <3>1. r \in Requests
      BY <1>2, <2>2, FirstTyped
    <3> HIDE DEF r
    <3>2. <<r>> \in Seq(Requests)
      BY <3>1
    <3> QED BY <2>2, <3>1, <3>2, SendingTyped DEF AskedOK
  <2> QED BY <1>3, <2>1, <2>2
<1>6. NodeOK'
  <2>1. j.type \in {"read", "write"} => j.reg \in Registers /\ j.node \in Nodes
    BY <1>2 DEF Jobs
  <2>2. held' \subseteq Values
    BY <1>1, <2>1 DEF TInv, NodeOK
  <2>3. took' \in BOOLEAN
    BY <1>1
  <2> HIDE DEF j
  <2> QED BY <1>1, <2>2, <2>3 DEF TInv, NodeOK
<1> QED BY <1>4, <1>5, <1>6

LEMMA GotReadTyped ==
  ASSUME TInv, GotRead
  PROVE  WithinJob
<1>1. /\ UNCHANGED <<job, note, left>> /\ job.type = "read" /\ pc # "idle"
      /\ left \in {"no", "pending", "taken"}
  BY DEF GotRead, input, books, TInv, WorkerOK
<1>2. Segment("useg", FALSE, None, FALSE) \in Requests
  BY <1>1, JobNode DEF Segment, SDO, Requests, SdoFrames, Named, Storable
<1>3. CASE \E r \in {"Access", "SegMismatch"} : Refuse(r)
  BY <1>1, <1>3, RefuseTyped DEF Results
<1>4. CASE Continue(Segment("useg", FALSE, None, FALSE))
  BY <1>1, <1>2, <1>4, ContinueTyped
<1>5. CASE pc' = "copy" /\ UNCHANGED <<request, tries, result, to_node>>
  BY <1>1, <1>5, SilentTyped DEF TInv, WorkerOK, Results
<1> QED BY <1>3, <1>4, <1>5 DEF GotRead

LEMMA CopyTyped ==
  ASSUME TInv, Copy
  PROVE  WithinJob
<1>1. UNCHANGED <<job, note, left>> /\ pc # "idle"
  BY DEF Copy, input, books
<1>2. Segment("useg", ~request.toggle, None, FALSE) \in Requests
  <2>1. (~request.toggle) \in BOOLEAN
    OBVIOUS
  <2> QED BY <1>1, <2>1, JobNode
          DEF Segment, SDO, Requests, SdoFrames, Named, Storable
<1>3. CASE Continue(Segment("useg", ~request.toggle, None, FALSE))
  BY <1>1, <1>2, <1>3, ContinueTyped
<1>4. CASE /\ \E r \in Results : Ends(r)
           /\ UNCHANGED <<request, tries>>
           /\ UNCHANGED to_node \/ Send(<<Abort(job.node)>>)
  <2>1. <<Abort(job.node)>> \in Seq(Requests)
    BY <1>1, JobNode, AbortTyped
  <2>2. AskedOK'
    BY <1>4, <2>1, SendingTyped DEF AskedOK, TInv
  <2> QED BY <1>1, <1>4, <2>2 DEF Ends, WithinJob, TInv, WorkerOK
<1> QED BY <1>3, <1>4 DEF Copy, Results

LEMMA GotWriteTyped ==
  ASSUME TInv, GotWrite
  PROVE  WithinJob
<1>1. /\ UNCHANGED <<job, note, left>> /\ job.type = "write" /\ pc = "got"
      /\ left \in {"no", "pending", "taken"}
  BY DEF GotWrite, input, books, TInv, WorkerOK
<1>2. job.arg \in Values
  BY <1>1 DEF TInv, WorkerOK, Jobs
<1>3. /\ Segment("dseg", FALSE, job.arg, FALSE) \in Requests
      /\ Segment("dseg", ~request.toggle, job.arg, TRUE) \in Requests
  <2>1. (~request.toggle) \in BOOLEAN
    OBVIOUS
  <2> QED BY <1>1, <1>2, <2>1, JobNode
          DEF Segment, SDO, Requests, SdoFrames, Named, Storable
<1>4. CASE \E r \in {"Access", "SegMismatch"} : Refuse(r)
  BY <1>1, <1>4, RefuseTyped DEF Results
<1>5. CASE \/ Continue(Segment("dseg", FALSE, job.arg, FALSE))
           \/ Continue(Segment("dseg", ~request.toggle, job.arg, TRUE))
  BY <1>1, <1>3, <1>5, ContinueTyped
<1>6. CASE Ends("OK") /\ UNCHANGED <<request, tries, data, to_node>>
  BY <1>1, <1>6, SilentTyped DEF TInv, WorkerOK, Results, Ends
<1> QED BY <1>4, <1>5, <1>6 DEF GotWrite

LEMMA WorkerTyped ==
  ASSUME TInv, Worker
  PROVE  WorkerOK' /\ AskedOK'
<1>1. CASE Begin
  BY <1>1, BeginTyped
<1>2. CASE GotRead \/ Copy \/ GotWrite
  BY <1>2, GotReadTyped, CopyTyped, GotWriteTyped, WithinTyped
     DEF GotRead, Copy, GotWrite
<1>3. CASE Drop
  <2>1. Head(queue) \in Jobs
    BY <1>3, TakenTyped DEF Drop
  <2> QED BY <1>3, <2>1 DEF Drop, input, bus, books, TInv, WorkerOK, AskedOK
<1>4. CASE Take
  <2>1. note' \in BOOLEAN /\ left' \in {"no", "pending", "taken"}
    BY <1>4 DEF Take, TInv, WorkerOK
  <2> QED BY <1>4, <2>1, SilentTyped, WithinTyped
          DEF Take, bus, TInv, WorkerOK, Results
<1>5. CASE Timeout
  <2>1. <<Abort(job.node)>> \in Seq(Requests) /\ <<>> \in Seq(Requests)
    BY <1>5, JobNode, AbortTyped DEF Timeout
  <2> QED BY <1>5, <2>1, AgainTyped, WithinTyped DEF Timeout, input, books
<1>6. CASE GotState
  <2>1. <<>> \in Seq(Requests) /\ pc # "idle" /\ note' = note
    BY <1>6 DEF GotState, input
  <2>2. CASE Again(<<>>) /\ left' = "no"
    BY <2>1, <2>2, AgainTyped, WithinTyped
  <2>3. CASE Ends("OK") /\ UNCHANGED <<job, request, tries, to_node, left>>
    BY <2>1, <2>3, SilentTyped, WithinTyped DEF Ends, TInv, WorkerOK, Results
  <2> QED BY <1>6, <2>2, <2>3 DEF GotState
<1>7. CASE Return
  <2>1. /\ job' = None /\ pc' = "idle" /\ request' = Blank /\ tries' = 0
        /\ result' = "OK" /\ UNCHANGED <<note, to_node>> /\ left' = "no"
    BY <1>7 DEF Return, bus
  <2>2. WorkerOK'
    BY <2>1, Bounds DEF TInv, WorkerOK
  <2> QED BY <2>1, <2>2, BlankTyped DEF TInv, AskedOK
<1> QED BY <1>1, <1>2, <1>3, <1>4, <1>5, <1>6, <1>7 DEF Worker

\* Frames are taken from the bus.
LEMMA BusTyped ==
  ASSUME TInv
  PROVE  /\ to_node # <<>> => /\ Head(to_node) \in Requests
                              /\ Tail(to_node) \in Seq(Requests)
                              /\ Len(Tail(to_node)) <= Depth
         /\ to_worker # <<>> => /\ Head(to_worker) \in Replies
                                /\ Tail(to_worker) \in Seq(Replies)
                                /\ Len(Tail(to_worker)) <= Back
<1>1. ASSUME NEW S, NEW q \in Seq(S), NEW m \in Nat, q # <<>>, Len(q) <= m
      PROVE  Head(q) \in S /\ Tail(q) \in Seq(S) /\ Len(Tail(q)) <= m
  <2>1. /\ Tail(q) \in Seq(S) /\ Len(Tail(q)) = Len(q) - 1 /\ Head(q) \in S
    BY <1>1, HeadTailProperties
  <2>2. Len(q) \in Nat
    BY LenProperties
  <2> QED BY <1>1, <2>1, <2>2
<1>2. /\ to_node \in Seq(Requests) /\ Len(to_node) <= Depth
      /\ to_worker \in Seq(Replies) /\ Len(to_worker) <= Back
  BY DEF TInv, AskedOK, ToldOK
<1> QED BY <1>1, <1>2, Bounds

LEMMA ReplyTyped ==
  ASSUME TInv, NEW f \in Requests, f.on = "sdo", f.kind # "abort"
  PROVE  /\ Reply(f) \in Replies /\ Said(Reply(f)) \subseteq Sayings
         /\ f.node \in Nodes
<1> DEFINE n == f.node
           s == server[n]
<1>1. f \in SdoFrames /\ Named(f) /\ Storable(f) /\ n \in Nodes
  BY DEF Requests, Named
<1>2. /\ regs \in [Nodes -> [Registers -> Values]]
      /\ s \in Transfers \cup {None}
  BY <1>1 DEF TInv, NodeOK, ToldOK
<1>3. CASE f.kind = "upload"
  <2>1. f.reg \in Registers /\ regs[n][f.reg] \in Values
    BY <1>1, <1>2, <1>3 DEF Named
  <2>2. Reply(f) = SDO(n, "upload", f.reg, FALSE, regs[n][f.reg], f.reg \notin Long)
    BY <1>3 DEF Reply
  <2> HIDE DEF n
  <2> QED BY <1>1, <2>1, <2>2 DEF SDO, Replies, SdoFrames, Named, Said, Sayings
<1>4. CASE f.kind = "download"
  <2>1. f.reg \in Registers
    BY <1>1, <1>4 DEF Named
  <2>2. Reply(f) = SDO(n, "download", f.reg, FALSE, None, FALSE)
    BY <1>4 DEF Reply
  <2> HIDE DEF n
  <2> QED BY <1>1, <2>1, <2>2 DEF SDO, Replies, SdoFrames, Named, Said, Sayings
<1>5. CASE /\ f.kind \in {"useg", "dseg"} /\ s # None
           /\ s.dir = f.kind /\ s.toggle = f.toggle
  <2> DEFINE v == regs[n][s.reg]
             l == f.kind = "useg" /\ s.toggle
  <2>1. v \in Values /\ l \in BOOLEAN
    BY <1>1, <1>2, <1>5 DEF Transfers
  <2>2. Reply(f) = SDO(n, f.kind, None, f.toggle, v, l)
    BY <1>5 DEF Reply
  <2>3. f.kind \in {"useg", "dseg"} /\ f.toggle \in BOOLEAN
    BY <1>1, <1>5 DEF SdoFrames
  <2> HIDE DEF v, l, n, s
  <2> QED BY <1>1, <2>1, <2>2, <2>3 DEF SDO, Replies, SdoFrames, Named, Said
<1>6. CASE /\ f.kind \notin {"upload", "download"}
           /\ ~(/\ f.kind \in {"useg", "dseg"} /\ s # None
                /\ s.dir = f.kind /\ s.toggle = f.toggle)
  <2>1. Reply(f) = Abort(n)
    BY <1>6 DEF Reply
  <2>2. Said(Abort(n)) = {}
    BY DEF Said, Abort, SDO
  <2> QED BY <1>1, <2>1, <2>2, AbortTyped
<1> QED BY <1>1, <1>3, <1>4, <1>5, <1>6

LEMMA StoredTyped ==
  ASSUME TInv, NEW n \in Nodes, NEW r \in Registers, NEW v \in Values,
         Stored(n, r, v), state' = state, reported' \subseteq Sayings
  PROVE  NodeOK'
<1>1. regs' \in [Nodes -> [Registers -> Values]]
  BY DEF Stored, TInv, NodeOK
<1>2. held' \subseteq Values
  BY DEF Stored, TInv, NodeOK
<1>3. took' \in BOOLEAN
  <2>1. CASE took' = (took \/ (job.type = "write" /\ job.arg = v))
    BY <2>1
  <2>2. CASE UNCHANGED took
    BY <2>2 DEF TInv, NodeOK
  <2> QED BY <2>1, <2>2 DEF Stored
<1> QED BY <1>1, <1>2, <1>3 DEF TInv, NodeOK

LEMMA NodeSDOTyped ==
  ASSUME TInv, NodeSDO
  PROVE  NodeOK' /\ AskedOK' /\ ToldOK'
<1> DEFINE f == Head(to_node)
           n == f.node
           long == f.kind \in {"upload", "download"} /\ f.reg \in Long
           goesOn == f.kind \in {"useg", "dseg"} /\ Reply(f).kind = f.kind
           dir == IF f.kind = "upload" THEN "useg" ELSE "dseg"
<1>1. /\ to_node # <<>> /\ f.on = "sdo" /\ Len(to_worker) < Back
      /\ to_node' = Tail(to_node)
      /\ IF f.kind = "abort" THEN UNCHANGED <<to_worker, reported>>
         ELSE /\ to_worker' = Append(to_worker, Reply(f))
              /\ reported' = reported \cup Said(Reply(f))
      /\ \/ long /\ server' = [server EXCEPT ![n] = Transfer(dir, f.reg, FALSE)]
         \/ goesOn /\ server' = [server EXCEPT ![n] = [@ EXCEPT !.toggle = TRUE]]
         \/ server' = [server EXCEPT ![n] = None]
      /\ UNCHANGED <<request, response, state>>
  BY DEF NodeSDO, worker, input
<1>2. /\ f \in Requests /\ f \in SdoFrames /\ Named(f) /\ Storable(f)
      /\ Tail(to_node) \in Seq(Requests) /\ Len(Tail(to_node)) <= Depth
  BY <1>1, BusTyped DEF Requests
<1>3. goesOn => server[n] \in Transfers
  <2> SUFFICES ASSUME goesOn PROVE server[n] \in Transfers
    OBVIOUS
  <2>1. server[n] # None
    BY DEF Reply, Abort, SDO
  <2>2. n \in Nodes
    BY <1>2 DEF Named
  <2> QED BY <2>1, <2>2 DEF TInv, ToldOK
<1>4. AskedOK'
  BY <1>1, <1>2 DEF TInv, AskedOK
<1>5. f.kind # "abort" => /\ Reply(f) \in Replies /\ n \in Nodes
                          /\ Said(Reply(f)) \subseteq Sayings
  BY <1>1, <1>2, ReplyTyped
<1>6. to_worker' \in Seq(Replies) /\ Len(to_worker') <= Back
  <2>1. /\ to_worker \in Seq(Replies) /\ Len(to_worker) \in Nat
        /\ Len(to_worker) <= Back
    BY LenProperties DEF TInv, ToldOK
  <2>2. CASE f.kind = "abort"
    BY <1>1, <2>1, <2>2
  <2>3. CASE f.kind # "abort"
    <3> HIDE DEF f
    <3>1. /\ Append(to_worker, Reply(f)) \in Seq(Replies)
          /\ Len(Append(to_worker, Reply(f))) = Len(to_worker) + 1
      BY <1>5, <2>1, <2>3, AppendProperties
    <3> QED BY <1>1, <2>1, <2>3, <3>1, Bounds
  <2> QED BY <2>2, <2>3
<1>7. server' \in [Nodes -> Transfers \cup {None}]
  <2>1. server \in [Nodes -> Transfers \cup {None}]
    BY DEF TInv, ToldOK
  <2>2. CASE long /\ server' = [server EXCEPT ![n] = Transfer(dir, f.reg, FALSE)]
    <3>1. Transfer(dir, f.reg, FALSE) \in Transfers
      BY <1>2, <2>2 DEF Transfer, Transfers, Named
    <3> HIDE DEF f, n, dir, long
    <3> QED BY <2>1, <2>2, <3>1
  <2>3. CASE goesOn /\ server' = [server EXCEPT ![n] = [@ EXCEPT !.toggle = TRUE]]
    <3>1. [server[n] EXCEPT !.toggle = TRUE] \in Transfers
      BY <1>3, <2>3 DEF Transfers
    <3> HIDE DEF f, n, goesOn
    <3> QED BY <2>1, <2>3, <3>1
  <2> HIDE DEF f, n, long, goesOn, dir
  <2> QED BY <1>1, <2>1, <2>2, <2>3
<1>8. ToldOK'
  BY <1>1, <1>6, <1>7 DEF TInv, ToldOK
<1>9. NodeOK'
  <2>1. reported' \subseteq Sayings
    BY <1>1, <1>5 DEF TInv, NodeOK
  <2>2. CASE f.kind = "download" /\ ~long /\ Stored(n, f.reg, f.value)
    <3>1. n \in Nodes /\ f.reg \in Registers /\ f.value \in Values
      BY <1>2, <2>2 DEF Named, Storable
    <3> QED BY <1>1, <2>1, <2>2, <3>1, StoredTyped
  <2>3. CASE goesOn /\ f.kind = "dseg" /\ f.last /\ Stored(n, server[n].reg, f.value)
    <3>1. n \in Nodes /\ server[n].reg \in Registers /\ f.value \in Values
      BY <1>2, <1>3, <2>3 DEF Named, Storable, Transfers
    <3> QED BY <1>1, <2>1, <2>3, <3>1, StoredTyped
  <2>4. CASE UNCHANGED <<regs, held, took>>
    BY <1>1, <2>1, <2>4 DEF TInv, NodeOK
  <2> QED BY <2>2, <2>3, <2>4 DEF NodeSDO
<1> QED BY <1>4, <1>8, <1>9

LEMMA NodeTyped ==
  ASSUME TInv, NodeSDO \/ NodeNMT \/ \E n \in Nodes : NodeReports(n)
  PROVE  NodeOK' /\ AskedOK' /\ ToldOK'
<1>1. CASE NodeSDO
  BY <1>1, NodeSDOTyped
<1>2. CASE NodeNMT
  <2>1. /\ to_node' \in Seq(Requests) /\ Len(to_node') <= Depth
        /\ UNCHANGED <<request, to_worker, response, server, regs, held, took,
                       reported>>
    BY <1>2, BusTyped DEF NodeNMT, worker, input, books
  <2>2. state' \in [Nodes -> States]
    BY <1>2 DEF NodeNMT, States, Operational, Stopped, PreOperational, Booting,
       TInv, NodeOK
  <2> QED BY <2>1, <2>2 DEF TInv, NodeOK, AskedOK, ToldOK
<1>3. ASSUME NEW n \in Nodes, NodeReports(n)
      PROVE  NodeOK' /\ AskedOK' /\ ToldOK'
  <2> DEFINE f == Heartbeat(n, state[n])
  <2>1. /\ to_worker' = Append(to_worker, f)
        /\ Len(to_worker) < Back /\ reported' = reported \cup Said(f)
        /\ UNCHANGED <<request, to_node, response, server, regs, held, took>>
    BY <1>3 DEF NodeReports, worker, input
  <2>2. state[n] \in States
    BY DEF TInv, NodeOK
  <2>3. f \in Replies /\ Said(f) \subseteq Sayings
    BY <2>2 DEF Heartbeat, Replies, Said, Sayings
  <2> HIDE DEF f
  <2>4. /\ to_worker' \in Seq(Replies) /\ Len(to_worker') <= Back
    <3>1. to_worker \in Seq(Replies) /\ Len(to_worker) \in Nat
      BY LenProperties DEF TInv, ToldOK
    <3>2. /\ to_worker' \in Seq(Replies) /\ Len(to_worker') = Len(to_worker) + 1
      BY <2>1, <2>3, <3>1, AppendProperties
    <3> QED BY <2>1, <3>1, <3>2, Bounds
  <2>5. state' \in [Nodes -> States]
    BY <1>3 DEF NodeReports, States, PreOperational, TInv, NodeOK
  <2> QED BY <2>1, <2>3, <2>4, <2>5 DEF TInv, NodeOK, AskedOK, ToldOK
<1> QED BY <1>1, <1>2, <1>3

LEMMA TypesKept == TInv /\ [Next]_vars => TInv'
<1> SUFFICES ASSUME TInv, [Next]_vars PROVE TInv'
  OBVIOUS
<1>1. ClientsOK'
  <2>1. CASE UNCHANGED <<calm, clients>>
    BY <2>1 DEF clients, TInv, ClientsOK
  <2> QED BY <2>1, ClientsTyped DEF Next, Worker, Take, Timeout, GotState, GotRead,
          Copy, GotWrite, IncomingFrame, Lose, NodeSDO, NodeNMT, NodeReports, vars
<1>2. WorkerOK'
  <2>1. CASE UNCHANGED <<worker, note, left>>
    BY <2>1 DEF worker, TInv, WorkerOK
  <2>2. CASE IncomingFrame
    <3>1. note' \in BOOLEAN /\ left' \in {"no", "pending", "taken"}
      BY <2>2 DEF IncomingFrame, input, TInv, WorkerOK
    <3> QED BY <2>2, <3>1 DEF IncomingFrame, worker, TInv, WorkerOK
  <2> QED BY <2>1, <2>2, WorkerTyped DEF Next, SubmitJob, ExecuteJob, ReceiveDone,
          Fetch, Close, Lose, NodeSDO, NodeNMT, NodeReports, vars, input, books
<1>3. NodeOK'
  <2>1. CASE UNCHANGED <<regs, state, held, took, reported>>
    BY <2>1 DEF TInv, NodeOK
  <2>2. CASE Begin
    BY <2>2, BeginTyped
  <2>3. CASE Return
    <3>1. held' = {} /\ took' = FALSE /\ UNCHANGED <<regs, state, reported>>
      BY <2>3 DEF Return, node
    <3> QED BY <3>1 DEF TInv, NodeOK
  <2> QED BY <2>1, <2>2, <2>3, NodeTyped DEF Next, Worker, SubmitJob, ExecuteJob,
          ReceiveDone, Fetch, Close, Drop, Take, Timeout, GotState, GotRead, Copy,
          GotWrite, IncomingFrame, Lose, vars, node, books
<1>4. AskedOK'
  <2>1. CASE UNCHANGED <<request, to_node>>
    BY <2>1 DEF TInv, AskedOK
  <2>2. CASE Lose
    BY <2>2, BusTyped DEF Lose, worker, TInv, AskedOK
  <2> QED BY <2>1, <2>2, WorkerTyped, NodeTyped DEF Next, SubmitJob, ExecuteJob,
          ReceiveDone, Fetch, Close, IncomingFrame, vars, worker, bus
<1>5. ToldOK'
  <2>1. CASE UNCHANGED <<to_worker, response, server>>
    BY <2>1 DEF TInv, ToldOK
  <2>2. CASE Return
    BY <2>2, BlankTyped DEF Return, bus, node, TInv, ToldOK
  <2>3. CASE IncomingFrame \/ Lose
    BY <2>3, BusTyped DEF IncomingFrame, Lose, node, input, TInv, ToldOK
  <2> QED BY <2>1, <2>2, <2>3, NodeTyped DEF Next, Worker, SubmitJob, ExecuteJob,
          ReceiveDone, Fetch, Close, Drop, Begin, Take, Timeout, GotState, GotRead,
          Copy, GotWrite, vars, input, bus, node
<1> QED BY <1>1, <1>2, <1>3, <1>4, <1>5 DEF TInv

\* The variables have their types, for any registers, values, tries and sizes:
\* above all, no queue of m_jobqueue's or of the bus exceeds its limit, and a
\* register is never given what is no value.
THEOREM CanOpenTypes == Spec => []TypeOK
<1>1. Spec => []TInv
  BY TypesInit, TypesKept, PTL DEF Spec
<1> QED BY <1>1, TypesCovered, PTL

-----------------------------------------------------------------------------
(* StateIsReal and AnswerIsReal, on any bus.                               *)

\* The nodes have said what the frames under way, and the last one, say.
SaidSo(f) == Said(f) \subseteq reported
AllSaid == SaidSo(response) /\ \A k \in DOMAIN to_worker : SaidSo(to_worker[k])

\* The frame in m_response is one for the job, unless the notification is from
\* before it.
Own ==
  /\ pc # "idle" /\ note /\ left # "pending" => Matches(response, job)
  /\ left = "pending" => pc \in {"wait", "done"}
  /\ pc \in {"got", "copy"} /\ left = "no" => Matches(response, job)

\* Once the first request is answered, the node has said so.
Asking == job.type \in {"read", "write"}
Answering == <<job.node, IF job.type = "read" THEN "upload" ELSE "download", job.reg>>
Followed ==
  \/ pc \in {"wait", "got"} /\ request.kind \in {"useg", "dseg"}
  \/ pc = "copy"
  \/ pc = "done" /\ result = "OK"
Acknowledged == Asking /\ left # "taken" /\ Followed => Answering \in reported

SInv == AllSaid /\ Own /\ Acknowledged /\ StateIsReal

LEMMA SInvInit == Init => SInv
<1> SUFFICES ASSUME Init PROVE SInv
  OBVIOUS
<1>1. /\ to_worker = <<>> /\ response = Blank /\ pc = "idle" /\ left = "no"
  BY DEF Init
<1>2. Said(Blank) = {}
  BY DEF Said, Blank, Abort, SDO
<1> QED BY <1>1, <1>2 DEF SInv, AllSaid, SaidSo, Own, Acknowledged, Followed,
           StateIsReal, Confirmed

\* What is on the bus and in m_response stays, and the nodes say no less.
LEMMA SaidStays ==
  ASSUME SInv, UNCHANGED <<to_worker, response>>, reported \subseteq reported'
  PROVE  AllSaid'
BY DEF SInv, AllSaid, SaidSo

\* The worker, its notification and the last frame stay.
LEMMA ApartKeeps ==
  ASSUME SInv, AllSaid', UNCHANGED <<worker, response, note, left>>,
         reported \subseteq reported'
  PROVE  SInv'
<1> USE DEF worker
<1>1. Own'
  BY DEF SInv, Own, Matches, RxID
<1>2. Acknowledged'
  BY DEF SInv, Acknowledged, Asking, Answering, Followed
<1>3. StateIsReal'
  BY DEF SInv, StateIsReal, Confirmed
<1> QED BY <1>1, <1>2, <1>3 DEF SInv

\* The worker takes a job, a notification, or no answer.
LEMMA WaitKeeps ==
  ASSUME TInv, SInv, Drop \/ Begin \/ Take \/ Timeout
  PROVE  SInv'
<1>1. UNCHANGED <<to_worker, response, reported>>
  BY DEF Drop, Begin, Take, Timeout, input, bus, books
<1>2. AllSaid'
  BY <1>1, SaidStays
<1>3. CASE Drop
  BY <1>2, <1>3 DEF Drop, input, books, SInv, Own, Acknowledged, Followed,
     StateIsReal, Confirmed
<1>4. CASE Begin
  <2> DEFINE j == Head(queue)
             r == FirstRequest(j)
  <2>1. /\ job' = j /\ note' = note
        /\ left' = IF note THEN "pending" ELSE "no"
        /\ \/ pc' = "wait" /\ j.type = "hb"
           \/ pc' = "wait" /\ request' = r /\ j.type # "hb"
           \/ pc' = "done" /\ j.type = "nmt" /\ ~j.wait
           \/ pc' = "done" /\ result' = "NoCANWrite"
    BY <1>4 DEF Begin, Ends, input
  <2>2. j \in Jobs /\ (note \/ ~note)
    BY <1>4, TakenTyped DEF Begin
  <2>3. Own'
    BY <2>1, <2>2 DEF Own
  <2>4. j.type \in {"read", "write"} => r.kind \in {"upload", "download"}
    BY DEF FirstRequest, SDO
  <2> HIDE DEF j, r
  <2>5. Acknowledged'
    BY <2>1, <2>4 DEF Acknowledged, Asking, Followed
  <2>6. StateIsReal'
    BY <2>1 DEF StateIsReal, Confirmed
  <2> QED BY <1>2, <2>3, <2>5, <2>6 DEF SInv
<1>5. CASE Take
  <2>1. /\ pc = "wait" /\ note /\ ~note' /\ pc' = "got"
        /\ UNCHANGED <<job, request>>
        /\ left' = IF left = "pending" THEN "taken" ELSE left
    BY <1>5 DEF Take
  <2>2. Own'
    BY <1>1, <2>1 DEF SInv, Own, Matches, RxID
  <2>3. Acknowledged'
    BY <1>1, <2>1 DEF SInv, Acknowledged, Asking, Answering, Followed
  <2>4. StateIsReal'
    BY <2>1 DEF StateIsReal, Confirmed
  <2> QED BY <1>2, <2>2, <2>3, <2>4 DEF SInv
<1>6. CASE Timeout
  <2>1. /\ pc = "wait" /\ ~note /\ ~note' /\ UNCHANGED <<job, request, left>>
        /\ pc' = "wait" \/ (pc' = "done" /\ result' = "Timeout")
    BY <1>6 DEF Timeout, Again, Ends, input, books
  <2>2. Own'
    BY <2>1 DEF SInv, Own
  <2>3. Acknowledged'
    BY <1>1, <2>1 DEF SInv, Acknowledged, Asking, Answering, Followed
  <2>4. StateIsReal'
    BY <2>1 DEF StateIsReal, Confirmed
  <2> QED BY <1>2, <2>2, <2>3, <2>4 DEF SInv
<1> QED BY <1>3, <1>4, <1>5, <1>6

\* A job that looks at its own frame, and has not ended before, leaves the rest.
LEMMA OwnKeeps ==
  ASSUME SInv, pc \in {"got", "copy"}, UNCHANGED <<job, note, response>>,
         left' \in {left, "no"}, pc' \in {"wait", "got", "copy", "done"},
         pc' \in {"got", "copy"} => left' = left
  PROVE  Own'
<1>1. left # "pending" /\ left' # "pending"
  BY DEF SInv, Own
<1>2. note => Matches(response, job)
  BY <1>1 DEF SInv, Own
<1> QED BY <1>1, <1>2 DEF SInv, Own, Matches, RxID

\* What an NMT or heartbeat job takes for a state is one its node has said.
LEMMA GotStateKeeps ==
  ASSUME TInv, SInv, GotState
  PROVE  SInv'
<1>1. /\ UNCHANGED <<to_worker, response, reported, job, note>>
      /\ pc = "got" /\ job.type \in {"nmt", "hb"}
      /\ pc' \in {"wait", "done"} /\ left' \in {left, "no"}
  BY DEF GotState, input, Again, Ends
<1>2. AllSaid' /\ Own'
  BY <1>1, SaidStays, OwnKeeps
<1>3. Acknowledged'
  BY <1>1 DEF Acknowledged, Asking
<1>4. StateIsReal'
  <2> SUFFICES ASSUME Confirmed', job.type = "nmt" => job.wait
               PROVE  /\ job.type = "nmt" /\ job.arg = "Stop"
                           => <<job.node, "state", Stopped>> \in reported
                      /\ job.type = "nmt" /\ job.arg = "PreOp"
                           => <<job.node, "state", PreOperational>> \in reported
                      /\ job.type = "hb"
                           => <<job.node, "state", data'[1]>> \in reported
    BY <1>1 DEF StateIsReal
  <2>1. PICK s \in StateIn(response) :
          /\ job.type = "nmt" => Expected(job.arg, s)
          /\ data' = (IF job.type = "hb" THEN <<s>> ELSE data) /\ left' = left
    BY DEF GotState, Again, Ends, Confirmed
  <2>2. left = "no"
    BY <1>1, <2>1 DEF Confirmed, SInv, Own, TInv, WorkerOK
  <2>3. response.on = "hb" /\ response.node = job.node
    BY <1>1, <2>2 DEF SInv, Own, Matches, RxID
  <2>4. s = response.state /\ <<job.node, "state", s>> \in reported
    <3>1. StateIn(response) = {response.state}
      BY <2>3 DEF StateIn
    <3>2. Said(response) = {<<job.node, "state", response.state>>}
      BY <2>3 DEF Said
    <3> QED BY <2>1, <3>1, <3>2 DEF SInv, AllSaid, SaidSo
  <2>5. job.type = "hb" => data'[1] = s
    BY <2>1
  <2> QED BY <2>1, <2>4, <2>5 DEF Expected, Stopped, PreOperational
<1> QED BY <1>2, <1>3, <1>4 DEF SInv

\* The answer that names the job's register is its node's.
LEMMA AnswerSaid ==
  ASSUME TInv, SInv, pc = "got", left # "taken", NEW kind \in {"upload", "download"},
         Answers(kind), Asking
  PROVE  <<job.node, kind, job.reg>> \in reported
<1>1. left = "no"
  BY DEF SInv, Own, TInv, WorkerOK
<1>2. response.on = "sdo" /\ response.node = job.node
  BY <1>1 DEF SInv, Own, Matches, RxID, Asking
<1>3. response.kind = kind /\ response.reg = job.reg
  BY DEF Answers
<1> QED BY <1>2, <1>3 DEF SInv, AllSaid, SaidSo, Said

\* The other steps of the worker.
LEMMA TransferKeeps ==
  ASSUME TInv, SInv, GotRead \/ Copy \/ GotWrite
  PROVE  SInv'
<1>1. /\ UNCHANGED <<to_worker, response, reported, job, note, left>>
      /\ pc \in {"got", "copy"} /\ job.type \in {"read", "write"}
      /\ pc' \in {"wait", "copy", "done"}
  BY DEF GotRead, Copy, GotWrite, input, books, Refuse, Continue, Ends, TInv,
     WorkerOK
<1>2. AllSaid' /\ Own'
  BY <1>1, SaidStays, OwnKeeps
<1>3. Acknowledged'
  <2> SUFFICES ASSUME left # "taken", Followed' PROVE Answering \in reported
    BY <1>1 DEF Acknowledged, Answering
  <2>1. CASE Followed
    BY <1>1, <2>1 DEF SInv, Acknowledged, Asking
  <2>2. CASE ~Followed /\ GotRead
    <3>1. Answers("upload") /\ job.type = "read"
      BY <2>2 DEF GotRead, Followed, Refuse, Ends
    <3> QED BY <1>1, <2>2, <3>1, AnswerSaid DEF Asking, Answering, GotRead
  <2>3. CASE ~Followed /\ GotWrite
    <3>1. Answers("download") /\ job.type = "write"
      BY <2>3 DEF GotWrite, Followed, Refuse, Ends
    <3> QED BY <1>1, <2>3, <3>1, AnswerSaid DEF Asking, Answering, GotWrite
  <2>4. CASE ~Followed /\ Copy
    BY <2>4 DEF Followed, Copy
  <2> QED BY <2>1, <2>2, <2>3, <2>4
<1>4. StateIsReal'
  BY <1>1 DEF StateIsReal
<1> QED BY <1>2, <1>3, <1>4 DEF SInv

LEMMA ReturnSaid ==
  ASSUME SInv, Return
  PROVE  SInv'
<1>1. /\ UNCHANGED <<to_worker, reported>> /\ pc' = "idle" /\ left' = "no"
      /\ response' = response \/ response' = Blank
  BY DEF Return, bus
<1>2. Said(Blank) = {}
  BY DEF Said, Blank, Abort, SDO
<1>3. AllSaid'
  BY <1>1, <1>2 DEF SInv, AllSaid, SaidSo
<1> QED BY <1>1, <1>3 DEF SInv, Own, Acknowledged, Followed, StateIsReal, Confirmed

\* A frame arrives, or is lost.
LEMMA FrameKeeps ==
  ASSUME TInv, SInv, IncomingFrame \/ Lose
  PROVE  SInv'
<1>1. UNCHANGED <<worker, reported>>
  BY DEF IncomingFrame, Lose, worker, books
<1>2. to_worker # <<>> =>
        /\ Head(to_worker) = to_worker[1] /\ 1 \in DOMAIN to_worker
        /\ \A k \in DOMAIN Tail(to_worker) :
             k + 1 \in DOMAIN to_worker /\ Tail(to_worker)[k] = to_worker[k + 1]
  <2> SUFFICES ASSUME to_worker # <<>>
               PROVE  /\ Head(to_worker) = to_worker[1] /\ 1 \in DOMAIN to_worker
                      /\ \A k \in DOMAIN Tail(to_worker) :
                           /\ k + 1 \in DOMAIN to_worker
                           /\ Tail(to_worker)[k] = to_worker[k + 1]
    OBVIOUS
  <2> DEFINE q == to_worker
  <2>1. q \in Seq(Replies)
    BY DEF TInv, ToldOK
  <2> HIDE DEF q
  <2>2. q # <<>>
    BY DEF q
  <2>3. /\ Tail(q) \in Seq(Replies) /\ Len(Tail(q)) = Len(q) - 1
        /\ \A i \in 1 .. Len(Tail(q)) : Tail(q)[i] = q[i + 1]
        /\ Head(q) = q[1]
    BY <2>1, <2>2, HeadTailProperties
  <2>4. /\ Len(q) \in Nat /\ DOMAIN q = 1 .. Len(q) /\ Len(q) # 0
        /\ DOMAIN Tail(q) = 1 .. Len(Tail(q))
    BY <2>1, <2>2, <2>3, LenProperties, EmptySeq
  <2> QED BY <2>3, <2>4 DEF q
<1>3. SaidSo(response) /\ \A k \in DOMAIN to_worker : SaidSo(to_worker[k])
  BY DEF SInv, AllSaid
<1>4. \A k \in DOMAIN to_worker' : SaidSo(to_worker'[k])
  <2>1. CASE to_worker' = to_worker
    BY <1>3, <2>1
  <2>2. CASE to_worker # <<>> /\ to_worker' = Tail(to_worker)
    <3> DEFINE q == Tail(to_worker)
    <3>1. \A k \in DOMAIN q : SaidSo(q[k])
      BY <1>2, <1>3, <2>2
    <3>2. to_worker' = q
      BY <2>2
    <3> HIDE DEF q
    <3> QED BY <3>1, <3>2
  <2> QED BY <2>1, <2>2 DEF IncomingFrame, Lose
<1>5. CASE UNCHANGED <<response, note, left>>
  <2>1. AllSaid'
    BY <1>1, <1>3, <1>4, <1>5 DEF AllSaid, SaidSo
  <2> QED BY <1>1, <1>5, <2>1, ApartKeeps
<1>6. CASE /\ to_worker # <<>> /\ response' = Head(to_worker) /\ note' = TRUE
           /\ Matches(Head(to_worker), job)
           /\ left' = IF left = "pending" THEN "no" ELSE left
  <2>1. AllSaid'
    BY <1>1, <1>2, <1>3, <1>4, <1>6 DEF AllSaid, SaidSo
  <2>2. UNCHANGED <<job, pc, request, data, result>> /\ Matches(response, job)'
    BY <1>1, <1>6 DEF worker, Matches, RxID
  <2>3. Own'
    BY <1>6, <2>2 DEF SInv, Own
  <2>4. Acknowledged' /\ StateIsReal'
    BY <1>1, <1>6, <2>2
       DEF SInv, Acknowledged, Asking, Answering, Followed, StateIsReal, Confirmed
  <2> QED BY <2>1, <2>3, <2>4 DEF SInv
<1> QED BY <1>5, <1>6 DEF IncomingFrame, Lose, input, books

\* A node says something, or nothing.
LEMMA NodeKeeps ==
  ASSUME TInv, SInv, NodeSDO \/ NodeNMT \/ \E n \in Nodes : NodeReports(n)
  PROVE  SInv'
<1>1. PICK f : /\ UNCHANGED <<worker, response, note, left>>
               /\ \/ UNCHANGED <<to_worker, reported>>
                  \/ /\ to_worker' = Append(to_worker, f)
                     /\ f \in Replies /\ reported' = reported \cup Said(f)
  <2>1. CASE NodeSDO
    <3> DEFINE g == Head(to_node)
    <3>1. g \in Requests /\ g.on = "sdo"
      BY <2>1, BusTyped DEF NodeSDO
    <3>2. g.kind # "abort" => Reply(g) \in Replies
      BY <3>1, ReplyTyped
    <3> QED BY <2>1, <3>2 DEF NodeSDO, worker, input
  <2>2. CASE NodeNMT
    BY <2>2 DEF NodeNMT, input, books
  <2>3. ASSUME NEW n \in Nodes, NodeReports(n)
        PROVE  /\ UNCHANGED <<worker, response, note, left>>
               /\ to_worker' = Append(to_worker, Heartbeat(n, state[n]))
               /\ Heartbeat(n, state[n]) \in Replies
               /\ reported' = reported \cup Said(Heartbeat(n, state[n]))
    <3>1. state[n] \in States
      BY DEF TInv, NodeOK
    <3> QED BY <2>3, <3>1 DEF NodeReports, input, Heartbeat, Replies
  <2> QED BY <2>1, <2>2, <2>3
<1>2. AllSaid'
  <2>1. CASE UNCHANGED <<to_worker, reported>>
    BY <1>1, <2>1, SaidStays
  <2>2. CASE /\ to_worker' = Append(to_worker, f)
             /\ f \in Replies /\ reported' = reported \cup Said(f)
    <3>1. to_worker \in Seq(Replies)
      BY DEF TInv, ToldOK
    <3> DEFINE q == Append(to_worker, f)
    <3>2. /\ q \in Seq(Replies) /\ Len(q) = Len(to_worker) + 1
          /\ \A i \in 1 .. Len(to_worker) : q[i] = to_worker[i]
          /\ q[Len(to_worker) + 1] = f
      BY <2>2, <3>1, AppendProperties
    <3>3. /\ Len(to_worker) \in Nat /\ DOMAIN to_worker = 1 .. Len(to_worker)
          /\ DOMAIN q = 1 .. Len(to_worker) + 1
      BY <3>1, <3>2, LenProperties
    <3>4. \A k \in DOMAIN q : q[k] = f \/ \E l \in DOMAIN to_worker : q[k] = to_worker[l]
      BY <3>2, <3>3
    <3>5. to_worker' = q
      BY <2>2
    <3> HIDE DEF q
    <3> QED BY <1>1, <2>2, <3>4, <3>5 DEF SInv, AllSaid, SaidSo
  <2> QED BY <1>1, <2>1, <2>2
<1> QED BY <1>1, <1>2, ApartKeeps

LEMMA SInvNext == TInv /\ SInv /\ [Next]_vars => SInv'
<1> SUFFICES ASSUME TInv, SInv, [Next]_vars PROVE SInv'
  OBVIOUS
<1>1. CASE UNCHANGED <<worker, response, note, left, to_worker, reported>>
  BY <1>1, SaidStays, ApartKeeps
<1>2. CASE Worker
  BY <1>2, WaitKeeps, GotStateKeeps, TransferKeeps, ReturnSaid DEF Worker
<1>3. CASE IncomingFrame \/ Lose
  BY <1>3, FrameKeeps
<1>4. CASE NodeSDO \/ NodeNMT \/ \E n \in Nodes : NodeReports(n)
  BY <1>4, NodeKeeps
<1>5. CASE \/ \E j \in Uses(calm) : SubmitJob(j) \/ \E t \in Tasks : ExecuteJob(t, j)
           \/ \E t \in Tasks : ReceiveDone(t)
           \/ Fetch \/ Close \/ UNCHANGED vars
  BY <1>1, <1>5 DEF SubmitJob, ExecuteJob, ReceiveDone, Fetch, Close, vars, input,
     bus, books
<1> QED BY <1>2, <1>3, <1>4, <1>5 DEF Next

LEMMA SInvGives == SInv => StateIsReal /\ AnswerIsReal
BY DEF SInv, Acknowledged, Asking, Answering, Followed, AnswerIsReal, Confirmed

\* On a bus that loses and delays: COR_OK of an NMT job that waits for Stop or
\* PreOp (ProcessSendNMTJob) means that the job's own node has reported that
\* state, the state that a heartbeat job returns is one its node has reported, and
\* COR_OK of a read or write means that its node has answered a request for its
\* register.  Jobs that act on a notification from before them are excepted.
THEOREM CanOpenConfirmedByNode == Spec => [](StateIsReal /\ AnswerIsReal)
<1>1. Spec => [](TInv /\ SInv)
  BY TypesInit, TypesKept, SInvInit, SInvNext, PTL DEF Spec
<1> QED BY <1>1, SInvGives, PTL

-----------------------------------------------------------------------------
(* SdoIsReal: on a calm bus one exchange is under way at a time, so what   *)
(* is taken for the answer to the request is the answer to it, and the     *)
(* node's transfer is the job's.                                           *)

Transferring == {"read", "write"}

\* Only SDO jobs are submitted.
OnlySDO ==
  /\ \A k \in DOMAIN queue : queue[k].type \in Transferring
  /\ pc # "idle" => job.type \in Transferring

\* On its way to the node is the request, if anything, behind what aborts it ...
Quiet(q) == \A k \in DOMAIN q : q[k].kind = "abort"
Asked(q, f) ==
  \A k \in DOMAIN q : q[k].kind = "abort" \/ (q[k] = f /\ k = Len(q))

\* ... and nothing is when the answer is under way, or in m_response unseen.
Pending == to_worker # <<>> \/ note

OneExchange ==
  /\ IF pc = "wait" THEN Asked(to_node, request) ELSE Quiet(to_node)
  /\ Pending => pc = "wait" /\ to_node = <<>>
  /\ to_worker # <<>> => ~note /\ Len(to_worker) = 1

\* The requests of a job.
RequestOf(j, f) ==
  \/ f = FirstRequest(j)
  \/ j.type = "read"
     /\ \E t \in BOOLEAN : f = SDO(j.node, "useg", None, t, None, FALSE)
  \/ j.type = "write"
     /\ \E t, l \in BOOLEAN : f = SDO(j.node, "dseg", None, t, j.arg, l)

Requested == pc \in {"wait", "got", "copy"} => RequestOf(job, request)

\* What the answer f to the job's request says is so.
Real(f) ==
  /\ job.type = "read" /\ f.kind \in {"upload", "useg"} => f.value = regs[job.node][job.reg]
  /\ job.type = "write" /\ f.kind \in {"download", "dseg"} /\ request.last => took

Answered ==
  /\ to_worker # <<>> => Real(to_worker[1])
  /\ note \/ pc \in {"got", "copy"} => Real(response)
  /\ pc = "copy" => response.kind \in {"upload", "useg"}

\* Once the node has answered, its transfer is the job's or none.
Begun ==
  \/ Pending \/ pc \in {"got", "copy"}
  \/ pc = "wait" /\ request.kind \in {"useg", "dseg"}
Ours ==
  Begun /\ server[job.node] # None
    => /\ server[job.node].reg = job.reg
       /\ server[job.node].dir = IF job.type = "read" THEN "useg" ELSE "dseg"

\* What was copied is what the register holds, still.
Copied ==
  pc # "idle" /\ job.type = "read" =>
    /\ regs[job.node][job.reg] \in held
    /\ data \in Seq(Values)
    /\ \A i \in DOMAIN data : data[i] = regs[job.node][job.reg]

Written == pc = "done" /\ result = "OK" /\ job.type = "write" => took

Calm ==
  /\ OnlySDO /\ OneExchange /\ Requested /\ Answered /\ Ours /\ Copied /\ Written

RInv == calm => Calm

LEMMA RealInit == Init => RInv
<1> SUFFICES ASSUME Init PROVE RInv
  OBVIOUS
<1>1. /\ queue = <<>> /\ pc = "idle" /\ to_node = <<>> /\ to_worker = <<>>
      /\ note = FALSE
  BY DEF Init
<1>2. OnlySDO /\ OneExchange
  BY <1>1 DEF OnlySDO, OneExchange, Quiet, Pending
<1>3. Requested /\ Answered /\ Ours /\ Copied /\ Written
  BY <1>1 DEF Requested, Answered, Ours, Begun, Pending, Copied, Written
<1> QED BY <1>2, <1>3 DEF RInv, Calm

\* What is on the bus when the head is taken ...
LEMMA AskedTail ==
  ASSUME NEW S, NEW q \in Seq(S), q # <<>>, NEW f
  PROVE  /\ Quiet(q) => Head(q).kind = "abort" /\ Quiet(Tail(q))
         /\ Asked(q, f) => /\ Asked(Tail(q), f)
                           /\ \/ Head(q).kind = "abort"
                              \/ Head(q) = f /\ Tail(q) = <<>>
<1>1. /\ Tail(q) \in Seq(S) /\ Len(Tail(q)) = Len(q) - 1
      /\ \A i \in 1 .. Len(Tail(q)) : Tail(q)[i] = q[i + 1]
  BY HeadTailProperties
<1>2. /\ Len(q) \in Nat /\ DOMAIN q = 1 .. Len(q) /\ Len(q) # 0
      /\ Len(Tail(q)) \in Nat /\ DOMAIN Tail(q) = 1 .. Len(Tail(q))
  BY <1>1, LenProperties, EmptySeq
<1>3. Head(q) = q[1] /\ 1 \in DOMAIN q
  BY <1>2, HeadTailProperties
<1>4. \A k \in DOMAIN Tail(q) : k + 1 \in DOMAIN q /\ Tail(q)[k] = q[k + 1]
                                /\ (k + 1 = Len(q) => k = Len(Tail(q)))
  BY <1>1, <1>2
<1>5. Len(q) = 1 => Tail(q) = <<>>
  <2>1. Len(q) = 1 => Len(Tail(q)) = 0
    BY <1>1
  <2>2. Tail(q) \in Seq(S) /\ (Tail(q) = <<>> <=> Len(Tail(q)) = 0)
    BY <1>1, EmptySeq
  <2> QED BY <2>1, <2>2
<1> QED BY <1>3, <1>4, <1>5 DEF Quiet, Asked

\* ... and when the worker sends.
LEMMA QuietSends ==
  ASSUME TInv, Quiet(to_node), NEW f \in Requests, Send(<<f>>)
  PROVE  Asked(to_node', f) /\ (f.kind = "abort" => Quiet(to_node'))
<1>1. <<f>> \in Seq(Requests) /\ Len(<<f>>) = 1 /\ <<f>>[1] = f
  OBVIOUS
<1>2. to_node \in Seq(Requests) /\ Len(to_node) \in Nat
      /\ DOMAIN to_node = 1 .. Len(to_node)
  BY LenProperties DEF TInv, AskedOK
<1> DEFINE fs == <<f>>
<1> HIDE DEF fs
<1>3. /\ to_node' \in Seq(Requests)
      /\ Len(to_node') <= Len(to_node) + Len(fs)
      /\ \A k \in DOMAIN to_node' :
           to_node'[k] = IF k <= Len(to_node) THEN to_node[k]
                         ELSE fs[k - Len(to_node)]
  BY <1>1, <1>2, Sending DEF fs
<1>4. Len(to_node') \in Nat /\ DOMAIN to_node' = 1 .. Len(to_node')
  BY <1>3, LenProperties
<1>5. ASSUME NEW k \in DOMAIN to_node'
      PROVE  to_node'[k].kind = "abort" \/ (to_node'[k] = f /\ k = Len(to_node'))
  <2>1. CASE k <= Len(to_node)
    BY <1>2, <1>3, <1>4, <1>5, <2>1 DEF Quiet
  <2>2. CASE ~(k <= Len(to_node))
    <3>1. k = Len(to_node) + 1 /\ k = Len(to_node')
      BY <1>1, <1>2, <1>3, <1>4, <2>2 DEF fs
    <3>2. k - Len(to_node) = 1
      BY <1>2, <3>1
    <3> QED BY <1>1, <1>3, <2>2, <3>1, <3>2 DEF fs
  <2> QED BY <2>1, <2>2
<1> QED BY <1>5 DEF Asked, Quiet

LEMMA EmptySends ==
  ASSUME TInv, to_node = <<>>, NEW n \in Nodes, NEW f \in Requests,
         Send(<<Abort(n)>> \o <<f>>)
  PROVE  Asked(to_node', f)
<1> DEFINE g == Abort(n)
           fs == <<g>> \o <<f>>
<1>0. g \in Requests /\ g.kind = "abort" /\ Send(fs)
  BY AbortTyped
<1> HIDE DEF g
<1>1. /\ <<g>> \in Seq(Requests) /\ Len(<<g>>) = 1 /\ <<g>>[1] = g
      /\ <<f>> \in Seq(Requests) /\ Len(<<f>>) = 1 /\ <<f>>[1] = f
  BY <1>0
<1>2. fs \in Seq(Requests) /\ Len(fs) = 2 /\ fs[1] = g /\ fs[2] = f
  <2> DEFINE a == <<g>>
             b == <<f>>
  <2>1. /\ a \in Seq(Requests) /\ Len(a) = 1 /\ a[1] = g
        /\ b \in Seq(Requests) /\ Len(b) = 1 /\ b[1] = f
    BY <1>1
  <2> HIDE DEF a, b
  <2>2. /\ a \o b \in Seq(Requests) /\ Len(a \o b) = Len(a) + Len(b)
        /\ \A i \in 1 .. Len(a) + Len(b) :
             (a \o b)[i] = IF i <= Len(a) THEN a[i] ELSE b[i - Len(a)]
    BY <2>1, ConcatProperties
  <2>3. (a \o b)[1] = a[1] /\ (a \o b)[2] = b[1]
    BY <2>1, <2>2
  <2> QED BY <2>1, <2>2, <2>3 DEF a, b
<1>3. to_node \in Seq(Requests) /\ Len(to_node) = 0
  BY EmptySeq DEF TInv, AskedOK
<1> HIDE DEF fs
<1>4. /\ to_node' \in Seq(Requests)
      /\ Len(to_node') <= Len(to_node) + Len(fs)
      /\ \A k \in DOMAIN to_node' :
           to_node'[k] = IF k <= Len(to_node) THEN to_node[k]
                         ELSE fs[k - Len(to_node)]
  BY <1>0, <1>2, <1>3, Sending
<1>5. Len(to_node') \in Nat /\ DOMAIN to_node' = 1 .. Len(to_node')
  BY <1>4, LenProperties
<1>6. \A k \in DOMAIN to_node' : /\ to_node'[k] = fs[k]
                                 /\ k = 1 \/ (k = 2 /\ k = Len(to_node'))
  BY <1>2, <1>3, <1>4, <1>5
<1> QED BY <1>0, <1>2, <1>6 DEF Asked

\* The requests of a transfer.
LEMMA ReadRequest ==
  ASSUME NEW j \in Jobs, j.type = "read", NEW f, RequestOf(j, f)
  PROVE  /\ f.on = "sdo" /\ f.kind \in {"upload", "useg"}
         /\ f.node = j.node
         /\ f.kind = "upload" => f.reg = j.reg
BY DEF RequestOf, FirstRequest, SDO

LEMMA WriteRequest ==
  ASSUME NEW j \in Jobs, j.type = "write", NEW f, RequestOf(j, f)
  PROVE  /\ f.on = "sdo" /\ f.kind \in {"download", "dseg"}
         /\ f.node = j.node
         /\ f.kind = "download" => /\ f.reg = j.reg
                                   /\ f.last = (j.reg \notin Long)
                                   /\ j.reg \notin Long => f.value = j.arg
         /\ f.kind = "dseg" => f.value = j.arg
<1>1. CASE f = FirstRequest(j)
  BY <1>1 DEF FirstRequest, SDO
<1>2. CASE \E t, l \in BOOLEAN : f = SDO(j.node, "dseg", None, t, j.arg, l)
  BY <1>2 DEF SDO
<1> QED BY <1>1, <1>2 DEF RequestOf

\* The clients leave the exchange alone, and submit SDO jobs.
LEMMA ApartReal ==
  ASSUME Calm, UNCHANGED <<worker, input, bus, node, held, took>>, OnlySDO'
  PROVE  Calm'
<1> USE DEF worker, input, bus, node
<1>1. OneExchange' /\ Requested'
  BY DEF Calm, OneExchange, Pending, Requested
<1>2. Answered' /\ Ours' /\ Copied' /\ Written'
  BY DEF Calm, Answered, Real, Ours, Begun, Pending, Copied, Written
<1> QED BY <1>1, <1>2 DEF Calm

LEMMA ClientsReal ==
  ASSUME TInv, calm, Calm,
         \/ \E j \in Uses(calm) :
              SubmitJob(j) \/ \E t \in Tasks : ExecuteJob(t, j)
         \/ \E t \in Tasks : ReceiveDone(t)
         \/ Fetch \/ Close
  PROVE  Calm'
<1>1. ASSUME NEW j \in Uses(calm), queue' = Append(queue, j), UNCHANGED <<job, pc>>
      PROVE  OnlySDO'
  <2>1. j \in Jobs /\ j.type \in Transferring
    <3>1. calm = TRUE
      BY DEF TInv, ClientsOK
    <3> QED BY <1>1, <3>1, UsesAssumption DEF Transferring
  <2>2. \A k \in DOMAIN queue' :
          \/ k \in DOMAIN queue /\ queue'[k] = queue[k]
          \/ queue'[k] = j
    BY <1>1, <2>1, Submitted DEF TInv, ClientsOK
  <2> QED BY <1>1, <2>1, <2>2 DEF Calm, OnlySDO
<1>2. ASSUME UNCHANGED <<queue, job, pc>> PROVE OnlySDO'
  BY <1>2 DEF Calm, OnlySDO
<1>3. /\ UNCHANGED <<worker, input, bus, node, held, took>>
      /\ \/ UNCHANGED queue
         \/ \E j \in Uses(calm) : queue' = Append(queue, j)
  BY DEF SubmitJob, ExecuteJob, ReceiveDone, Fetch, Close, books
<1> QED BY <1>1, <1>2, <1>3, ApartReal DEF worker

\* The worker ends a job: nothing is pending.
LEMMA EndReal ==
  ASSUME Calm, ~Pending, pc # "idle", pc' = "done", Quiet(to_node'),
         UNCHANGED <<queue, job, to_worker, note>>, Copied', Written'
  PROVE  Calm'
<1>1. OnlySDO' /\ ~Pending'
  BY DEF Calm, OnlySDO, Pending
<1>2. OneExchange' /\ Requested' /\ Answered' /\ Ours'
  BY <1>1 DEF OneExchange, Requested, Answered, Ours, Begun, Pending
<1> QED BY <1>1, <1>2 DEF Calm

\* What holds while the worker looks at an answer.
LEMMA GotQuiet ==
  ASSUME Calm, pc \in {"got", "copy"}
  PROVE  /\ ~Pending /\ Quiet(to_node) /\ RequestOf(job, request)
         /\ Real(response) /\ job.type \in Transferring
         /\ server[job.node] # None =>
              /\ server[job.node].reg = job.reg
              /\ server[job.node].dir = IF job.type = "read" THEN "useg" ELSE "dseg"
BY DEF Calm, OneExchange, Requested, Answered, Ours, Begun, OnlySDO

LEMMA ContinueReal ==
  ASSUME TInv, Calm, pc \in {"got", "copy"}, NEW r \in Requests,
         RequestOf(job, r), Continue(r), Copied',
         UNCHANGED <<queue, job, to_worker, note, server>>
  PROVE  Calm'
<1>1. /\ pc' = "wait" /\ request' = r /\ Asked(to_node', r)
  BY GotQuiet, QuietSends DEF Continue
<1>2. OnlySDO' /\ ~Pending'
  BY GotQuiet, <1>1 DEF Calm, OnlySDO, Pending
<1>3. OneExchange'
  BY <1>1, <1>2 DEF OneExchange, Pending
<1>4. Requested' /\ Answered' /\ Written'
  BY <1>1, <1>2 DEF Requested, RequestOf, Answered, Pending, Written
<1>5. Ours'
  BY GotQuiet DEF Ours
<1> QED BY <1>2, <1>3, <1>4, <1>5 DEF Calm

LEMMA RefuseReal ==
  ASSUME TInv, Calm, pc = "got", NEW r \in {"Access", "SegMismatch"}, Refuse(r),
         UNCHANGED <<queue, job, to_worker, note>>, Copied'
  PROVE  Calm'
<1>1. Quiet(to_node')
  BY GotQuiet, QuietSends, JobNode, AbortTyped DEF Refuse, Quiet
<1>2. pc' = "done" /\ result' = r
  BY DEF Refuse, Ends
<1>3. Written'
  BY <1>2 DEF Written
<1> QED BY <1>1, <1>2, <1>3, GotQuiet, EndReal

\* The worker takes a job.
LEMMA StartReal ==
  ASSUME TInv, Calm, Drop \/ Begin
  PROVE  Calm'
<1> DEFINE j == Head(queue)
           r == FirstRequest(j)
<1>1. /\ pc = "idle" /\ queue # <<>> /\ queue' = Tail(queue) /\ job' = j
      /\ UNCHANGED <<to_worker, note, server, regs>>
  BY DEF Drop, Begin, input, bus, node
<1>2. /\ ~Pending /\ ~Pending' /\ Quiet(to_node)
  BY <1>1 DEF Calm, OneExchange, Pending
<1>3. j \in Jobs /\ j.type \in Transferring
      /\ \A k \in DOMAIN queue' : queue'[k].type \in Transferring
  BY <1>1, Taking DEF TInv, ClientsOK, Calm, OnlySDO
<1>4. OnlySDO'
  BY <1>1, <1>3 DEF OnlySDO
<1>5. CASE Drop
  <2>1. pc' = "idle" /\ to_node' = to_node
    BY <1>5 DEF Drop, bus
  <2>2. OneExchange' /\ Requested' /\ Answered' /\ Ours' /\ Copied' /\ Written'
    BY <1>2, <2>1 DEF OneExchange, Requested, Answered, Pending, Ours, Begun,
       Copied, Written
  <2> QED BY <1>4, <2>2 DEF Calm
<1>6. CASE Begin
  <2>1. j.type \in {"read", "write"} /\ r \in Requests
    BY <1>3, FirstTyped DEF Transferring
  <2>2. /\ held' = {regs[j.node][j.reg]} /\ data' = <<>>
        /\ \/ pc' = "wait" /\ request' = r /\ Send(<<r>>)
           \/ pc' = "done" /\ result' = "NoCANWrite" /\ to_node' = to_node
    BY <1>6, <2>1 DEF Begin, Ends
  <2>3. Copied'
    BY <1>1, <2>2 DEF Copied
  <2>4. CASE pc' = "wait" /\ request' = r /\ Send(<<r>>)
    <3>1. Asked(to_node', r)
      BY <1>2, <2>1, <2>4, QuietSends
    <3>2. OneExchange'
      BY <1>2, <2>4, <3>1 DEF OneExchange, Pending
    <3>3. Requested' /\ Answered' /\ Written'
      BY <1>1, <1>2, <2>4 DEF Requested, RequestOf, Answered, Pending, Written
    <3>4. r.kind \in {"upload", "download"}
      BY <2>1 DEF FirstRequest, SDO
    <3>5. Ours'
      BY <1>2, <2>4, <3>4 DEF Ours, Begun
    <3> QED BY <1>4, <2>3, <3>2, <3>3, <3>5 DEF Calm
  <2>5. CASE pc' = "done" /\ result' = "NoCANWrite" /\ to_node' = to_node
    <3>1. OneExchange' /\ Requested' /\ Answered' /\ Ours' /\ Written'
      BY <1>2, <2>5 DEF OneExchange, Requested, Answered, Pending, Ours, Begun,
         Written
    <3> QED BY <1>4, <2>3, <3>1 DEF Calm
  <2> QED BY <2>2, <2>4, <2>5
<1> QED BY <1>5, <1>6

\* It waits for an answer.
LEMMA WaitReal ==
  ASSUME TInv, calm, Calm, Take \/ Timeout
  PROVE  Calm'
<1>1. /\ pc = "wait" /\ job.type \in Transferring /\ RequestOf(job, request)
      /\ UNCHANGED <<queue, job, request, data, to_worker, server, regs, held,
                     took>>
      /\ job.node \in Nodes
  BY JobNode
     DEF Take, Timeout, Again, bus, node, clients, books, Calm, OnlySDO, Requested
<1>2. Copied' /\ OnlySDO'
  <2>1. Copied'
    BY <1>1 DEF Copied, Calm, Take, Timeout, Again, Ends
  <2>2. pc # "idle"
    BY <1>1
  <2> QED BY <1>1, <2>1 DEF OnlySDO, Calm
<1>3. CASE Take
  <2>1. note /\ note' = FALSE /\ pc' = "got" /\ UNCHANGED <<to_node, response>>
    BY <1>3 DEF Take, bus
  <2>2. to_node = <<>> /\ to_worker = <<>> /\ Real(response)
    BY <2>1 DEF Calm, OneExchange, Pending, Answered
  <2>3. OneExchange'
    BY <1>1, <2>1, <2>2 DEF OneExchange, Pending, Quiet
  <2>4. Requested' /\ Written'
    BY <1>1, <2>1 DEF Requested, RequestOf, Written
  <2>5. Answered'
    BY <1>1, <2>1, <2>2 DEF Answered, Real
  <2>6. Ours'
    BY <1>1, <2>1 DEF Calm, Ours, Begun, Pending
  <2> QED BY <1>2, <2>3, <2>4, <2>5, <2>6 DEF Calm
<1>4. CASE Timeout
  <2>1. /\ ~note /\ to_node = <<>> /\ to_worker = <<>> /\ note' = note
        /\ Again(<<Abort(job.node)>>)
    BY <1>1, <1>4 DEF Timeout, input, Transferring
  <2>2. ~Pending /\ Quiet(to_node) /\ request \in Requests
    BY <2>1 DEF Pending, Quiet, TInv, AskedOK
  <2>3. CASE pc' = "wait" /\ Send(<<Abort(job.node)>> \o <<request>>)
    <3>1. Asked(to_node', request)
      BY <1>1, <2>1, <2>2, <2>3, EmptySends
    <3>2. OneExchange'
      BY <1>1, <2>1, <2>3, <3>1 DEF OneExchange, Pending
    <3>3. Requested' /\ Answered' /\ Written'
      BY <1>1, <2>1, <2>3 DEF Requested, RequestOf, Answered, Written
    <3>4. Ours'
      BY <1>1, <2>1, <2>3 DEF Calm, Ours, Begun, Pending
    <3> QED BY <1>2, <3>2, <3>3, <3>4 DEF Calm
  <2>4. CASE Ends("Timeout") /\ Send(<<Abort(job.node)>>)
    <3>1. Quiet(to_node')
      BY <1>1, <2>2, <2>4, QuietSends, AbortTyped
    <3>2. pc' = "done" /\ Written'
      BY <2>4 DEF Ends, Written
    <3> QED BY <1>1, <1>2, <2>1, <2>2, <3>1, <3>2, EndReal
  <2>5. job.type # "hb"
    BY <1>1 DEF Transferring
  <2> QED BY <2>1, <2>3, <2>4, <2>5 DEF Again
<1> QED BY <1>3, <1>4

\* ProcessReadSDOJob.
LEMMA GotReadReal ==
  ASSUME TInv, Calm, GotRead
  PROVE  Calm'
<1>1. /\ pc = "got" /\ job.type = "read" /\ pc' # "idle"
      /\ UNCHANGED <<queue, job, data, response, note, to_worker, server, regs,
                     held, took>>
  BY DEF GotRead, input, node, clients, books, Refuse, Continue, Ends
<1>2. Copied'
  BY <1>1 DEF Calm, Copied
<1>3. CASE \E r \in {"Access", "SegMismatch"} : Refuse(r)
  BY <1>1, <1>2, <1>3, RefuseReal
<1>4. CASE Continue(Segment("useg", FALSE, None, FALSE))
  <2>1. /\ Segment("useg", FALSE, None, FALSE) \in Requests
        /\ RequestOf(job, Segment("useg", FALSE, None, FALSE))
    BY <1>1, JobNode
       DEF Segment, SDO, Requests, SdoFrames, Named, Storable, RequestOf
  <2> QED BY <1>1, <1>2, <1>4, <2>1, ContinueReal
<1>5. CASE /\ pc' = "copy" /\ UNCHANGED <<request, tries, result, to_node>>
           /\ response.kind \in {"upload", "useg"}
  <2>1. ~Pending /\ ~Pending'
    BY <1>1, GotQuiet DEF Pending
  <2>2. OneExchange' /\ Requested' /\ Answered'
    BY <1>1, <1>5, <2>1, GotQuiet
       DEF OneExchange, Pending, Requested, RequestOf, Answered, Real
  <2>3. Ours' /\ Written' /\ OnlySDO'
    BY <1>1, <1>5, GotQuiet DEF Ours, Written, OnlySDO, Calm
  <2> QED BY <1>2, <2>2, <2>3 DEF Calm
<1> QED BY <1>3, <1>4, <1>5 DEF GotRead, Answers

\* What it copies is what the register holds.
LEMMA CopyReal ==
  ASSUME TInv, Calm, Copy
  PROVE  Calm'
<1>1. /\ pc = "copy" /\ job.type = "read" /\ pc' # "idle"
      /\ UNCHANGED <<queue, job, note, to_worker, server, regs, held, took>>
  BY DEF Copy, input, node, clients, books, Refuse, Continue, Ends, TInv, WorkerOK
<1>2. response.value = regs[job.node][job.reg] /\ regs[job.node][job.reg] \in Values
  <2>1. job.reg \in Registers /\ job.node \in Nodes
    BY <1>1 DEF TInv, WorkerOK, Jobs
  <2> QED BY <1>1, <2>1, GotQuiet DEF Calm, Answered, Real, TInv, NodeOK
<1>3. Copied'
  <2>1. /\ data \in Seq(Values) /\ regs[job.node][job.reg] \in held
        /\ \A i \in DOMAIN data : data[i] = regs[job.node][job.reg]
    BY <1>1 DEF Calm, Copied
  <2>2. data' = data \/ data' = Append(data, regs[job.node][job.reg])
    BY <1>2 DEF Copy
  <2> DEFINE v == regs[job.node][job.reg]
  <2> HIDE DEF v
  <2>3. /\ Append(data, v) \in Seq(Values) /\ Len(Append(data, v)) = Len(data) + 1
        /\ \A i \in 1 .. Len(data) : Append(data, v)[i] = data[i]
        /\ Append(data, v)[Len(data) + 1] = v
    BY <1>2, <2>1, AppendProperties DEF v
  <2>4. /\ Len(data) \in Nat /\ DOMAIN data = 1 .. Len(data)
        /\ DOMAIN Append(data, v) = 1 .. Len(data) + 1
    BY <2>1, <2>3, LenProperties
  <2>5. \A i \in DOMAIN Append(data, v) : Append(data, v)[i] = v
    BY <2>1, <2>3, <2>4 DEF v
  <2>6. data' \in Seq(Values) /\ \A i \in DOMAIN data' : data'[i] = v
    BY <2>1, <2>2, <2>3, <2>5 DEF v
  <2> QED BY <1>1, <2>1, <2>6 DEF Copied, v
<1>4. CASE \E r \in Results : /\ Ends(r)
                              /\ UNCHANGED to_node \/ Send(<<Abort(job.node)>>)
  <2>1. Quiet(to_node')
    BY <1>1, <1>4, GotQuiet, QuietSends, JobNode, AbortTyped DEF Quiet
  <2>2. pc' = "done" /\ Written'
    BY <1>1, <1>4 DEF Ends, Written
  <2> QED BY <1>1, <1>3, <2>1, <2>2, GotQuiet, EndReal
<1>5. CASE Continue(Segment("useg", ~request.toggle, None, FALSE))
  <2> DEFINE t == ~request.toggle
  <2>1. t \in BOOLEAN
    OBVIOUS
  <2> HIDE DEF t
  <2>2. /\ Segment("useg", t, None, FALSE) \in Requests
        /\ RequestOf(job, Segment("useg", t, None, FALSE))
    BY <1>1, <2>1, JobNode
       DEF Segment, SDO, Requests, SdoFrames, Named, Storable, RequestOf
  <2> QED BY <1>1, <1>3, <1>5, <2>2, ContinueReal DEF t
<1> QED BY <1>4, <1>5 DEF Copy, Results

\* ProcessWriteSDOJob: the answer to the last request says the value is taken.
LEMMA GotWriteReal ==
  ASSUME TInv, Calm, GotWrite
  PROVE  Calm'
<1>1. /\ pc = "got" /\ job.type = "write" /\ pc' # "idle" /\ job \in Jobs
      /\ UNCHANGED <<queue, job, response, note, to_worker, server, regs, held,
                     took>>
  BY DEF GotWrite, input, node, clients, books, Refuse, Continue, Ends, TInv,
     WorkerOK
<1>2. Copied'
  BY <1>1 DEF Copied
<1>3. job.arg \in Values
  BY <1>1 DEF Jobs
<1>4. CASE \E r \in {"Access", "SegMismatch"} : Refuse(r)
  BY <1>1, <1>2, <1>4, RefuseReal
<1>5. ASSUME NEW t \in BOOLEAN, NEW l \in BOOLEAN,
             Continue(Segment("dseg", t, job.arg, l))
      PROVE  Calm'
  <2>1. /\ Segment("dseg", t, job.arg, l) \in Requests
        /\ RequestOf(job, Segment("dseg", t, job.arg, l))
    BY <1>1, <1>3, JobNode, SegmentTyped DEF RequestOf, Segment
  <2> QED BY <1>1, <1>2, <1>5, <2>1, ContinueReal
<1>6. CASE /\ Ends("OK") /\ UNCHANGED to_node /\ request.last
           /\ response.kind \in {"download", "dseg"}
  <2>1. took
    BY <1>1, <1>6, GotQuiet DEF Real
  <2>2. Quiet(to_node')
    BY <1>1, <1>6, GotQuiet DEF Quiet
  <2>3. pc' = "done" /\ Written'
    BY <1>1, <1>6, <2>1 DEF Ends, Written
  <2> QED BY <1>1, <1>2, <2>2, <2>3, GotQuiet, EndReal
<1>7. CASE Continue(Segment("dseg", FALSE, job.arg, FALSE))
  <2>1. PICK t \in BOOLEAN : t = FALSE
    OBVIOUS
  <2> QED BY <1>5, <1>7, <2>1
<1>8. CASE Continue(Segment("dseg", ~request.toggle, job.arg, TRUE))
  <2>1. PICK t \in BOOLEAN : t = (~request.toggle)
    OBVIOUS
  <2>2. PICK l \in BOOLEAN : l = TRUE
    OBVIOUS
  <2> QED BY <1>5, <1>8, <2>1, <2>2
<1> QED BY <1>4, <1>6, <1>7, <1>8 DEF GotWrite, Answers

LEMMA ReturnReal ==
  ASSUME Calm, Return
  PROVE  Calm'
<1>1. /\ pc = "done" /\ pc' = "idle"
      /\ UNCHANGED <<queue, note, to_node, to_worker>>
  BY DEF Return, bus
<1>2. ~Pending' /\ Quiet(to_node')
  BY <1>1 DEF Calm, OneExchange, Pending, Quiet
<1>3. OnlySDO' /\ OneExchange'
  BY <1>1, <1>2 DEF Calm, OnlySDO, OneExchange, Pending
<1>4. Requested' /\ Answered' /\ Ours' /\ Copied' /\ Written'
  BY <1>1, <1>2 DEF Requested, Answered, Pending, Ours, Begun, Copied, Written
<1> QED BY <1>3, <1>4 DEF Calm

\* The answer arrives, or a frame is lost.
LEMMA FrameReal ==
  ASSUME TInv, Calm, IncomingFrame \/ Lose
  PROVE  Calm'
<1>1. /\ UNCHANGED <<queue, job, pc, request, data, result, server, regs, held,
                     took>>
  BY DEF IncomingFrame, Lose, worker, node, clients, books
<1>2. OnlySDO' /\ Requested' /\ Copied' /\ Written'
  BY <1>1 DEF Calm, OnlySDO, Requested, RequestOf, Copied, Written
<1>3. CASE to_worker # <<>> /\ to_worker' = Tail(to_worker) /\ to_node' = to_node
           /\ \/ UNCHANGED <<response, note>>
              \/ response' = Head(to_worker) /\ note' = TRUE
  <2>1. /\ pc = "wait" /\ to_node = <<>> /\ ~note /\ Len(to_worker) = 1
        /\ Real(to_worker[1])
    BY <1>3 DEF Calm, OneExchange, Pending, Answered
  <2>2. to_worker' = <<>> /\ Head(to_worker) = to_worker[1]
    <3>1. to_worker \in Seq(Replies)
      BY DEF TInv, ToldOK
    <3>2. /\ to_worker' \in Seq(Replies) /\ Len(to_worker') = 0
          /\ Head(to_worker) = to_worker[1]
      BY <1>3, <2>1, <3>1, HeadTailProperties
    <3> QED BY <3>2, EmptySeq
  <2>3. OneExchange'
    BY <1>1, <1>3, <2>1, <2>2 DEF OneExchange, Pending, Asked
  <2>4. Answered'
    BY <1>1, <1>3, <2>1, <2>2 DEF Answered, Real
  <2>5. Ours'
    BY <1>1, <1>3 DEF Calm, Ours, Begun, Pending
  <2> QED BY <1>2, <2>3, <2>4, <2>5 DEF Calm
<1>4. CASE /\ to_node # <<>> /\ to_node' = Tail(to_node)
           /\ UNCHANGED <<response, note, to_worker>>
  <2>1. ~Pending /\ ~Pending'
    BY <1>4 DEF Calm, OneExchange, Pending
  <2>2. OneExchange'
    <3>1. to_node \in Seq(Requests)
      BY DEF TInv, AskedOK
    <3>2. IF pc = "wait" THEN Asked(Tail(to_node), request)
          ELSE Quiet(Tail(to_node))
      BY <1>4, <3>1, AskedTail DEF Calm, OneExchange
    <3> QED BY <1>1, <1>4, <2>1, <3>2 DEF OneExchange, Pending
  <2>3. Answered'
    BY <1>1, <1>4 DEF Calm, Answered, Real
  <2>4. Ours'
    BY <1>1, <1>4 DEF Calm, Ours, Begun, Pending
  <2> QED BY <1>2, <2>2, <2>3, <2>4 DEF Calm
<1> QED BY <1>3, <1>4 DEF IncomingFrame, Lose, input

\* The node answers the request: in its transfer, and truly.
LEMMA NodeReal ==
  ASSUME TInv, Calm, NodeSDO
  PROVE  Calm'
<1> DEFINE f == Head(to_node)
           long == f.kind \in {"upload", "download"} /\ f.reg \in Long
           goesOn == f.kind \in {"useg", "dseg"} /\ Reply(f).kind = f.kind
           dir == IF job.type = "read" THEN "useg" ELSE "dseg"
           new == IF f.kind = "upload" THEN "useg" ELSE "dseg"
<1>1. /\ to_node # <<>> /\ to_node' = Tail(to_node)
      /\ to_worker' = IF f.kind = "abort" THEN to_worker
                      ELSE Append(to_worker, Reply(f))
      /\ UNCHANGED <<queue, job, pc, request, data, result, response, note>>
  BY DEF NodeSDO, worker, input, clients
<1>2. ~Pending /\ to_worker = <<>> /\ ~note
  BY <1>1 DEF Calm, OneExchange, Pending
<1>3. IF pc = "wait"
        THEN /\ Asked(Tail(to_node), request)
             /\ f.kind = "abort" \/ (f = request /\ Tail(to_node) = <<>>)
        ELSE Quiet(Tail(to_node)) /\ f.kind = "abort"
  <2>1. to_node \in Seq(Requests)
    BY DEF TInv, AskedOK
  <2> QED BY <1>1, <2>1, AskedTail DEF Calm, OneExchange
<1>4. OnlySDO' /\ Requested'
  BY <1>1 DEF Calm, OnlySDO, Requested, RequestOf
<1>5. CASE f.kind = "abort"
  <2>1. server' = [server EXCEPT ![f.node] = None]
    BY <1>5 DEF NodeSDO
  <2>2. to_worker' = to_worker /\ UNCHANGED <<regs, held, took>>
    BY <1>1, <1>5 DEF NodeSDO
  <2>6. ASSUME pc # "idle" PROVE server'[job.node] \in {server[job.node], None}
    <3>1. job.node \in Nodes /\ server \in [Nodes -> Transfers \cup {None}]
      BY <2>6, JobNode DEF TInv, ToldOK
    <3> QED BY <2>1, <3>1
  <2>3. OneExchange'
    BY <1>1, <1>2, <1>3, <2>2 DEF OneExchange, Pending
  <2>4. Answered' /\ Copied' /\ Written'
    BY <1>1, <1>2, <2>2 DEF Calm, Answered, Real, Copied, Written
  <2>5. Ours'
    BY <1>1, <1>2, <2>2, <2>6 DEF Calm, Ours, Begun, Pending
  <2> QED BY <1>4, <2>3, <2>4, <2>5 DEF Calm
<1>6. CASE f.kind # "abort"
  <2>1. pc = "wait" /\ f = request /\ to_node' = <<>>
    BY <1>1, <1>3, <1>6
  <2>2. job \in Jobs /\ job # None /\ job.type \in Transferring /\ RequestOf(job, f)
    BY <2>1 DEF Calm, OnlySDO, Requested, TInv, WorkerOK
  <2>3. job.reg \in Registers /\ job.node \in Nodes /\ f.node = job.node
    BY <2>2, ReadRequest, WriteRequest DEF Jobs, Transferring
  <2>4. f.kind \in {"upload", "download", "useg", "dseg"}
    BY <2>2, ReadRequest, WriteRequest DEF Transferring
  <2>5. to_worker' # <<>> /\ Len(to_worker') = 1 /\ to_worker'[1] = Reply(f)
    BY <1>1, <1>2, <2>4
  <2>6. OneExchange'
    BY <1>1, <1>2, <2>1, <2>5 DEF OneExchange, Pending, Asked
  <2>7. f.kind \in {"useg", "dseg"} /\ server[job.node] # None
          => server[job.node].reg = job.reg /\ server[job.node].dir = dir
    BY <2>1 DEF Calm, Ours, Begun
  <2>8. goesOn => /\ server[job.node] # None /\ server[job.node].dir = f.kind
                  /\ server[job.node] \in Transfers
                  /\ Reply(f).value = regs[job.node][server[job.node].reg]
    BY <2>3 DEF Reply, Abort, SDO, TInv, ToldOK
  <2>9. Ours'
    <3> DEFINE s == server[job.node]
    <3>1. /\ server \in [Nodes -> Transfers \cup {None}] /\ job' = job
          /\ \/ long /\ server' = [server EXCEPT ![job.node] = Transfer(new, f.reg, FALSE)]
             \/ goesOn /\ server' = [server EXCEPT ![job.node] =
                                       [s EXCEPT !.toggle = TRUE]]
             \/ server' = [server EXCEPT ![job.node] = None]
      BY <1>1, <2>3 DEF NodeSDO, TInv, ToldOK
    <3>2. CASE long /\ server' = [server EXCEPT ![job.node] = Transfer(new, f.reg, FALSE)]
      <4>1. f.reg = job.reg /\ (f.kind = "upload" <=> job.type = "read")
        BY <2>2, <3>2, ReadRequest, WriteRequest DEF Transferring
      <4>2. server'[job.node] = Transfer(new, f.reg, FALSE)
        BY <2>3, <3>1, <3>2
      <4> QED BY <1>1, <4>1, <4>2 DEF Ours, Transfer
    <3>3. CASE goesOn /\ server' = [server EXCEPT ![job.node] =
                                     [s EXCEPT !.toggle = TRUE]]
      <4>1. server'[job.node] = [s EXCEPT !.toggle = TRUE]
        BY <2>3, <3>1, <3>3
      <4>2. s \in Transfers /\ s.reg = job.reg /\ s.dir = dir
        BY <2>7, <2>8, <3>3
      <4>3. server'[job.node].reg = job.reg /\ server'[job.node].dir = dir
        <5> HIDE DEF s
        <5> QED BY <4>1, <4>2 DEF Transfers
      <4> QED BY <3>1, <4>3 DEF Ours
    <3>4. CASE server' = [server EXCEPT ![job.node] = None]
      <4>1. server'[job.node] = None
        BY <2>3, <3>1, <3>4
      <4> QED BY <3>1, <4>1 DEF Ours
    <3> QED BY <3>1, <3>2, <3>3, <3>4
  <2>10. CASE job.type = "read"
    <3>1. f.kind \in {"upload", "useg"} /\ (f.kind = "upload" => f.reg = job.reg)
      BY <2>2, <2>10, ReadRequest
    <3>2. UNCHANGED <<regs, held, took>>
      BY <3>1 DEF NodeSDO
    <3>3. Reply(f).kind \in {"upload", "useg"} => Reply(f).value = regs[job.node][job.reg]
      <4>1. CASE f.kind = "upload"
        BY <2>3, <3>1, <4>1 DEF Reply, SDO
      <4>2. CASE f.kind = "useg" /\ goesOn
        BY <2>7, <2>8, <4>2
      <4>3. CASE f.kind = "useg" /\ ~goesOn
        BY <4>3 DEF Reply, SDO, Abort
      <4> QED BY <3>1, <4>1, <4>2, <4>3
    <3>4. Answered'
      BY <1>1, <1>2, <2>1, <2>5, <2>10, <3>2, <3>3 DEF Answered, Real
    <3>5. Copied' /\ Written'
      BY <1>1, <3>2 DEF Calm, Copied, Written
    <3> QED BY <1>4, <2>6, <2>9, <3>4, <3>5 DEF Calm
  <2>11. CASE job.type = "write"
    <3>1. /\ f.kind \in {"download", "dseg"}
          /\ f.kind = "download" => /\ f.reg = job.reg
                                    /\ f.last = (job.reg \notin Long)
                                    /\ job.reg \notin Long => f.value = job.arg
          /\ f.kind = "dseg" => f.value = job.arg
      BY <2>2, <2>11, WriteRequest
    <3>2. Stored(job.node, job.reg, job.arg) => took'
      BY <2>2, <2>11 DEF Stored
    <3>3. Reply(f).kind \in {"download", "dseg"} /\ f.last => took'
      <4>1. CASE f.kind = "download"
        BY <2>3, <3>1, <3>2, <4>1 DEF NodeSDO
      <4>2. CASE f.kind = "dseg" /\ goesOn
        BY <2>3, <2>7, <2>8, <3>1, <3>2, <4>2 DEF NodeSDO
      <4>3. CASE f.kind = "dseg" /\ ~goesOn
        BY <4>3 DEF Reply, SDO, Abort
      <4> QED BY <3>1, <4>1, <4>2, <4>3
    <3>4. Answered'
      BY <1>1, <1>2, <2>1, <2>5, <2>11, <3>3 DEF Answered, Real
    <3>5. Copied' /\ Written'
      BY <1>1, <2>1, <2>11 DEF Copied, Written
    <3> QED BY <1>4, <2>6, <2>9, <3>4, <3>5 DEF Calm
  <2> QED BY <2>2, <2>10, <2>11 DEF Transferring
<1> QED BY <1>5, <1>6

LEMMA RealKept == TInv /\ RInv /\ [Next]_vars => RInv'
<1> SUFFICES ASSUME TInv, RInv, [Next]_vars, calm' PROVE Calm'
  BY DEF RInv
<1>1. calm /\ Calm
  <2>1. calm' = calm
    BY DEF Next, Worker, SubmitJob, ExecuteJob, ReceiveDone, Fetch, Close, Drop,
       Begin, Take, Timeout, GotState, GotRead, Copy, GotWrite, Return,
       IncomingFrame, Lose, NodeSDO, NodeNMT, NodeReports, vars
  <2> QED BY <2>1 DEF RInv
<1>2. CASE UNCHANGED vars
  <2>1. OnlySDO'
    BY <1>1, <1>2 DEF vars, worker, clients, Calm, OnlySDO
  <2> QED BY <1>1, <1>2, <2>1, ApartReal DEF vars, books
<1>3. ~GotState
  BY <1>1 DEF GotState, Calm, OnlySDO, Transferring
<1>4. ~NodeNMT
  <2> SUFFICES ASSUME NodeNMT PROVE FALSE
    OBVIOUS
  <2>1. to_node # <<>> /\ Head(to_node).on = "nmt" /\ to_node \in Seq(Requests)
    BY DEF NodeNMT, TInv, AskedOK
  <2>2. Head(to_node).kind = "abort" \/ (pc = "wait" /\ Head(to_node) = request)
    BY <1>1, <2>1, AskedTail DEF Calm, OneExchange
  <2>4. Head(to_node).kind # "abort"
    BY <2>1, BusTyped DEF Requests, SdoFrames
  <2>3. pc = "wait" => request.on = "sdo"
    <3> SUFFICES ASSUME pc = "wait" PROVE request.on = "sdo"
      OBVIOUS
    <3>1. job \in Jobs /\ job.type \in Transferring /\ RequestOf(job, request)
      BY <1>1 DEF Calm, OnlySDO, Requested, TInv, WorkerOK
    <3> QED BY <3>1, ReadRequest, WriteRequest DEF Transferring
  <2> QED BY <2>1, <2>2, <2>3, <2>4
<1>5. \A n \in Nodes : ~NodeReports(n)
  BY <1>1 DEF NodeReports
<1>6. CASE Worker
  BY <1>1, <1>3, <1>6, StartReal, WaitReal, GotReadReal, CopyReal, GotWriteReal,
     ReturnReal DEF Worker
<1>7. CASE \/ \E j \in Uses(calm) :
                SubmitJob(j) \/ \E t \in Tasks : ExecuteJob(t, j)
           \/ \E t \in Tasks : ReceiveDone(t)
           \/ Fetch \/ Close
  BY <1>1, <1>7, ClientsReal
<1>8. CASE IncomingFrame \/ Lose
  BY <1>1, <1>8, FrameReal
<1>9. CASE NodeSDO
  BY <1>1, <1>9, NodeReal
<1> QED BY <1>2, <1>4, <1>5, <1>6, <1>7, <1>8, <1>9 DEF Next

LEMMA RealGives == TInv /\ RInv => SdoIsReal
<1> SUFFICES ASSUME TInv, Calm, pc = "done", result = "OK"
             PROVE  /\ job.type = "read" =>
                         \E v \in held : \A i \in DOMAIN data : data[i] = v
                    /\ job.type = "write" => took
  BY DEF RInv, SdoIsReal
<1> QED BY DEF Calm, Copied, Written

\* COR_OK is true: of NMT, heartbeat and SDO jobs on any bus as above; and of a
\* read or write, on a bus on which no answer comes after its timeout, also that
\* the value was the register's throughout, or was taken by the node, whatever
\* frames are lost and repeated, for any registers (of one or two segments) and
\* any number of tries.
THEOREM CanOpenOkIsReal == Spec => []OkIsReal
<1>1. Spec => [](TInv /\ RInv)
  BY TypesInit, TypesKept, RealInit, RealKept, PTL DEF Spec
<1> QED BY <1>1, RealGives, CanOpenConfirmedByNode, PTL DEF OkIsReal

=============================================================================
