------------------------------- MODULE CanOpen -------------------------------
(***************************************************************************)
(* The CANopen worker (components/canopen): one task that works through a  *)
(* queue of jobs, each a conversation with a node on the bus.  Clients of  *)
(* two kinds submit jobs: a synchronous one, shared by tasks that wait for *)
(* their result, and an asynchronous one.  The CAN receive task puts the   *)
(* last frame with the job's ID into m_response and notifies the worker;   *)
(* a notification not taken yet is not counted twice, and one that a job   *)
(* leaves is the next job's, whatever node and frame it was for.           *)
(*                                                                         *)
(* The nodes and the bus are external.  The bus keeps the order of frames  *)
(* and may lose them.  On a calm bus a reply comes, if it comes, before    *)
(* its request has timed out, and only SDO jobs are submitted; otherwise   *)
(* anything may be late.                                                   *)
(* Abstracted: the bytes.  A register is one value long, or, if it needs   *)
(* two segments, two.  EMCY frames and the metrics touch no job.           *)
(***************************************************************************)
EXTENDS Naturals, Sequences

CONSTANTS
  Tasks,        \* the tasks that share the synchronous client
  Nodes,        \* the nodes on the bus
  Registers, Long, \* a node's SDO registers, and those of two segments
  Values,       \* what a register holds
  Commands,     \* the NMT commands used
  MaxTries,     \* maxtries of a job, 3 by default
  QueueSize,    \* of m_jobqueue, 20
  DoneSize,     \* of the asynchronous client's m_done_queue, 20
  Uses(_),      \* bound: the jobs submitted, on a calm bus and on another
  MaxJobs,      \* bound: jobs submitted in a behaviour
  Depth, Back,  \* bounds: frames under way to the nodes, and from them
  None

ASSUME CanOpenAssumption ==
  /\ Long \subseteq Registers /\ Values # {}
  /\ Commands \subseteq {"Start", "Stop", "PreOp", "Reset", "CommReset"}
  /\ {MaxTries, QueueSize, DoneSize, Depth, Back} \subseteq Nat \ {0}
  /\ MaxJobs \in Nat
  /\ None \notin Tasks \cup Nodes \cup Values \cup Nat

Clients == {"sync", "async"}

\* CANopenJob; room is bufsize as the number of segments that fit.
Jobs ==
  [id : 1 .. MaxJobs, client : Clients, node : Nodes, type : {"read"},
   reg : Registers, room : {0, 2}] \cup
  [id : 1 .. MaxJobs, client : Clients, node : Nodes, type : {"write"},
   reg : Registers, arg : Values] \cup
  [id : 1 .. MaxJobs, client : Clients, node : Nodes, type : {"nmt"},
   arg : Commands, wait : BOOLEAN] \cup
  [id : 1 .. MaxJobs, client : Clients, node : Nodes, type : {"hb"}]

ASSUME UsesAssumption ==
  /\ \A c \in BOOLEAN : Uses(c) \subseteq Jobs
  /\ \A j \in Uses(TRUE) : j.type \in {"read", "write"}
  /\ None \notin Jobs

\* A frame with the ID of an SDO request to or a reply of node n, of its
\* heartbeat, or of NMT.
SDO(n, kind, reg, toggle, value, last) ==
  [on |-> "sdo", node |-> n, kind |-> kind, reg |-> reg, toggle |-> toggle,
   value |-> value, last |-> last]
Abort(n) == SDO(n, "abort", None, FALSE, None, FALSE)
Heartbeat(n, s) == [on |-> "hb", node |-> n, kind |-> "hb", state |-> s]
NMT(n, c) == [on |-> "nmt", node |-> n, kind |-> "nmt", command |-> c]

\* m_request and m_response when nothing of them is used.
Blank == Abort(None)

\* Node states (CANopenNMTState_t).
Booting == 0
Stopped == 4
Operational == 5
PreOperational == 127
States == {Booting, Stopped, Operational, PreOperational}

VARIABLES
  calm,         \* the bus answers in time, and heartbeats are not asked for
  queue,        \* m_jobqueue
  job,          \* m_job; None is COJT_None
  pc,           \* the worker: idle, wait, got, copy or done
  request,      \* m_request, or the NMT frame
  tries,        \* m_job.trycnt
  data,         \* what a read has copied, or a write has sent
  result,       \* m_job.result
  response,     \* m_response
  note,         \* the worker's task notification
  to_node, to_worker,          \* frames under way
  server,       \* per node: its SDO transfer, or None
  regs, state,  \* per node: its registers and its state
  waiting,      \* per task: the job ExecuteJob waits for, or None (the mutex)
  open,         \* the clients in m_clients
  finished,     \* m_done_queue
  next,         \* the number of the next job
  held,         \* history: what the job's register held since the job began
  took,         \* history: the node took the job's value since then
  left,         \* history: a notification from before the job is "pending" or
                \* was "taken", or else "no"
  reported      \* history: what the nodes have said

worker == <<job, pc, request, tries, data, result>>
input == <<response, note>>
bus == <<to_node, to_worker>>
node == <<server, regs, state>>
clients == <<queue, waiting, open, finished, next>>
books == <<held, took, left, reported>>
vars == <<calm, worker, input, bus, node, clients, books>>

Init ==
  /\ calm \in BOOLEAN
  /\ queue = <<>> /\ job = None /\ pc = "idle" /\ request = Blank
  /\ tries = 0 /\ data = <<>> /\ result = "OK"
  /\ response = Blank /\ note = FALSE
  /\ to_node = <<>> /\ to_worker = <<>>
  /\ server = [n \in Nodes |-> None]
  /\ \E v \in Values : regs = [n \in Nodes |-> [r \in Registers |-> v]]
  /\ state = [n \in Nodes |-> PreOperational]
  /\ waiting = [t \in Tasks |-> None] /\ open = Clients
  /\ finished = [c \in Clients |-> <<>>] /\ next = 1
  /\ held = {} /\ took = FALSE /\ left = "no" /\ reported = {}

-----------------------------------------------------------------------------
(* Clients.                                                                *)

\* Mutant of MutexFree: the tasks do not wait for each other.
Unlocked == TRUE

MutexFree == \A t \in Tasks : waiting[t] = None

\* Mutant of HasRoom: one too many.
HasRoomForMore == Len(queue) <= QueueSize

HasRoom == Len(queue) < QueueSize

Job(j) == j.id = next /\ j \in Uses(calm)

\* ExecuteJob: the mutex, SubmitJob, and then ReceiveDone without a limit.
ExecuteJob(t, j) ==
  /\ MutexFree /\ waiting[t] = None /\ Job(j) /\ j.client = "sync"
  /\ HasRoom
  /\ queue' = Append(queue, j) /\ next' = next + 1
  /\ waiting' = [waiting EXCEPT ![t] = j.id]
  /\ UNCHANGED <<calm, worker, input, bus, node, open, finished, books>>

ReceiveDone(t) ==
  /\ waiting[t] # None /\ finished["sync"] # <<>>
  /\ waiting' = [waiting EXCEPT ![t] = None]
  /\ finished' = [finished EXCEPT !["sync"] = Tail(@)]
  /\ UNCHANGED <<calm, worker, input, bus, node, queue, open, next, books>>

\* The asynchronous client: SubmitJob, ReceiveDone, and its destructor.
SubmitJob(j) ==
  /\ "async" \in open /\ Job(j) /\ j.client = "async" /\ HasRoom
  /\ queue' = Append(queue, j) /\ next' = next + 1
  /\ UNCHANGED <<calm, worker, input, bus, node, waiting, open, finished,
                 books>>

Fetch ==
  /\ "async" \in open /\ finished["async"] # <<>>
  /\ finished' = [finished EXCEPT !["async"] = Tail(@)]
  /\ UNCHANGED <<calm, worker, input, bus, node, queue, waiting, open, next,
                 books>>

Close ==
  /\ "async" \in open /\ open' = open \ {"async"}
  /\ finished' = [finished EXCEPT !["async"] = <<>>]
  /\ UNCHANGED <<calm, worker, input, bus, node, queue, waiting, next, books>>

-----------------------------------------------------------------------------
(* JobTask.                                                                *)

\* The result of a transmission is ignored: what finds no room is lost.
Send(fs) ==
  LET all == to_node \o fs IN
  to_node' = [i \in {k \in DOMAIN all : k <= Depth} |-> all[i]]

\* The request with which job j begins; a job that waits for a heartbeat
\* sends none.
FirstRequest(j) ==
  CASE j.type = "read" -> SDO(j.node, "upload", j.reg, FALSE, None, FALSE)
    [] j.type = "write" ->
         SDO(j.node, "download", j.reg, FALSE,
             IF j.reg \in Long THEN None ELSE j.arg, j.reg \notin Long)
    [] j.type = "nmt" -> NMT(j.node, j.arg)

Ends(r) == pc' = "done" /\ result' = r

\* A client that vanished leaves m_job set: frames are still matched to it, and
\* notify the worker.
Drop ==
  /\ pc = "idle" /\ queue # <<>> /\ Head(queue).client \notin open
  /\ job' = Head(queue) /\ queue' = Tail(queue)
  /\ UNCHANGED <<calm, pc, request, tries, data, result, input, bus, node,
                 waiting, open, finished, next, books>>

\* The next job: it is refused when the bus is not active, and ends at once
\* when it is an NMT command that waits for nothing.
Begin ==
  LET j == Head(queue)
      r == FirstRequest(j) IN
  /\ pc = "idle" /\ queue # <<>> /\ j.client \in open
  /\ queue' = Tail(queue) /\ job' = j
  /\ tries' = 1 /\ data' = <<>>
  /\ held' = IF j.type \in {"read", "write"} THEN {regs[j.node][j.reg]} ELSE {}
  /\ took' = FALSE /\ left' = IF note THEN "pending" ELSE "no"
  /\ \/ /\ j.type = "hb"
        /\ pc' = "wait" /\ UNCHANGED <<request, result, to_node>>
     \/ /\ j.type # "hb"
        /\ request' = r /\ Send(<<r>>)
        /\ IF j.type = "nmt" /\ ~j.wait
             THEN Ends("OK")
             ELSE pc' = "wait" /\ UNCHANGED result
     \/ /\ j.type # "hb"
        /\ Ends("NoCANWrite") /\ UNCHANGED <<request, to_node>>
  /\ UNCHANGED <<calm, input, to_worker, node, waiting, open, finished, next,
                 reported>>

\* ulTaskNotifyTake(pdTRUE, ...) clears the notification.
Take ==
  /\ pc = "wait" /\ note
  /\ note' = FALSE /\ pc' = "got"
  /\ left' = IF left = "pending" THEN "taken" ELSE left
  /\ UNCHANGED <<calm, job, request, tries, data, result, response, bus, node,
                 clients, held, took, reported>>

\* Mutant of MayRetry: without an end.
Endless == TRUE

MayRetry == tries < MaxTries

Again(fs) ==
  /\ IF MayRetry
       THEN /\ tries' = IF tries < MaxTries THEN tries + 1 ELSE tries
            /\ Send(fs \o (IF job.type = "hb" THEN <<>> ELSE <<request>>))
            /\ pc' = "wait" /\ UNCHANGED result
       ELSE /\ Send(fs) /\ Ends("Timeout") /\ UNCHANGED tries
  /\ UNCHANGED <<job, request, data>>

\* No notification within the timeout: an SDO request is aborted, and repeated.
Timeout ==
  /\ pc = "wait" /\ ~note
  /\ calm => to_node = <<>> /\ to_worker = <<>>
  /\ Again(IF job.type \in {"read", "write"} THEN <<Abort(job.node)>> ELSE <<>>)
  /\ UNCHANGED <<calm, input, to_worker, node, clients, books>>

\* What the first byte of m_response may be: its state if it is a heartbeat.  An
\* SDO reply to an earlier job may have been left there: that of a segment holds
\* the toggle, the number of unused bytes and the end; 64 stands for the others
\* (32, 48, 64 .. 79, 96, 128), which NMT jobs do not tell apart.
StateIn(f) ==
  IF f.on = "hb" THEN {f.state}
  ELSE IF f.kind = "useg"
    THEN {(IF f.toggle THEN 16 ELSE 0) + 2 * unused + (IF f.last THEN 1 ELSE 0) :
            unused \in 0 .. 7}
  ELSE {64}

\* ProcessSendNMTJob's test.
Expected(c, s) ==
  \/ c = "Start" /\ s >= 5
  \/ c = "Stop" /\ s = 4
  \/ c = "PreOp" /\ s = 127
  \/ c \in {"Reset", "CommReset"} /\ s # 4

\* A heartbeat job returns the state; an NMT job with another state than its own
\* waits anew.
GotState ==
  /\ pc = "got" /\ job.type \in {"nmt", "hb"}
  /\ \E s \in StateIn(response) :
       \/ /\ job.type = "nmt" => Expected(job.arg, s)
          /\ Ends("OK") /\ data' = IF job.type = "hb" THEN <<s>> ELSE data
          /\ UNCHANGED <<job, request, tries, to_node, left>>
       \/ /\ job.type = "nmt" /\ ~Expected(job.arg, s)
          /\ Again(<<>>) /\ left' = "no"
  /\ UNCHANGED <<calm, input, to_worker, node, clients, held, took, reported>>

\* The reply to the first request names the register.
Answers(kind) == response.kind = kind /\ response.reg = job.reg

\* The next request of a segmented transfer.
Continue(r) ==
  /\ request' = r /\ tries' = 1
  /\ Send(<<r>>) /\ pc' = "wait" /\ UNCHANGED result

Segment(kind, toggle, value, last) ==
  SDO(job.node, kind, None, toggle, value, last)

Refuse(r) ==
  /\ Ends(r)
  /\ IF r = "SegMismatch" THEN Send(<<Abort(job.node)>>) ELSE UNCHANGED to_node
  /\ UNCHANGED <<request, tries>>

\* ProcessReadSDOJob, up to where it copies: m_response may change before.
GotRead ==
  /\ pc = "got" /\ job.type = "read"
  /\ \/ /\ request.kind = "upload"
        /\ IF ~Answers("upload") THEN Refuse("Access")
           ELSE IF response.last
                  THEN pc' = "copy" /\ UNCHANGED <<request, tries, result, to_node>>
                  ELSE Continue(Segment("useg", FALSE, None, FALSE))
     \/ /\ request.kind = "useg"
        /\ IF response.kind = "useg" /\ response.toggle = request.toggle
             THEN pc' = "copy" /\ UNCHANGED <<request, tries, result, to_node>>
             ELSE Refuse("SegMismatch")
  /\ UNCHANGED <<calm, job, data, input, to_worker, node, clients, books>>

Copy ==
  /\ pc = "copy"
  /\ data' = IF job.room = 0 THEN data ELSE Append(data, response.value)
  /\ \/ /\ job.room = 0
        /\ Ends("BufferTooSmall") /\ UNCHANGED <<request, tries>>
        /\ IF response.last THEN UNCHANGED to_node ELSE Send(<<Abort(job.node)>>)
     \/ /\ job.room > 0 /\ response.last
        /\ Ends("OK") /\ UNCHANGED <<request, tries, to_node>>
     \/ /\ job.room > 0 /\ ~response.last
        /\ Continue(Segment("useg", ~request.toggle, None, FALSE))
  /\ UNCHANGED <<calm, job, input, to_worker, node, clients, books>>

\* ProcessWriteSDOJob: data is what has been sent in segments.
GotWrite ==
  /\ pc = "got" /\ job.type = "write"
  /\ \/ /\ request.kind = "download"
        /\ IF ~Answers("download") THEN Refuse("Access") /\ UNCHANGED data
           ELSE IF request.last
                  THEN Ends("OK") /\ UNCHANGED <<request, tries, data, to_node>>
                  ELSE /\ Continue(Segment("dseg", FALSE, job.arg, FALSE))
                       /\ data' = <<job.arg>>
     \/ /\ request.kind = "dseg"
        /\ IF response.kind # "dseg" \/ response.toggle # request.toggle
             THEN Refuse("SegMismatch") /\ UNCHANGED data
           ELSE IF request.last
             THEN Ends("OK") /\ UNCHANGED <<request, tries, data, to_node>>
             ELSE /\ Continue(Segment("dseg", ~request.toggle, job.arg, TRUE))
                  /\ data' = Append(data, job.arg)
  /\ UNCHANGED <<calm, job, input, to_worker, node, clients, books>>

\* SubmitDoneCallback, if the client is still there: the result is lost when
\* its queue is full.  What the next job does not look at is forgotten.
Return ==
  LET c == job.client
      size == IF c = "sync" THEN 1 ELSE DoneSize IN
  /\ pc = "done"
  /\ finished' = IF c \in open /\ Len(finished[c]) < size
                   THEN [finished EXCEPT ![c] = Append(@, job.id)] ELSE finished
  /\ job' = None /\ pc' = "idle" /\ request' = Blank
  /\ tries' = 0 /\ data' = <<>> /\ result' = "OK"
  /\ held' = {} /\ took' = FALSE /\ left' = "no"
  /\ response' = IF note THEN response ELSE Blank
  /\ UNCHANGED <<calm, note, bus, node, queue, waiting, open, next, reported>>

-----------------------------------------------------------------------------
(* The bus and the nodes.                                                  *)

\* Mutant of RxID: the ID without the node.
AnyNode(j) ==
  {IF j.type \in {"read", "write"} THEN "sdo" ELSE "hb"} \X Nodes

\* rxid, as a set: an NMT job that does not wait has none (0).
RxID(j) ==
  CASE j.type \in {"read", "write"} -> {<<"sdo", j.node>>}
    [] j.type = "nmt" /\ ~j.wait -> {}
    [] OTHER -> {<<"hb", j.node>>}

\* The frame has job j's ID.
Matches(f, j) == <<f.on, f.node>> \in RxID(j)

\* CanRxTask and IncomingFrame.
IncomingFrame ==
  LET f == Head(to_worker) IN
  /\ to_worker # <<>>
  /\ to_worker' = Tail(to_worker)
  /\ IF job # None /\ Matches(f, job)
       THEN /\ response' = f /\ note' = TRUE
            /\ left' = IF left = "pending" THEN "no" ELSE left
       ELSE UNCHANGED <<input, left>>
  /\ UNCHANGED <<calm, worker, to_node, node, clients, held, took, reported>>

Lose ==
  /\ \/ to_node # <<>> /\ to_node' = Tail(to_node) /\ UNCHANGED to_worker
     \/ to_worker # <<>> /\ to_worker' = Tail(to_worker) /\ UNCHANGED to_node
  /\ UNCHANGED <<calm, worker, input, node, clients, books>>

\* What a frame of a node says, of its state or of a register.
Said(f) ==
  IF f.on = "hb" THEN {<<f.node, "state", f.state>>}
  ELSE IF f.kind \in {"upload", "download"} THEN {<<f.node, f.kind, f.reg>>}
  ELSE {}

\* Its node's answer to SDO request f, and the transfer it is then in.
Reply(f) ==
  LET n == f.node
      s == server[n] IN
  CASE f.kind = "upload" ->
         SDO(n, "upload", f.reg, FALSE, regs[n][f.reg], f.reg \notin Long)
    [] f.kind = "download" -> SDO(n, "download", f.reg, FALSE, None, FALSE)
    [] f.kind \in {"useg", "dseg"} /\ s # None
         /\ s.dir = f.kind /\ s.toggle = f.toggle ->
         SDO(n, f.kind, None, f.toggle, regs[n][s.reg],
             f.kind = "useg" /\ s.toggle)
    [] OTHER -> Abort(n)

Transfer(dir, reg, toggle) == [dir |-> dir, reg |-> reg, toggle |-> toggle]

Stored(n, r, v) ==
  /\ regs' = [regs EXCEPT ![n][r] = v]
  /\ IF job # None /\ job.type \in {"read", "write"} /\ job.node = n /\ job.reg = r
       THEN /\ held' = held \cup {v}
            /\ took' = (took \/ (job.type = "write" /\ job.arg = v))
       ELSE UNCHANGED <<held, took>>

NodeSDO ==
  LET f == Head(to_node)
      n == f.node
      long == f.kind \in {"upload", "download"} /\ f.reg \in Long
      goesOn == f.kind \in {"useg", "dseg"} /\ Reply(f).kind = f.kind
  IN
  /\ to_node # <<>> /\ f.on = "sdo" /\ Len(to_worker) < Back
  /\ to_node' = Tail(to_node)
  /\ IF f.kind = "abort" THEN UNCHANGED <<to_worker, reported>>
     ELSE /\ to_worker' = Append(to_worker, Reply(f))
          /\ reported' = reported \cup Said(Reply(f))
  /\ server' = [server EXCEPT ![n] =
       IF long
         THEN Transfer(IF f.kind = "upload" THEN "useg" ELSE "dseg", f.reg, FALSE)
       ELSE IF goesOn /\ ~f.toggle THEN [@ EXCEPT !.toggle = TRUE]
       ELSE None]
  /\ \/ f.kind = "download" /\ ~long /\ Stored(n, f.reg, f.value)
     \/ goesOn /\ f.kind = "dseg" /\ f.last /\ Stored(n, server[n].reg, f.value)
     \/ /\ ~(f.kind = "download" /\ ~long)
        /\ ~(goesOn /\ f.kind = "dseg" /\ f.last)
        /\ UNCHANGED <<regs, held, took>>
  /\ UNCHANGED <<calm, worker, input, state, clients, left>>

NodeNMT ==
  LET f == Head(to_node) IN
  /\ to_node # <<>> /\ f.on = "nmt"
  /\ to_node' = Tail(to_node)
  /\ state' = [state EXCEPT ![f.node] =
       CASE f.command = "Start" -> Operational
         [] f.command = "Stop" -> Stopped
         [] f.command = "PreOp" -> PreOperational
         [] OTHER -> Booting]
  /\ UNCHANGED <<calm, worker, input, to_worker, server, regs, clients, books>>

\* A node reports its state when it likes; after booting it is preoperational.
NodeReports(n) ==
  LET f == Heartbeat(n, state[n]) IN
  /\ ~calm /\ Len(to_worker) < Back
  /\ to_worker' = Append(to_worker, f)
  /\ reported' = reported \cup Said(f)
  /\ state' = IF state[n] = Booting
                THEN [state EXCEPT ![n] = PreOperational] ELSE state
  /\ UNCHANGED <<calm, worker, input, to_node, server, regs, clients, held,
                 took, left>>

-----------------------------------------------------------------------------
Worker ==
  \/ Drop \/ Begin \/ Take \/ Timeout
  \/ GotState \/ GotRead \/ Copy \/ GotWrite \/ Return

Next ==
  \/ \E j \in Uses(calm) : SubmitJob(j) \/ (\E t \in Tasks : ExecuteJob(t, j))
  \/ \E t \in Tasks : ReceiveDone(t)
  \/ Fetch \/ Close
  \/ Worker
  \/ IncomingFrame \/ Lose
  \/ NodeSDO \/ NodeNMT \/ (\E n \in Nodes : NodeReports(n))

Spec == Init /\ [][Next]_vars

\* The worker and the receive task go on, and frames reach the node or not.
FairSpec ==
  /\ Spec
  /\ WF_vars(Worker) /\ WF_vars(IncomingFrame) /\ WF_vars(NodeSDO \/ NodeNMT)
  /\ \A t \in Tasks : WF_vars(ReceiveDone(t))

-----------------------------------------------------------------------------
(* What the module promises.                                               *)

\* The types of the variables.
TypeOK ==
  /\ calm \in BOOLEAN
  /\ queue \in Seq(Jobs) /\ Len(queue) <= QueueSize
  /\ job \in Jobs \cup {None} /\ pc \in {"idle", "wait", "got", "copy", "done"}
  /\ pc # "idle" => job # None
  /\ tries \in 0 .. MaxTries
  /\ result \in {"OK", "NoCANWrite", "Timeout", "Access", "SegMismatch",
                 "BufferTooSmall"}
  /\ note \in BOOLEAN
  /\ Len(to_node) <= Depth /\ Len(to_worker) <= Back
  /\ regs \in [Nodes -> [Registers -> Values]] /\ state \in [Nodes -> States]
  /\ waiting \in [Tasks -> (1 .. MaxJobs) \cup {None}]
  /\ open \subseteq Clients /\ "sync" \in open
  /\ \A c \in Clients : finished[c] \in Seq(1 .. MaxJobs)
  /\ next \in 1 .. MaxJobs + 1
  /\ held \subseteq Values /\ took \in BOOLEAN /\ left \in {"no", "pending", "taken"}
  /\ reported \subseteq Nodes \X {"state"} \X States \cup
                     Nodes \X {"upload", "download"} \X Registers

\* A task that waits in ExecuteJob gets the result of its own job, though tasks
\* share the client, its queue of one result and the worker.
OwnResult ==
  [][\A t \in Tasks :
       ReceiveDone(t) => Head(finished["sync"]) = waiting[t]]_vars

\* COR_OK, of a job that was not misled by a notification from before it.
Confirmed == pc = "done" /\ result = "OK" /\ left # "taken"

\* On any bus, lossy and late: the job's own node has reported the state that Stop
\* or PreOp waited for, and the state that a heartbeat job returns; no other node,
\* and no byte of an SDO reply, is taken for it.
StateIsReal ==
  Confirmed =>
    /\ job.type = "nmt" /\ job.wait =>
         /\ job.arg = "Stop" => <<job.node, "state", Stopped>> \in reported
         /\ job.arg = "PreOp" => <<job.node, "state", PreOperational>> \in reported
    /\ job.type = "hb" => <<job.node, "state", data[1]>> \in reported

\* On any bus: the job's own node has answered a request to read, or to write, the
\* job's register; a late answer of another node or for another register is not
\* taken for it.
AnswerIsReal ==
  Confirmed =>
    /\ job.type = "read" => <<job.node, "upload", job.reg>> \in reported
    /\ job.type = "write" => <<job.node, "download", job.reg>> \in reported

\* On a calm bus, whatever is lost and repeated: what was read is what the
\* register held meanwhile, from the first to the last segment, and what was
\* written was taken by the node.  An answer after its timeout is excluded here:
\* the code takes it for the answer to a later request for the same register.
SdoIsReal ==
  calm /\ pc = "done" /\ result = "OK" =>
    /\ job.type = "read" => \E v \in held : \A i \in DOMAIN data : data[i] = v
    /\ job.type = "write" => took

OkIsReal == StateIsReal /\ AnswerIsReal /\ SdoIsReal

\* What the API's documentation says of COR_OK after CONC_Start with
\* wait_for_state: "node #2 is now started".
StartedIsStarted ==
  pc = "done" /\ result = "OK" /\ job.type = "nmt" /\ job.wait =>
    (job.arg = "Start" => <<job.node, "state", Operational>> \in reported)

\* ExecuteJob returns, whatever is lost: its wait has no limit of its own.
JobsEnd ==
  \A t \in Tasks : \A i \in 1 .. MaxJobs : waiting[t] = i ~> waiting[t] # i
=============================================================================
