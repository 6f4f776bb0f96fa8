----------------------------- MODULE OvmsNotify -----------------------------
(***************************************************************************)
(* OvmsNotify (main/ovms_notify.{h,cpp}) and its readers.  A notification  *)
(* is an entry with one bit for each reader that still has to process it;  *)
(* the entry is deleted with its last bit.  Three kinds of reader:         *)
(* Pushover (NORMAL verbosity, done within its callback), a server         *)
(* (VERBOSE; sends at once or looks for the entry later), and the clients  *)
(* of the web server (VERBOSE; components/ovms_webserver), which keep a    *)
(* POINTER to the entry in a job queue, or in a backlog shared by all      *)
(* clients when the client list is locked, until they have sent it.        *)
(*                                                                         *)
(* Raising holds the notify mutex; the web server's task, its timer and    *)
(* the server's task run beside it.  The client list is only tried, never  *)
(* waited for, by the callbacks: busy says whose attempt failed.           *)
(* Abstracted: the texts (big: longer than NORMAL allows), the types and   *)
(* the configured filters.  One type stands for info, error and alert.     *)
(***************************************************************************)
EXTENDS Naturals, FiniteSets, SequencesExt

CONSTANTS
  Web,          \* client slots of the web server
  Push, Server, \* the reader numbers of Pushover and of the server
  MaxId,        \* bound: entries raised in a behaviour
  JobSize,      \* size of a client's job queue (50 in the build)
  BacklogSize,  \* size of the backlog (50)
  None

Readers == Web \cup {Push, Server}
Ids == 1 .. MaxId

ASSUME ReadersAssumption ==
  /\ Push # Server /\ {Push, Server} \cap Web = {} /\ IsFiniteSet(Web)
  /\ MaxId \in Nat /\ JobSize \in Nat \ {0} /\ BacklogSize \in Nat \ {0}
  /\ None \notin Ids

VARIABLES
  next,         \* m_nextid
  live,         \* the entries in m_entries: those not deleted
  pending,      \* m_pendingreaders
  todo,         \* NotifyCommand between its two entries: readers of the second
  state,        \* of a slot: closed, open, or closing (and the list locked)
  jobs, job,    \* a client's m_jobqueue, and the entry it is sending
  backlog,      \* m_client_backlog
  owed,         \* history: the readers an entry was raised for, less those that
                \* have processed it, lost it with a log line, or left
  unasked,      \* history: entries delivered to a client without its bit
  orphaned      \* history: backlog entries whose client closed

entries == <<next, live, pending, todo>>
clients == <<state, jobs, job, backlog>>
books == <<owed, unasked, orphaned>>
vars == <<entries, clients, books>>

Init ==
  /\ next = 1 /\ live = {} /\ todo = None
  /\ pending = [e \in Ids |-> {}]
  /\ state = [w \in Web |-> "closed"]
  /\ jobs = [w \in Web |-> <<>>] /\ job = [w \in Web |-> None]
  /\ backlog = <<>>
  /\ owed = [e \in Ids |-> {}] /\ unasked = {} /\ orphaned = {}

-----------------------------------------------------------------------------
(* Entries.                                                                *)

Registered == {Push, Server} \cup {w \in Web : state[w] # "closed"}

\* OvmsNotifyCallbackEntry::Accepts: by size, then by the reader's filter.  A
\* web client's filter passes when it cannot lock the list.
Accepts(r, big) == r \in Registered /\ (r = Push => ~big)
Accepting(big) == {r \in Readers : Accepts(r, big)}

\* Cleanup, after the bits have become p.
Uncleared(p) == {e \in live : p[e] # {}}

\* The list is locked by a client that closes; otherwise by anyone's chance.
Locked == \E w \in Web : state[w] = "closing"

Room(q, size) == Len(q) < size

\* Mutant of Fitting: one too many.
FittingOneMore(q) ==
  [i \in {j \in DOMAIN q : j + Len(backlog) <= BacklogSize + 1} |-> q[i]]

\* The part of the sequence q that fits in the backlog.
Fitting(q) ==
  [i \in {j \in DOMAIN q : j + Len(backlog) <= BacklogSize} |-> q[i]]

\* Mutant of Processed: the callbacks' results are not looked at.
ProcessedAll(sent, lost) == Readers

\* The readers whose callback returns true: those that are done, and those for
\* whom the entry is dropped.
Processed(sent, lost) == sent \cup lost

\* QueueEntry: the callbacks of all readers that accept the entry run, whether
\* or not their bit is set; the bits of the others are cleared; Cleanup.
QueueEntry(e, big, want, busy, ok) ==
  LET acc == Accepting(big)
      waiting == SetToSeq(acc \cap busy)
      late == ToSet(Fitting(waiting))
      now == {w \in (acc \cap Web) \ busy : Room(jobs[w], JobSize)}
      lost == (acc \cap Web) \ (late \cup now)
      sent == acc \cap ({Push} \cup (IF ok THEN {Server} ELSE {}))
      p == [pending EXCEPT ![e] =
              want \ (Processed(sent, lost) \cup (Registered \ acc))]
  IN
  /\ next' = e + 1
  /\ pending' = p
  /\ live' = IF p[e] = {} THEN live ELSE live \cup {e}
  /\ backlog' = backlog \o [i \in DOMAIN Fitting(waiting) |->
                              [client |-> waiting[i], entry |-> e]]
  /\ jobs' = [w \in Web |-> IF w \in now THEN Append(jobs[w], e) ELSE jobs[w]]
  /\ owed' = [owed EXCEPT ![e] = want \ (sent \cup lost)]
  /\ unasked' = unasked \cup {<<w, e>> : w \in (late \cup now) \ want}

\* What a callback meets: the clients that cannot lock the list, and whether
\* the server is connected and takes the message.
Circumstances(busy) == Locked => busy = Web

\* NotifyString.
NotifyString(big, busy, ok) ==
  /\ todo = None /\ next \in Ids /\ Circumstances(busy)
  /\ Accepting(big) # {}
  /\ QueueEntry(next, big, Accepting(big), busy, ok)
  /\ UNCHANGED <<todo, state, job, orphaned>>

\* NotifyCommand.  The output is produced at the highest verbosity wanted; if
\* it fits, one entry is for all readers.  Otherwise the command is run again
\* for the NORMAL readers, and their entry is queued first.
NotifyCommand(big, busy, ok) ==
  /\ todo = None /\ next \in Ids /\ Circumstances(busy)
  /\ IF big
       THEN /\ QueueEntry(next, FALSE, {Push}, busy, ok)
            /\ todo' = Registered \ {Push}
       ELSE /\ QueueEntry(next, FALSE, Accepting(FALSE), busy, ok)
            /\ UNCHANGED todo
  /\ UNCHANGED <<state, job, orphaned>>

NotifyCommandRest(busy, ok) ==
  /\ todo # None /\ Circumstances(busy)
  /\ IF next \in Ids
       THEN QueueEntry(next, TRUE, todo, busy, ok)
       ELSE UNCHANGED <<next, live, pending, jobs, backlog, owed, unasked>>
         \* beyond the bound
  /\ todo' = None
  /\ UNCHANGED <<state, job, orphaned>>

\* Mutant of Marked: the bits of all web clients are cleared, not the one's.
MarkedForKind(r, es) ==
  [e \in Ids |-> IF e \notin es \cap live THEN pending[e]
                 ELSE IF r \in Web THEN pending[e] \ Web ELSE pending[e] \ {r}]

\* MarkRead.  On an entry that is gone this touches freed memory; here it does
\* nothing.
Marked(r, es) ==
  [e \in Ids |-> IF e \in es \cap live THEN pending[e] \ {r} ELSE pending[e]]

MarkRead(r, es) ==
  /\ pending' = Marked(r, es)
  /\ live' = Uncleared(Marked(r, es))

-----------------------------------------------------------------------------
(* The server: the first entry it has not read, when it is connected.      *)

FirstUnread(r) == {e \in live : r \in pending[e] /\
                     \A f \in live : r \in pending[f] => e <= f}

ServerSends ==
  /\ \E e \in FirstUnread(Server) :
       /\ MarkRead(Server, {e})
       /\ owed' = [owed EXCEPT ![e] = @ \ {Server}]
  /\ UNCHANGED <<next, todo, clients, unasked, orphaned>>

-----------------------------------------------------------------------------
(* Web clients.                                                            *)

\* CreateWebSocketHandler registers the slot's reader.
CreateHandler(w) ==
  /\ state[w] = "closed" /\ ~Locked /\ todo = None
  /\ state' = [state EXCEPT ![w] = "open"]
  /\ UNCHANGED <<entries, jobs, job, backlog, books>>

Unsent(w) == ToSet(jobs[w]) \cup ({job[w]} \ {None})

\* DestroyWebSocketHandler locks the list and deletes the handler, whose
\* destructor clears the queued jobs but not the one being sent ...
CloseBegin(w) ==
  /\ state[w] = "open" /\ ~Locked
  /\ state' = [state EXCEPT ![w] = "closing"]
  /\ MarkRead(w, ToSet(jobs[w]))
  /\ jobs' = [jobs EXCEPT ![w] = <<>>] /\ job' = [job EXCEPT ![w] = None]
  /\ owed' = [e \in Ids |-> owed[e] \ {w}]
  /\ UNCHANGED <<next, todo, backlog, unasked, orphaned>>

InBacklog(w) == {e \in Ids : Contains(backlog, [client |-> w, entry |-> e])}

\* Mutant of BitsOf: only what the backlog holds is cleared.
BacklogOnly(w) == InBacklog(w)

\* OvmsNotifyType::ClearReader: the entries whose bit of w is cleared.
BitsOf(w) == Ids

\* ... and then unregisters the reader, with the notify mutex, and unlocks.
\* The backlog is not looked at.
CloseEnd(w) ==
  /\ state[w] = "closing" /\ todo = None
  /\ state' = [state EXCEPT ![w] = "closed"]
  /\ MarkRead(w, BitsOf(w))
  /\ owed' = [e \in Ids |-> owed[e] \ {w}]
  /\ orphaned' = orphaned \cup {<<w, e>> : e \in InBacklog(w)}
  /\ UNCHANGED <<next, todo, jobs, job, backlog, unasked>>

\* UpdateTicker, for one job of the backlog.  The timer is stopped when the last
\* client closes, and started by the next.
UpdateTicker ==
  /\ ~Locked /\ backlog # <<>> /\ (\E w \in Web : state[w] = "open")
  /\ backlog' = Tail(backlog)
  /\ \E w \in Web, e \in Ids :
       /\ Head(backlog) = [client |-> w, entry |-> e]
       /\ \/ /\ state[w] = "closed"      \* the client is gone
             /\ MarkRead(w, {e}) /\ UNCHANGED jobs
          \/ /\ state[w] = "open" /\ Room(jobs[w], JobSize)
             /\ jobs' = [jobs EXCEPT ![w] = Append(@, e)]
             /\ UNCHANGED <<live, pending>>
  /\ UNCHANGED <<next, todo, state, job, books>>

\* GetNextTxJob, and the first frame.
StartJob(w) ==
  /\ state[w] = "open" /\ job[w] = None /\ jobs[w] # <<>>
  /\ job' = [job EXCEPT ![w] = Head(jobs[w])]
  /\ jobs' = [jobs EXCEPT ![w] = Tail(@)]
  /\ UNCHANGED <<entries, state, backlog, books>>

\* ProcessTxJob, when the last frame is out: ClearTxJob.
EndJob(w) ==
  /\ state[w] = "open" /\ job[w] # None
  /\ MarkRead(w, {job[w]})
  /\ owed' = [owed EXCEPT ![job[w]] = @ \ {w}]
  /\ job' = [job EXCEPT ![w] = None]
  /\ UNCHANGED <<next, todo, state, jobs, backlog, unasked, orphaned>>

-----------------------------------------------------------------------------
WebTask == \E w \in Web : CloseEnd(w) \/ StartJob(w) \/ EndJob(w)

Next ==
  \/ \E busy \in SUBSET Web, ok \in BOOLEAN :
       \/ \E big \in BOOLEAN :
            NotifyString(big, busy, ok) \/ NotifyCommand(big, busy, ok)
       \/ NotifyCommandRest(busy, ok)
  \/ ServerSends
  \/ UpdateTicker
  \/ \E w \in Web : CreateHandler(w) \/ CloseBegin(w)
  \/ WebTask

Spec == Init /\ [][Next]_vars

\* A raising task goes on; the server is connected now and then; the web server
\* sends what it has, finishes what it closes, and its timer runs.
FairSpec ==
  /\ Spec
  /\ WF_vars(\E busy \in SUBSET Web, ok \in BOOLEAN :
               NotifyCommandRest(busy, ok))
  /\ WF_vars(ServerSends) /\ SF_vars(UpdateTicker)
  /\ \A w \in Web :
       WF_vars(CloseEnd(w)) /\ WF_vars(StartJob(w)) /\ WF_vars(EndJob(w))

-----------------------------------------------------------------------------
(* What the module promises.                                               *)

\* The types of the variables.
TypeOK ==
  /\ next \in 1 .. MaxId + 1 /\ live \subseteq Ids
  /\ pending \in [Ids -> SUBSET Readers]
  /\ todo \in (SUBSET Readers) \cup {None}
  /\ state \in [Web -> {"closed", "open", "closing"}]
  /\ jobs \in [Web -> Seq(Ids)] /\ job \in [Web -> Ids \cup {None}]
  /\ backlog \in Seq([client : Web, entry : Ids]) /\ Len(backlog) <= BacklogSize
  /\ \A w \in Web : Len(jobs[w]) <= JobSize
  /\ owed \in [Ids -> SUBSET Readers]
  /\ unasked \subseteq Web \X Ids /\ orphaned \subseteq Web \X Ids

\* No notification is lost without a trace: a reader it was raised for has it
\* still to process, and until then it is kept, or has processed it, had no room
\* (which is logged), or left.
Accounted ==
  \A e \in Ids : /\ owed[e] \subseteq pending[e]
                 /\ e \in live <=> pending[e] # {}

\* The entries a client still points to.
Held(w) == Unsent(w) \cup InBacklog(w)

\* The pointers of the web clients are to entries that exist, but for entries
\* of two kinds: those delivered to a client they were not raised for, and
\* those left in the backlog when their client closed.
HeldIsAliveElse ==
  \A w \in Web : \A e \in Held(w) :
    e \in live \/ <<w, e>> \in unasked \/ <<w, e>> \in orphaned

\* What the comment on OvmsNotifyEntry says: the entry goes when all readers
\* have processed it.  So nobody points to an entry that is gone.
HeldIsAlive == \A w \in Web : Held(w) \subseteq live

\* Every entry is deleted one day: no bit is left that nobody will clear, and a
\* slot that is reused takes over none of its former client's bits.
EntriesDrain == \A e \in Ids : e \in live ~> e \notin live
=============================================================================
