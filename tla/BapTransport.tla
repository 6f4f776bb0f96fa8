---------------------------- MODULE BapTransport ----------------------------
(***************************************************************************)
(* The BAP segmentation and reassembly of bap/bap.{h,cpp}: sendElementFn   *)
(* cuts an element into a start frame and numbered continuations, and      *)
(* AssemblerT puts the frames of one CAN id together again in a pool of    *)
(* MaxPending slots.  Streams of different groups interleave on the id; a  *)
(* frame may be lost, a sender may give up in the middle of a telegram,    *)
(* and the receiver may reset its pool (IncomingBapStatus does, on the     *)
(* first frame of a command).                                              *)
(*                                                                         *)
(* An element's body is a sequence of chunks, each the bytes one frame     *)
(* carries; a chunk is named by its telegram and its place in it.  Byte    *)
(* counts, the header and the DLC checks are left out: a length is a       *)
(* number of chunks.                                                       *)
(***************************************************************************)
EXTENDS Naturals, Sequences, FiniteSets

CONSTANTS
  Groups,       \* interleave channels in use, of the four of the protocol
  MaxPending,   \* slots of the pool, 4 in the build
  IndexMod,     \* continuation numbers, 16 in the build
  MaxConts,     \* bound: continuations of a telegram
  MaxTelegrams, \* bound: telegrams sent in a behaviour
  MaxLoss       \* bound: frames lost and sends given up

\* At most as many streams are addressable as the pool has slots.
ASSUME PoolAssumption ==
  /\ MaxPending \in Nat \ {0} /\ IndexMod \in Nat \ {0}
  /\ IsFiniteSet(Groups) /\ Cardinality(Groups) <= MaxPending
  /\ {MaxConts, MaxTelegrams, MaxLoss} \subseteq Nat

VARIABLES
  sending,  \* per group, the telegram its sender is in the middle of
  slots,    \* the receiver's pool
  seq,      \* starts accepted, the order allocSlot evicts in
  out,      \* the element feed returned in the last step, or <<>>
  telegrams, losses, used   \* telegrams begun, losses, groups used so far

vars == <<sending, slots, seq, out, telegrams, losses, used>>

Slots == 1..MaxPending

\* What a sender keeps of a telegram: its name, how many continuations it has
\* and has sent, and (history) whether the receiver got every frame so far.
Idle == [id |-> 0, conts |-> 0, sent |-> 0, intact |-> FALSE]

Free == [active |-> FALSE, group |-> 0, next |-> 0, expected |-> 0,
         got |-> <<>>, startedAt |-> 0]

Chunk(id, k) == <<id, k>>

\* The body of a telegram with the given number of continuations.
Whole(id, conts) == [k \in 1..(conts + 1) |-> Chunk(id, k - 1)]

Init ==
  /\ sending = [g \in Groups |-> Idle]
  /\ slots = [s \in Slots |-> Free] /\ seq = 0
  /\ out = <<>>
  /\ telegrams = 0 /\ losses = 0 /\ used = {}

-----------------------------------------------------------------------------
(* AssemblerT.                                                             *)

\* A slot for a new start: the first free one, else the stalest.
allocSlot ==
  LET free == {s \in Slots : ~slots[s].active}
  IN  IF free # {}
      THEN CHOOSE s \in free : \A r \in free : s <= r
      ELSE CHOOSE s \in Slots :
             \A r \in Slots : slots[s].startedAt <= slots[r].startedAt

Matching(g, index) ==
  {s \in Slots : /\ slots[s].active /\ slots[s].group = g
                 /\ slots[s].next = index
                 /\ Len(slots[s].got) < slots[s].expected}

\* Mutant of findPending: a forward search.
findFirst(g, index) ==
  CHOOSE s \in Matching(g, index) : \A r \in Matching(g, index) : s <= r

\* The slot a continuation belongs to: the last in the pool that matches.
findPending(g, index) ==
  CHOOSE s \in Matching(g, index) : \A r \in Matching(g, index) : s >= r

FeedStart(g, id, conts) ==
  /\ slots' = [slots EXCEPT ![allocSlot] =
                 [active |-> TRUE, group |-> g, next |-> 0,
                  expected |-> conts + 1, got |-> <<Chunk(id, 0)>>,
                  startedAt |-> seq]]
  /\ seq' = seq + 1
  /\ out' = <<>>

\* Mutant of Fill: the slot of a completed element is not given back.
FillAndKeep(s, chunk) ==
  [s EXCEPT !.got = Append(@, chunk), !.next = (@ + 1) % IndexMod]

\* A slot after one more chunk; it is given back when the element is complete.
Fill(s, chunk) ==
  [s EXCEPT !.got = Append(@, chunk), !.next = (@ + 1) % IndexMod,
            !.active = Len(s.got) + 1 < s.expected]

FeedCont(g, index, chunk) ==
  \/ /\ Matching(g, index) # {}
     /\ LET s == findPending(g, index)
        IN  /\ slots' = [slots EXCEPT ![s] = Fill(@, chunk)]
            /\ out' = IF slots'[s].active THEN <<>> ELSE slots'[s].got
     /\ seq' = seq
  \/ /\ Matching(g, index) = {}      \* an orphan
     /\ out' = <<>>
     /\ UNCHANGED <<slots, seq>>

\* The receiver drops every partial element.
Reset ==
  /\ slots' = [s \in Slots |-> [slots[s] EXCEPT !.active = FALSE]]
  /\ sending' = [g \in Groups |-> [sending[g] EXCEPT !.intact = FALSE]]
  /\ out' = <<>>
  /\ UNCHANGED <<seq, telegrams, losses, used>>

-----------------------------------------------------------------------------
(* sendElementFn, one frame at a time.                                     *)

Lost ==
  /\ losses < MaxLoss /\ losses' = losses + 1
  /\ out' = <<>> /\ UNCHANGED <<slots, seq>>

\* A body of at most six bytes goes in one frame and takes no slot.
SendShort(g) ==
  /\ sending[g].id = 0 /\ telegrams < MaxTelegrams
  /\ telegrams' = telegrams + 1
  /\ \/ out' = Whole(telegrams', 0) /\ UNCHANGED <<slots, seq, losses>>
     \/ Lost
  /\ UNCHANGED <<sending, used>>

SendStart(g) ==
  /\ sending[g].id = 0 /\ telegrams < MaxTelegrams
  /\ telegrams' = telegrams + 1
  /\ used' = used \cup {g}
  /\ \E conts \in 1..MaxConts, ok \in BOOLEAN :
       /\ IF ok THEN FeedStart(g, telegrams', conts) /\ UNCHANGED losses
                ELSE Lost
       /\ sending' = [sending EXCEPT ![g] =
            [id |-> telegrams', conts |-> conts, sent |-> 0, intact |-> ok]]

\* Mutant of NextIndex: the number starts at 1.
NextIndexFromOne(t) == (t.sent + 1) % IndexMod

NextIndex(t) == t.sent % IndexMod

SendCont(g) ==
  LET t == sending[g]
  IN  /\ t.id # 0
      /\ \E ok \in BOOLEAN :
           /\ IF ok
              THEN /\ FeedCont(g, NextIndex(t), Chunk(t.id, t.sent + 1))
                   /\ UNCHANGED losses
              ELSE Lost
           /\ sending' = [sending EXCEPT ![g] =
                IF t.sent + 1 = t.conts THEN Idle
                ELSE [t EXCEPT !.sent = @ + 1, !.intact = @ /\ ok]]
      /\ UNCHANGED <<telegrams, used>>

\* The sink fails in the middle: a truncated telegram stays on the bus.
SendPartial(g) ==
  /\ sending[g].id # 0
  /\ Lost
  /\ sending' = [sending EXCEPT ![g] = Idle]
  /\ UNCHANGED <<telegrams, used>>

Next ==
  \/ \E g \in Groups :
       SendShort(g) \/ SendStart(g) \/ SendCont(g) \/ SendPartial(g)
  \/ Reset

Spec == Init /\ [][Next]_vars

-----------------------------------------------------------------------------
(* Properties.                                                             *)

\* Every slot is well formed and never holds more chunks than its element has
\* (feed's bounds on got).
TypeOK ==
  /\ \A g \in Groups : sending[g].sent <= sending[g].conts
  /\ \A s \in Slots :
       /\ slots[s].next < IndexMod \/ ~slots[s].active
       /\ slots[s].active => Len(slots[s].got) < slots[s].expected

\* What the reassembly is made for: streams that interleave and lose nothing,
\* or a single stream that loses one frame (or is cut short once).  A second
\* loss is beyond it: a telegram short of its end and the next one without its
\* first continuation are put together as one element.
Tolerable == losses = 0 \/ (losses = 1 /\ Cardinality(used) <= 1)

\* No element is put together from two telegrams, or with a chunk missing:
\* feed never returns anything that was not sent as it is.
Genuine ==
  Tolerable /\ out # <<>> => out = Whole(out[1][1], Len(out) - 1)

\* A telegram that arrives whole is returned with its last frame, whatever
\* partial telegrams an earlier loss left in the pool.
LastFrame(g) ==
  /\ SendCont(g)
  /\ sending[g].intact /\ sending[g].sent + 1 = sending[g].conts

Delivers ==
  [][\A g \in Groups :
       LastFrame(g) /\ Tolerable' /\ losses' = losses
         => out' = Whole(sending[g].id, sending[g].conts)]_vars

\* Only a loss leaves a slot behind: the pool holds no more partial telegrams
\* than streams are in progress and frames were lost (complete gives the slot
\* back, and no stream ever holds two).
LeaksBounded ==
  Tolerable =>
    Cardinality({s \in Slots : slots[s].active})
      <= Cardinality({g \in Groups : sending[g].intact}) + losses
=============================================================================
