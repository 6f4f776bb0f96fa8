------------------------ MODULE BapTransportProofs ------------------------
(***************************************************************************)
(* Proofs about BapTransport, for every set of groups, every size of the   *)
(* pool and every number of continuation numbers and of chunks.  The       *)
(* reassembly is right because every telegram that is intact has a slot    *)
(* with exactly its prefix (Live), because there is always a free slot for *)
(* the next (a start finds its group without one), and because what a      *)
(* loss leaves behind stays in the first slot, below the slot of the next  *)
(* telegram, and is short of its end (Stale).                              *)
(***************************************************************************)
EXTENDS BapTransport, FiniteSetTheorems, SequenceTheorems,
        WellFoundedInduction, TLAPS

Chunks == Nat \X Nat

Slot == [active : BOOLEAN, group : Groups \cup {0}, next : 0 .. IndexMod - 1,
         expected : Nat, got : Seq(Chunks), startedAt : Nat]

Telegram == [id : Nat, conts : Nat, sent : Nat, intact : BOOLEAN]

\* The types, and what a sender that is idle or in the middle keeps.
Types ==
  /\ sending \in [Groups -> Telegram] /\ slots \in [Slots -> Slot]
  /\ seq \in Nat /\ telegrams \in Nat /\ losses \in Nat
  /\ used \subseteq Groups
  /\ \A g \in Groups :
       \/ sending[g] = Idle
       \/ /\ sending[g].id # 0 /\ sending[g].sent < sending[g].conts
          /\ g \in used
  /\ \A s \in Slots : slots[s].active => Len(slots[s].got) < slots[s].expected

-----------------------------------------------------------------------------
(* The two choices of a slot.                                              *)

\* Of the sets of smaller members, one is least, and it is empty.
LEMMA Smallest ==
  ASSUME NEW S, S \subseteq Nat, S # {}
  PROVE  \E x \in S : \A y \in S : x <= y
<1> DEFINE Below(x) == {y \in S : y < x}
           All == {Below(x) : x \in S}
<1>1. All \subseteq FiniteSubsetsOf(Nat) /\ All # {}
  <2>1. ASSUME NEW x \in S PROVE Below(x) \in FiniteSubsetsOf(Nat)
    <3>1. IsFiniteSet(0 .. x)
      <4>1. 0 \in Int /\ x \in Int
        OBVIOUS
      <4> QED BY <4>1, FS_Interval
    <3>2. Below(x) \in SUBSET (0 .. x)
      <4>1. ASSUME NEW y \in Below(x) PROVE y \in 0 .. x
        <5>1. y \in Nat /\ x \in Nat /\ y < x
          OBVIOUS
        <5> QED BY <5>1
      <4> QED BY <4>1
    <3>3. IsFiniteSet(Below(x))
      BY <3>1, <3>2, FS_Subset
    <3> QED BY <3>3 DEF FiniteSubsetsOf
  <2> QED BY <2>1
<1>2. IsWellFoundedOn(StrictSubsetOrdering(Nat), FiniteSubsetsOf(Nat))
  BY FS_StrictSubsetOrderingWellFounded
<1>3. PICK T \in All : \A U \in All : <<U, T>> \notin StrictSubsetOrdering(Nat)
  <2> HIDE DEF All
  <2> QED BY <1>1, <1>2, WFMin
<1>4. PICK x \in S : T = Below(x)
  OBVIOUS
<1>5. ASSUME NEW y \in S, y < x PROVE FALSE
  <2>1. y \in Below(x) /\ y \notin Below(y)
    BY <1>5
  <2>2. ASSUME NEW z \in Below(y) PROVE z \in Below(x)
    <3>1. z \in Nat /\ y \in Nat /\ x \in Nat /\ z < y
      OBVIOUS
    <3> QED BY <3>1, <1>5
  <2>3. Below(x) \in SUBSET Nat /\ Below(y) \in SUBSET Nat
    OBVIOUS
  <2>4. <<Below(y), Below(x)>> \in StrictSubsetOrdering(Nat)
    <3> HIDE DEF Below
    <3> QED BY <2>1, <2>2, <2>3 DEF StrictSubsetOrdering
  <2> QED BY <2>4, <1>3, <1>4
<1> QED BY <1>5

LEMMA SlotsFacts ==
  /\ Slots \subseteq Nat /\ 1 \in Slots /\ \A s \in Slots : 1 <= s
  /\ IndexMod \in Nat \ {0} /\ MaxPending \in Nat \ {0}
BY PoolAssumption DEF Slots

LEMMA Largest ==
  ASSUME NEW S, S \subseteq Slots, S # {}
  PROVE  \E x \in S : \A y \in S : x >= y
<1> DEFINE T == {MaxPending - x : x \in S}
<1>1. T \subseteq Nat /\ T # {}
  <2>1. ASSUME NEW x \in S PROVE MaxPending - x \in Nat
    <3>1. x \in 1 .. MaxPending /\ MaxPending \in Nat
      BY PoolAssumption DEF Slots
    <3> QED BY <3>1
  <2> QED BY <2>1
<1>2. PICK t \in T : \A u \in T : t <= u
  <2> HIDE DEF T
  <2> QED BY <1>1, Smallest
<1>3. PICK x \in S : t = MaxPending - x
  OBVIOUS
<1>4. ASSUME NEW y \in S PROVE x >= y
  <2>1. MaxPending - y \in T
    OBVIOUS
  <2>2. MaxPending - x <= MaxPending - y
    BY <2>1, <1>2, <1>3
  <2> QED BY <2>2, PoolAssumption DEF Slots
<1> QED BY <1>4

\* allocSlot: a free slot, the first, when there is one.
LEMMA AllocFacts ==
  ASSUME Types
  PROVE  /\ allocSlot \in Slots
         /\ (\E s \in Slots : ~slots[s].active) =>
              /\ ~slots[allocSlot].active
              /\ \A r \in Slots : ~slots[r].active => allocSlot <= r
<1> DEFINE free == {s \in Slots : ~slots[s].active}
<1>1. CASE free # {}
  <2>1. \E s \in free : \A r \in free : s <= r
    <3>1. free \subseteq Nat
      BY SlotsFacts
    <3> QED BY <3>1, <1>1, Smallest
  <2>2. allocSlot = CHOOSE s \in free : \A r \in free : s <= r
    BY <1>1 DEF allocSlot
  <2> QED BY <2>1, <2>2
<1>2. CASE free = {}
  <2> DEFINE ages == {slots[s].startedAt : s \in Slots}
  <2>1. ages \subseteq Nat /\ ages # {}
    BY SlotsFacts DEF Types, Slot
  <2>2. PICK a \in ages : \A b \in ages : a <= b
    <3> HIDE DEF ages
    <3> QED BY <2>1, Smallest
  <2>3. \E s \in Slots : \A r \in Slots : slots[s].startedAt <= slots[r].startedAt
    BY <2>2
  <2>4. allocSlot = CHOOSE s \in Slots :
                      \A r \in Slots : slots[s].startedAt <= slots[r].startedAt
    BY <1>2 DEF allocSlot
  <2>5. allocSlot \in Slots
    BY <2>3, <2>4
  <2> QED BY <2>5, <1>2
<1> QED BY <1>1, <1>2

\* findPending: the last slot that matches.
LEMMA FindFacts ==
  ASSUME NEW g, NEW index, Matching(g, index) # {}
  PROVE  /\ findPending(g, index) \in Matching(g, index)
         /\ \A r \in Matching(g, index) : findPending(g, index) >= r
<1>1. Matching(g, index) \subseteq Slots
  BY DEF Matching
<1>2. \E s \in Matching(g, index) : \A r \in Matching(g, index) : s >= r
  BY <1>1, Largest
<1> QED BY <1>2 DEF findPending

-----------------------------------------------------------------------------
(* Continuation numbers.                                                   *)

LEMMA ModType ==
  ASSUME NEW n \in Nat PROVE n % IndexMod \in 0 .. IndexMod - 1
<1>1. IndexMod \in Nat /\ IndexMod > 0
  BY SlotsFacts
<1> QED BY <1>1

\* The receiver counts modulo IndexMod what the sender counts in full.
LEMMA ModStep ==
  ASSUME NEW n \in Nat
  PROVE  ((n % IndexMod) + 1) % IndexMod = (n + 1) % IndexMod
<1> DEFINE M == IndexMod
           r == n % M
           q == n \div M
           t == (r + 1) % M
           p == (r + 1) \div M
           u == (n + 1) % M
           w == (n + 1) \div M
<1>1. M \in Nat /\ M > 0
  BY SlotsFacts
<1>2. /\ r \in 0 .. M - 1 /\ q \in Nat /\ n = M * q + r
      /\ t \in 0 .. M - 1 /\ p \in Int /\ r + 1 = M * p + t
      /\ u \in 0 .. M - 1 /\ w \in Int /\ n + 1 = M * w + u
  BY <1>1
<1>3. M * (q + p) + t = M * w + u
  <2>1. n + 1 = M * q + M * p + t
    BY <1>1, <1>2
  <2>2. M * (q + p) = M * q + M * p
    BY <1>1, <1>2
  <2> QED BY <1>2, <2>1, <2>2
<1>4. q + p = w
  <2> HIDE DEF M, t, u, q, p, w
  <2>1. ASSUME q + p > w PROVE FALSE
    <3>1. M * (q + p - w) >= M
      BY <2>1, <1>1, <1>2
    <3>2. M * (q + p - w) = M * (q + p) - M * w
      BY <1>1, <1>2
    <3> QED BY <3>1, <3>2, <1>1, <1>2, <1>3
  <2>2. ASSUME q + p < w PROVE FALSE
    <3>1. M * (w - (q + p)) >= M
      BY <2>2, <1>1, <1>2
    <3>2. M * (w - (q + p)) = M * w - M * (q + p)
      BY <1>1, <1>2
    <3> QED BY <3>1, <3>2, <1>1, <1>2, <1>3
  <2> QED BY <2>1, <2>2, <1>2
<1>5. t = u
  <2> HIDE DEF M, t, u, q, p, w
  <2> QED BY <1>1, <1>2, <1>3, <1>4
<1> QED BY <1>5

-----------------------------------------------------------------------------
(* What the receiver does with a frame.                                    *)

LEMMA FillFacts ==
  ASSUME NEW s \in Slot, NEW chunk \in Chunks
  PROVE  /\ Fill(s, chunk) \in Slot
         /\ Fill(s, chunk).group = s.group
         /\ Fill(s, chunk).next = (s.next + 1) % IndexMod
         /\ Fill(s, chunk).expected = s.expected
         /\ Len(Fill(s, chunk).got) = Len(s.got) + 1
         /\ \A k \in 1 .. Len(s.got) : Fill(s, chunk).got[k] = s.got[k]
         /\ Fill(s, chunk).got[Len(s.got) + 1] = chunk
         /\ Fill(s, chunk).active <=> Len(s.got) + 1 < s.expected
<1> DEFINE f == Fill(s, chunk)
<1>1. s.got \in Seq(Chunks) /\ Len(s.got) \in Nat /\ s.next \in Nat
      /\ s.expected \in Nat
  BY LenProperties, SlotsFacts DEF Slot
<1>2. /\ f.active = (Len(s.got) + 1 < s.expected)
      /\ f.group = s.group /\ f.expected = s.expected
      /\ f.next = (s.next + 1) % IndexMod
      /\ f.got = Append(s.got, chunk)
      /\ f.startedAt = s.startedAt
  BY DEF Fill, Slot
<1>3. /\ Append(s.got, chunk) \in Seq(Chunks)
      /\ Len(Append(s.got, chunk)) = Len(s.got) + 1
      /\ \A k \in 1 .. Len(s.got) : Append(s.got, chunk)[k] = s.got[k]
      /\ Append(s.got, chunk)[Len(s.got) + 1] = chunk
  BY <1>1
<1>4. (s.next + 1) % IndexMod \in 0 .. IndexMod - 1
  <2>1. s.next + 1 \in Nat
    BY <1>1
  <2> QED BY <2>1, ModType
<1>5. \A q \in Seq(Chunks), n \in 0 .. IndexMod - 1, a \in BOOLEAN :
        [s EXCEPT !.got = q, !.next = n, !.active = a] \in Slot
  BY DEF Slot
<1>6. f \in Slot
  <2>1. (Len(s.got) + 1 < s.expected) \in BOOLEAN
    OBVIOUS
  <2>2. [s EXCEPT !.got = Append(s.got, chunk),
                  !.next = (s.next + 1) % IndexMod,
                  !.active = Len(s.got) + 1 < s.expected] \in Slot
    BY <2>1, <1>3, <1>4, <1>5, Zenon
  <2> QED BY <2>2 DEF Fill
<1> QED BY <1>2, <1>3, <1>6

\* A continuation is an orphan, or fills the slot findPending chose.
LEMMA FeedContFacts ==
  ASSUME Types, NEW g, NEW index, NEW chunk \in Chunks,
         FeedCont(g, index, chunk)
  PROVE  /\ seq' = seq
         /\ \/ Matching(g, index) = {} /\ slots' = slots /\ out' = <<>>
            \/ LET c == findPending(g, index)
               IN  /\ c \in Matching(g, index)
                   /\ \A r \in Matching(g, index) : c >= r
                   /\ slots' \in [Slots -> Slot]
                   /\ slots'[c] = Fill(slots[c], chunk)
                   /\ \A s \in Slots \ {c} : slots'[s] = slots[s]
                   /\ out' = IF slots'[c].active THEN <<>> ELSE slots'[c].got
<1>1. CASE Matching(g, index) = {}
  BY <1>1 DEF FeedCont
<1>2. CASE Matching(g, index) # {}
  <2> DEFINE c == findPending(g, index)
  <2>1. c \in Matching(g, index) /\ \A r \in Matching(g, index) : c >= r
    BY <1>2, FindFacts
  <2>2. c \in Slots /\ slots[c] \in Slot /\ slots \in [Slots -> Slot]
    BY <2>1 DEF Matching, Types
  <2>3. /\ slots' = [slots EXCEPT ![c] = Fill(slots[c], chunk)] /\ seq' = seq
        /\ out' = IF slots'[c].active THEN <<>> ELSE slots'[c].got
    BY <1>2 DEF FeedCont
  <2>4. Fill(slots[c], chunk) \in Slot
    BY <2>2, FillFacts
  <2>5. /\ slots' \in [Slots -> Slot] /\ slots'[c] = Fill(slots[c], chunk)
        /\ \A s \in Slots \ {c} : slots'[s] = slots[s]
    <3> HIDE DEF c
    <3> QED BY <2>2, <2>3, <2>4
  <2> QED BY <2>1, <2>3, <2>5
<1> QED BY <1>1, <1>2

\* A start takes the slot allocSlot chose.
LEMMA FeedStartFacts ==
  ASSUME Types, NEW g \in Groups, NEW id \in Nat, NEW conts \in Nat,
         FeedStart(g, id, conts)
  PROVE  /\ slots' \in [Slots -> Slot] /\ seq' \in Nat /\ out' = <<>>
         /\ slots'[allocSlot] =
              [active |-> TRUE, group |-> g, next |-> 0, expected |-> conts + 1,
               got |-> <<Chunk(id, 0)>>, startedAt |-> seq]
         /\ \A s \in Slots \ {allocSlot} : slots'[s] = slots[s]
<1> DEFINE c == allocSlot
           fresh == [active |-> TRUE, group |-> g, next |-> 0,
                     expected |-> conts + 1, got |-> <<Chunk(id, 0)>>,
                     startedAt |-> seq]
<1>1. c \in Slots
  BY AllocFacts
<1>2. fresh \in Slot
  <2>1. <<Chunk(id, 0)>> \in Seq(Chunks)
    BY DEF Chunk, Chunks
  <2>2. 0 \in 0 .. IndexMod - 1 /\ conts + 1 \in Nat /\ seq \in Nat
    BY SlotsFacts DEF Types
  <2> QED BY <2>1, <2>2 DEF Slot
<1>3. slots' = [slots EXCEPT ![c] = fresh] /\ seq' = seq + 1 /\ out' = <<>>
  BY DEF FeedStart
<1>4. slots \in [Slots -> Slot] /\ seq \in Nat
  BY DEF Types
<1> HIDE DEF c, fresh
<1>5. /\ slots' \in [Slots -> Slot] /\ slots'[c] = fresh
      /\ \A s \in Slots \ {c} : slots'[s] = slots[s]
  BY <1>1, <1>2, <1>3, <1>4
<1> QED BY <1>3, <1>4, <1>5 DEF c, fresh

\* The part of Types about a pool, when only one slot has changed.
LEMMA PoolKept ==
  ASSUME Types, NEW c, slots' \in [Slots -> Slot],
         \A s \in Slots \ {c} : slots'[s] = slots[s],
         c \in Slots =>
           (slots'[c].active => Len(slots'[c].got) < slots'[c].expected)
  PROVE  \A s \in Slots :
           slots'[s].active => Len(slots'[s].got) < slots'[s].expected
BY DEF Types

LEMMA InitTypes == Init => Types
<1> SUFFICES ASSUME Init PROVE Types
  OBVIOUS
<1>1. Idle \in Telegram
  BY DEF Idle, Telegram
<1>2. Free \in Slot /\ Free.active = FALSE
  BY SlotsFacts DEF Free, Slot
<1> QED BY <1>1, <1>2 DEF Init, Types

\* What the four actions of a sender leave alone, or count.
LEMMA CountsKept ==
  ASSUME Types, NEW g \in Groups,
         SendShort(g) \/ SendStart(g) \/ SendCont(g) \/ SendPartial(g)
  PROVE  /\ telegrams' \in Nat /\ losses' \in {losses, losses + 1}
         /\ losses' \in Nat /\ used \subseteq used' /\ used' \subseteq Groups
<1>0. /\ telegrams \in Nat /\ losses \in Nat /\ used \subseteq Groups
  BY DEF Types
<1>1. CASE SendShort(g)
  BY <1>0, <1>1 DEF SendShort, Lost
<1>2. CASE SendStart(g)
  <2>1. losses' = losses \/ losses' = losses + 1
    BY <1>2 DEF SendStart, Lost
  <2> QED BY <2>1, <1>0, <1>2 DEF SendStart
<1>3. CASE SendCont(g)
  <2>1. losses' = losses \/ losses' = losses + 1
    BY <1>3 DEF SendCont, Lost
  <2>2. telegrams' = telegrams /\ used' = used
    BY <1>3 DEF SendCont
  <2> QED BY <2>1, <2>2, <1>0
<1>4. CASE SendPartial(g)
  BY <1>0, <1>4 DEF SendPartial, Lost
<1> QED BY <1>1, <1>2, <1>3, <1>4

LEMMA TypesShort ==
  ASSUME Types, NEW g \in Groups, SendShort(g) PROVE Types'
<1>1. sending' = sending /\ slots' = slots /\ seq' = seq /\ used' = used
  BY DEF SendShort, Lost
<1> QED BY <1>1, CountsKept DEF Types

LEMMA TypesStart ==
  ASSUME Types, NEW g \in Groups, SendStart(g) PROVE Types'
<1>1. PICK conts \in 1 .. MaxConts, ok \in BOOLEAN :
        /\ IF ok THEN FeedStart(g, telegrams', conts) /\ UNCHANGED losses
                 ELSE Lost
        /\ sending' = [sending EXCEPT ![g] =
             [id |-> telegrams', conts |-> conts, sent |-> 0, intact |-> ok]]
  BY DEF SendStart
<1>2. telegrams' \in Nat \ {0} /\ used' = used \cup {g} /\ telegrams \in Nat
  BY DEF SendStart, Types
<1>3. conts \in Nat /\ conts > 0
  BY PoolAssumption
<1>4. /\ sending' \in [Groups -> Telegram]
      /\ \A h \in Groups :
           \/ sending'[h] = Idle
           \/ /\ sending'[h].id # 0 /\ sending'[h].sent < sending'[h].conts
              /\ h \in used'
  <2> DEFINE t == [id |-> telegrams', conts |-> conts, sent |-> 0, intact |-> ok]
  <2>1. t \in Telegram /\ t.id # 0 /\ t.sent < t.conts
    BY <1>2, <1>3 DEF Telegram
  <2>2. sending' = [sending EXCEPT ![g] = t] /\ sending \in [Groups -> Telegram]
    BY <1>1 DEF Types
  <2> HIDE DEF t
  <2> QED BY <2>1, <2>2, <1>2 DEF Types
<1>5. /\ slots' \in [Slots -> Slot] /\ seq' \in Nat
      /\ \A s \in Slots :
           slots'[s].active => Len(slots'[s].got) < slots'[s].expected
  <2>1. CASE ok
    <3>1. FeedStart(g, telegrams', conts)
      BY <1>1, <2>1
    <3>2. /\ slots' \in [Slots -> Slot] /\ seq' \in Nat
          /\ slots'[allocSlot].expected = conts + 1
          /\ slots'[allocSlot].got = <<Chunk(telegrams', 0)>>
          /\ \A s \in Slots \ {allocSlot} : slots'[s] = slots[s]
      <4>1. PICK id \in Nat : id = telegrams'
        BY <1>2
      <4>2. FeedStart(g, id, conts)
        BY <3>1, <4>1
      <4>3. conts \in Nat
        BY <1>3
      <4>4. /\ slots' \in [Slots -> Slot] /\ seq' \in Nat
            /\ slots'[allocSlot] =
                 [active |-> TRUE, group |-> g, next |-> 0,
                  expected |-> conts + 1, got |-> <<Chunk(id, 0)>>,
                  startedAt |-> seq]
            /\ \A s \in Slots \ {allocSlot} : slots'[s] = slots[s]
        BY <4>2, <4>3, FeedStartFacts
      <4> QED BY <4>1, <4>4
    <3>3. Len(slots'[allocSlot].got) < slots'[allocSlot].expected
      BY <3>2, <1>3
    <3> QED BY <3>2, <3>3, PoolKept
  <2>2. CASE ~ok
    BY <2>2, <1>1 DEF Lost, Types
  <2> QED BY <2>1, <2>2
<1> QED BY <1>4, <1>5, CountsKept DEF Types

\* The telegram of g after one more continuation, got through or not.
LEMMA SendingFacts ==
  ASSUME Types, NEW g \in Groups, SendCont(g)
  PROVE  /\ sending[g].id # 0 /\ sending[g] # Idle
         /\ sending[g].sent < sending[g].conts /\ g \in used
         /\ \E ok \in BOOLEAN :
              /\ IF ok THEN /\ FeedCont(g, NextIndex(sending[g]),
                                 Chunk(sending[g].id, sending[g].sent + 1))
                            /\ losses' = losses
                       ELSE Lost
              /\ IF sending[g].sent + 1 = sending[g].conts
                 THEN sending'[g] = Idle
                 ELSE /\ sending'[g].id = sending[g].id
                      /\ sending'[g].conts = sending[g].conts
                      /\ sending'[g].sent = sending[g].sent + 1
                      /\ sending'[g].intact <=> sending[g].intact /\ ok
                      /\ sending'[g] \in Telegram
         /\ sending' \in [Groups -> Telegram]
         /\ \A h \in Groups \ {g} : sending'[h] = sending[h]
<1> DEFINE t == sending[g]
<1>1. t \in Telegram /\ sending \in [Groups -> Telegram] /\ t.id # 0
  BY DEF Types, SendCont
<1>2. t # Idle /\ t.sent < t.conts /\ g \in used
  BY <1>1 DEF Types, Idle
<1>3. PICK ok \in BOOLEAN :
        /\ IF ok THEN /\ FeedCont(g, NextIndex(t), Chunk(t.id, t.sent + 1))
                      /\ losses' = losses
                 ELSE Lost
        /\ sending' = [sending EXCEPT ![g] =
             IF t.sent + 1 = t.conts THEN Idle
             ELSE [t EXCEPT !.sent = @ + 1, !.intact = @ /\ ok]]
  BY DEF SendCont
<1>4. Idle \in Telegram
  BY DEF Idle, Telegram
<1> DEFINE v == [t EXCEPT !.sent = @ + 1, !.intact = @ /\ ok]
<1>5. /\ v.id = t.id /\ v.conts = t.conts /\ v.sent = t.sent + 1
      /\ v.intact = (t.intact /\ ok)
  BY <1>1 DEF Telegram
<1>6. v \in Telegram
  <2>1. (t.intact /\ ok) \in BOOLEAN /\ t.sent + 1 \in Nat
    BY <1>1 DEF Telegram
  <2>2. \A n \in Nat, b \in BOOLEAN :
          [t EXCEPT !.sent = n, !.intact = b] \in Telegram
    BY <1>1 DEF Telegram
  <2>3. v = [t EXCEPT !.sent = t.sent + 1, !.intact = t.intact /\ ok]
    OBVIOUS
  <2> QED BY <2>1, <2>2, <2>3, Zenon
<1>7. /\ sending' \in [Groups -> Telegram]
      /\ sending'[g] = IF t.sent + 1 = t.conts THEN Idle ELSE v
      /\ \A h \in Groups \ {g} : sending'[h] = sending[h]
  <2>1. sending' = [sending EXCEPT ![g] = IF t.sent + 1 = t.conts THEN Idle ELSE v]
    BY <1>3
  <2> HIDE DEF v, t
  <2> QED BY <2>1, <1>1, <1>4, <1>6
<1> HIDE DEF v
<1> QED BY <1>1, <1>2, <1>3, <1>5, <1>6, <1>7

LEMMA TypesCont ==
  ASSUME Types, NEW g \in Groups, SendCont(g) PROVE Types'
<1>1. sending[g].id \in Nat /\ sending[g].sent \in Nat /\ sending[g].conts \in Nat
  BY DEF Types, Telegram
<1>2. /\ sending' \in [Groups -> Telegram]
      /\ \A h \in Groups :
           \/ sending'[h] = Idle
           \/ /\ sending'[h].id # 0 /\ sending'[h].sent < sending'[h].conts
              /\ h \in used'
  <2>1. used' = used
    BY DEF SendCont
  <2> QED BY <2>1, <1>1, SendingFacts DEF Types
<1>3. /\ slots' \in [Slots -> Slot] /\ seq' \in Nat
      /\ \A s \in Slots :
           slots'[s].active => Len(slots'[s].got) < slots'[s].expected
  <2> DEFINE index == NextIndex(sending[g])
             chunk == Chunk(sending[g].id, sending[g].sent + 1)
  <2>1. chunk \in Chunks
    BY <1>1 DEF Chunk, Chunks
  <2>2. CASE FeedCont(g, index, chunk)
    <3>1. CASE slots' = slots /\ seq' = seq
      BY <3>1 DEF Types
    <3>2. CASE slots' # slots
      <4> DEFINE c == findPending(g, index)
      <4>1. /\ c \in Slots /\ slots' \in [Slots -> Slot] /\ seq' = seq
            /\ slots'[c] = Fill(slots[c], chunk)
            /\ \A s \in Slots \ {c} : slots'[s] = slots[s]
        BY <2>1, <2>2, <3>2, FeedContFacts DEF Matching
      <4>2. slots'[c].active => Len(slots'[c].got) < slots'[c].expected
        <5>1. slots[c] \in Slot
          BY <4>1 DEF Types
        <5> QED BY <4>1, <5>1, <2>1, FillFacts
      <4>3. seq' \in Nat
        BY <4>1 DEF Types
      <4> QED BY <4>1, <4>2, <4>3, PoolKept
    <3> QED BY <3>1, <3>2, <2>1, <2>2, FeedContFacts
  <2>3. CASE Lost
    BY <2>3 DEF Lost, Types
  <2> QED BY <2>2, <2>3, SendingFacts
<1> QED BY <1>2, <1>3, CountsKept DEF Types

LEMMA TypesPartial ==
  ASSUME Types, NEW g \in Groups, SendPartial(g) PROVE Types'
<1>1. sending' = [sending EXCEPT ![g] = Idle] /\ slots' = slots /\ seq' = seq
      /\ used' = used
  BY DEF SendPartial, Lost
<1>2. Idle \in Telegram
  BY DEF Idle, Telegram
<1> QED BY <1>1, <1>2, CountsKept DEF Types

\* Reset empties the pool; no telegram under way is intact any more.
LEMMA ResetFacts ==
  ASSUME Types, Reset
  PROVE  /\ \A g \in Groups : /\ sending'[g] \in Telegram
                              /\ sending'[g].id = sending[g].id
                              /\ sending'[g].sent = sending[g].sent
                              /\ sending'[g].conts = sending[g].conts
                              /\ ~sending'[g].intact
                              /\ sending[g] = Idle => sending'[g] = Idle
         /\ \A s \in Slots : slots'[s] \in Slot /\ ~slots'[s].active
<1>1. ASSUME NEW g \in Groups
      PROVE  /\ sending'[g] = [sending[g] EXCEPT !.intact = FALSE]
             /\ sending[g] \in Telegram
  BY DEF Reset, Types
<1>2. ASSUME NEW s \in Slots
      PROVE  slots'[s] = [slots[s] EXCEPT !.active = FALSE] /\ slots[s] \in Slot
  BY DEF Reset, Types
<1>3. ASSUME NEW g \in Groups, sending[g] = Idle PROVE sending'[g] = Idle
  BY <1>1, <1>3 DEF Idle
<1>4. ASSUME NEW g \in Groups
      PROVE  /\ sending'[g] \in Telegram
             /\ sending'[g].id = sending[g].id
             /\ sending'[g].sent = sending[g].sent
             /\ sending'[g].conts = sending[g].conts
             /\ ~sending'[g].intact
  BY <1>1 DEF Telegram
<1>5. ASSUME NEW s \in Slots PROVE slots'[s] \in Slot /\ ~slots'[s].active
  BY <1>2 DEF Slot
<1> QED BY <1>3, <1>4, <1>5

LEMMA TypesReset == ASSUME Types, Reset PROVE Types'
<1>1. /\ sending' \in [Groups -> Telegram] /\ slots' \in [Slots -> Slot]
      /\ UNCHANGED <<seq, telegrams, losses, used>>
  BY ResetFacts DEF Reset
<1> QED BY <1>1, ResetFacts DEF Types

LEMMA TypesKept == ASSUME Types, [Next]_vars PROVE Types'
<1>1. CASE UNCHANGED vars
  BY <1>1 DEF vars, Types
<1>2. CASE Next
  BY <1>2, TypesShort, TypesStart, TypesCont, TypesPartial, TypesReset DEF Next
<1> QED BY <1>1, <1>2

\* The run's type invariant, for every pool and every modulus.
THEOREM TransportTypeCorrect == Spec => []TypeOK
<1>1. Types => TypeOK
  <2> SUFFICES ASSUME Types PROVE TypeOK
    OBVIOUS
  <2>1. ASSUME NEW g \in Groups PROVE sending[g].sent <= sending[g].conts
    <3>1. sending[g].sent \in Nat /\ sending[g].conts \in Nat
      BY DEF Types, Telegram
    <3>2. sending[g] = Idle => sending[g].sent = 0 /\ sending[g].conts = 0
      BY DEF Idle
    <3> QED BY <3>1, <3>2 DEF Types
  <2>2. ASSUME NEW s \in Slots PROVE slots[s].next < IndexMod
    BY SlotsFacts DEF Types, Slot
  <2> QED BY <2>1, <2>2 DEF TypeOK, Types
<1> QED BY <1>1, InitTypes, TypesKept, PTL DEF Spec

-----------------------------------------------------------------------------
(* The slots of the telegrams under way.                                   *)

Single == \A g, h \in used : g = h

\* Tolerable, without the cardinality.
Tol == losses = 0 \/ (losses = 1 /\ Single)

\* Slot c holds exactly what group g has sent of its telegram.
Holds(c, g) ==
  /\ slots[c].active /\ slots[c].group = g
  /\ slots[c].next = sending[g].sent % IndexMod
  /\ slots[c].expected = sending[g].conts + 1
  /\ Len(slots[c].got) = sending[g].sent + 1
  /\ \A k \in 1 .. sending[g].sent + 1 :
       slots[c].got[k] = Chunk(sending[g].id, k - 1)

\* No other slot is the group's; after a loss only the first slot is another.
Own(c, g) ==
  /\ losses = 0 => \A s \in Slots : slots[s].active /\ slots[s].group = g => s = c
  /\ losses = 1 => \A s \in Slots : slots[s].active => s = c \/ s = 1

Live ==
  \A g \in Groups :
    sending[g].intact => \E c \in Slots : Holds(c, g) /\ Own(c, g)

\* A slot that is short of its telegram, and will stay so.
Behind(s) ==
  LET t == sending[slots[s].group]
  IN  t.id # 0 /\ ~t.intact =>
        Len(slots[s].got) <= t.sent /\ slots[s].expected = t.conts + 1

Stale ==
  \A s \in Slots : slots[s].active =>
    /\ slots[s].group \in used
    /\ losses = 0 => sending[slots[s].group].intact
    /\ losses = 0 /\ Single => s = 1
    /\ losses = 1 /\ (\A g \in Groups : ~sending[g].intact) => s = 1
    /\ Behind(s)

Sound == Tol => Live /\ Stale

LEMMA TolerableIsTol == ASSUME Types, Tolerable PROVE Tol
<1>1. CASE losses = 0
  BY <1>1 DEF Tol
<1>2. CASE losses = 1 /\ Cardinality(used) <= 1
  <2>1. ASSUME NEW g \in used, NEW h \in used, g # h PROVE FALSE
    <3>1. IsFiniteSet({g}) /\ Cardinality({g}) = 1
      BY FS_Singleton
    <3>2. IsFiniteSet({g} \cup {h}) /\ Cardinality({g} \cup {h}) = 2
      BY <3>1, <2>1, FS_AddElement
    <3>3. IsFiniteSet(used)
      BY PoolAssumption, FS_Subset DEF Types
    <3>4. Cardinality({g} \cup {h}) <= Cardinality(used)
      BY <3>3, FS_Subset
    <3>5. Cardinality(used) \in Nat
      BY <3>3, FS_CardinalityType
    <3> QED BY <3>2, <3>4, <3>5, <1>2
  <2> QED BY <1>2, <2>1 DEF Tol, Single
<1> QED BY <1>1, <1>2 DEF Tolerable

\* A telegram under way has a group in use; an idle one is not intact.
LEMMA SenderFacts ==
  ASSUME Types, NEW g \in Groups
  PROVE  /\ sending[g] \in Telegram
         /\ sending[g].id = 0 => sending[g] = Idle /\ ~sending[g].intact
         /\ sending[g].id # 0 => g \in used /\ sending[g].sent < sending[g].conts
         /\ sending[g].intact => sending[g].id # 0
BY DEF Types, Idle

LEMMA IdleFacts == Idle.id = 0 /\ Idle.intact = FALSE /\ Idle.sent = 0
BY DEF Idle

LEMMA PoolFacts ==
  ASSUME Types, NEW s \in Slots
  PROVE  /\ slots[s] \in Slot /\ Len(slots[s].got) \in Nat
         /\ slots[s].got \in Seq(Chunks) /\ slots[s].expected \in Nat
BY LenProperties DEF Types, Slot

\* A telegram that starts before anything was lost finds a free slot: the
\* others have one each, and there are no more groups than slots.
LEMMA RoomForAll ==
  ASSUME Types, Live, Stale, losses = 0, NEW g \in Groups, ~sending[g].intact
  PROVE  \E s \in Slots : ~slots[s].active
<1> SUFFICES ASSUME \A s \in Slots : slots[s].active PROVE FALSE
  OBVIOUS
<1> DEFINE f == [s \in Slots |-> slots[s].group]
<1>1. f \in [Slots -> Groups \ {g}]
  <2>1. \A s \in Slots : slots[s].group \in Groups /\ slots[s].group # g
    BY DEF Stale, Types
  <2> QED BY <2>1
<1>2. IsFiniteSet(Groups \ {g}) /\ Cardinality(Groups \ {g}) < MaxPending
  <2>1. Cardinality(Groups) \in Nat
    BY PoolAssumption, FS_CardinalityType
  <2>2. IsFiniteSet(Groups)
    BY PoolAssumption
  <2>3. /\ IsFiniteSet(Groups \ {g})
        /\ Cardinality(Groups \ {g}) = Cardinality(Groups) - 1
    BY <2>2, FS_RemoveElement
  <2>4. MaxPending \in Nat /\ Cardinality(Groups) <= MaxPending
    BY PoolAssumption
  <2> QED BY <2>1, <2>3, <2>4
<1>3. IsFiniteSet(Slots) /\ Cardinality(Slots) = MaxPending
  <2>1. 1 \in Int /\ MaxPending \in Int /\ MaxPending >= 1
    BY SlotsFacts
  <2> QED BY <2>1, FS_Interval DEF Slots
<1>4. PICK x \in Slots, y \in Slots : x # y /\ f[x] = f[y]
  <2> HIDE DEF f
  <2> QED BY <1>1, <1>2, <1>3, FS_PigeonHole
<1>5. PICK c \in Slots : Own(c, slots[x].group)
  <2>1. slots[x].group \in Groups /\ sending[slots[x].group].intact
    BY DEF Stale, Types
  <2> QED BY <2>1 DEF Live
<1>6. slots[x].group = slots[y].group
  BY <1>4
<1> QED BY <1>4, <1>5, <1>6 DEF Own

\* The next continuation of an intact telegram goes to its own slot, which
\* then holds one chunk more, or is the whole telegram and free.
LEMMA ContOfIntact ==
  ASSUME Types, Tol, Live, NEW g \in Groups, sending[g].intact,
         FeedCont(g, NextIndex(sending[g]),
                  Chunk(sending[g].id, sending[g].sent + 1))
  PROVE  \E c \in Slots :
           /\ Holds(c, g) /\ Own(c, g)
           /\ \A s \in Slots \ {c} : slots'[s] = slots[s]
           /\ slots'[c].group = g
           /\ slots'[c].next = (sending[g].sent + 1) % IndexMod
           /\ slots'[c].expected = sending[g].conts + 1
           /\ Len(slots'[c].got) = sending[g].sent + 2
           /\ \A k \in 1 .. sending[g].sent + 2 :
                slots'[c].got[k] = Chunk(sending[g].id, k - 1)
           /\ slots'[c].active <=> sending[g].sent + 1 < sending[g].conts
           /\ out' = IF slots'[c].active THEN <<>> ELSE slots'[c].got
           /\ slots'[c] \in Slot
<1> DEFINE t == sending[g]
           index == NextIndex(t)
           chunk == Chunk(t.id, t.sent + 1)
<1>1. PICK d \in Slots : Holds(d, g) /\ Own(d, g)
  BY DEF Live
<1>2. /\ t \in Telegram /\ t.sent \in Nat /\ t.conts \in Nat /\ t.id \in Nat
      /\ t.sent < t.conts
  BY SenderFacts DEF Telegram
<1>3. chunk \in Chunks
  BY <1>2 DEF Chunk, Chunks
<1>4. d \in Matching(g, index)
  BY <1>1, <1>2 DEF Holds, Matching, NextIndex
<1>5. ASSUME NEW c \in Matching(g, index), c >= d PROVE c = d
  <2>1. c \in Slots /\ slots[c].active /\ slots[c].group = g
    BY DEF Matching
  <2>2. CASE losses = 0
    BY <2>1, <2>2, <1>1 DEF Own
  <2>3. CASE losses = 1
    <3>1. c = d \/ c = 1
      BY <2>1, <2>3, <1>1 DEF Own
    <3>2. 1 <= d /\ d \in Nat
      BY SlotsFacts
    <3> QED BY <3>1, <3>2, <1>5
  <2> QED BY <2>2, <2>3 DEF Tol
<1>6. /\ \A s \in Slots \ {d} : slots'[s] = slots[s]
      /\ slots'[d] = Fill(slots[d], chunk)
      /\ out' = IF slots'[d].active THEN <<>> ELSE slots'[d].got
  <2> DEFINE c == findPending(g, index)
  <2>1. /\ c \in Matching(g, index) /\ c >= d
        /\ slots'[c] = Fill(slots[c], chunk)
        /\ \A s \in Slots \ {c} : slots'[s] = slots[s]
        /\ out' = IF slots'[c].active THEN <<>> ELSE slots'[c].got
    BY <1>3, <1>4, FeedContFacts
  <2>2. c = d
    <3> HIDE DEF c, index
    <3> QED BY <2>1, <1>5
  <2> QED BY <2>1, <2>2
<1>7. slots[d] \in Slot
  BY DEF Types
<1>8. Len(slots[d].got) = t.sent + 1 /\ slots[d].expected = t.conts + 1
      /\ slots[d].next = t.sent % IndexMod /\ slots[d].group = g
      /\ \A k \in 1 .. t.sent + 1 : slots[d].got[k] = Chunk(t.id, k - 1)
  BY <1>1 DEF Holds
<1>9. /\ slots'[d] \in Slot
      /\ slots'[d].group = g
      /\ slots'[d].next = ((t.sent % IndexMod) + 1) % IndexMod
      /\ slots'[d].expected = t.conts + 1
      /\ Len(slots'[d].got) = t.sent + 1 + 1
      /\ \A k \in 1 .. t.sent + 1 : slots'[d].got[k] = slots[d].got[k]
      /\ slots'[d].got[t.sent + 1 + 1] = chunk
      /\ slots'[d].active <=> t.sent + 1 + 1 < t.conts + 1
  <2> HIDE DEF t, chunk
  <2> DEFINE o == slots[d]
             n == Fill(o, chunk)
  <2>1. /\ n \in Slot /\ n.group = o.group
        /\ n.next = (o.next + 1) % IndexMod /\ n.expected = o.expected
        /\ Len(n.got) = Len(o.got) + 1
        /\ \A k \in 1 .. Len(o.got) : n.got[k] = o.got[k]
        /\ n.got[Len(o.got) + 1] = chunk
        /\ n.active <=> Len(o.got) + 1 < o.expected
    <3> HIDE DEF o
    <3>1. o \in Slot
      BY <1>7 DEF o
    <3> QED BY <1>3, <3>1, FillFacts
  <2> HIDE DEF o, n
  <2>2. /\ Len(o.got) = t.sent + 1 /\ o.expected = t.conts + 1
        /\ o.next = t.sent % IndexMod /\ o.group = g
    BY <1>8 DEF o
  <2>3. /\ n \in Slot /\ n.group = g
        /\ n.next = ((t.sent % IndexMod) + 1) % IndexMod
        /\ n.expected = t.conts + 1 /\ Len(n.got) = t.sent + 1 + 1
        /\ \A k \in 1 .. t.sent + 1 : n.got[k] = o.got[k]
        /\ n.got[t.sent + 1 + 1] = chunk
        /\ n.active <=> t.sent + 1 + 1 < t.conts + 1
    BY <2>1, <2>2
  <2> QED BY <2>3, <1>6 DEF n, o
<1>10. slots'[d].next = (t.sent + 1) % IndexMod
  BY <1>2, <1>9, ModStep
<1>11. ASSUME NEW k \in 1 .. t.sent + 2
       PROVE  slots'[d].got[k] = Chunk(t.id, k - 1)
  <2>1. CASE k \in 1 .. t.sent + 1
    BY <2>1, <1>8, <1>9
  <2>2. CASE k = t.sent + 2
    <3>1. t.sent + 1 + 1 = t.sent + 2 /\ k - 1 = t.sent + 1
      BY <2>2, <1>2
    <3> QED BY <3>1, <2>2, <1>9
  <2> QED BY <2>1, <2>2, <1>2
<1>12. /\ Len(slots'[d].got) = t.sent + 2
       /\ slots'[d].active <=> t.sent + 1 < t.conts
  BY <1>2, <1>9
<1> QED BY <1>1, <1>6, <1>9, <1>10, <1>11, <1>12

\* The last one makes it the telegram as it was sent.
LEMMA WholeAtLast ==
  ASSUME Types, Tol, Live, NEW g \in Groups, sending[g].intact,
         sending[g].sent + 1 = sending[g].conts,
         FeedCont(g, NextIndex(sending[g]),
                  Chunk(sending[g].id, sending[g].sent + 1))
  PROVE  out' = Whole(sending[g].id, sending[g].conts)
<1> DEFINE t == sending[g]
<1>1. t.sent \in Nat /\ t.conts \in Nat /\ t.id \in Nat
  BY SenderFacts DEF Telegram
<1>2. PICK c \in Slots :
        /\ Len(slots'[c].got) = t.sent + 2
        /\ \A k \in 1 .. t.sent + 2 : slots'[c].got[k] = Chunk(t.id, k - 1)
        /\ slots'[c].active <=> t.sent + 1 < t.conts
        /\ out' = IF slots'[c].active THEN <<>> ELSE slots'[c].got
        /\ slots'[c] \in Slot
  BY ContOfIntact
<1>3. out' = slots'[c].got
  BY <1>1, <1>2
<1>4. out' \in Seq(Chunks) /\ Len(out') = t.conts + 1
  BY <1>1, <1>2, <1>3 DEF Slot
<1>5. /\ DOMAIN out' = 1 .. t.conts + 1
      /\ out' = [k \in 1 .. t.conts + 1 |-> out'[k]]
  BY <1>4, LenProperties
<1>6. \A k \in 1 .. t.conts + 1 : out'[k] = Chunk(t.id, k - 1)
  <2>1. t.sent + 2 = t.conts + 1
    BY <1>1
  <2> QED BY <2>1, <1>2, <1>3
<1> QED BY <1>5, <1>6 DEF Whole

LEMMA SoundCont ==
  ASSUME Types, Sound, NEW g \in Groups, SendCont(g), Tol'
  PROVE  Live' /\ Stale'
<1> DEFINE t == sending[g]
           Ok == /\ FeedCont(g, NextIndex(t), Chunk(t.id, t.sent + 1))
                 /\ losses' = losses
           Bad == losses' = losses + 1 /\ slots' = slots
           Sent(ok) ==
             IF t.sent + 1 = t.conts THEN sending'[g] = Idle
             ELSE /\ sending'[g].id = t.id /\ sending'[g].conts = t.conts
                  /\ sending'[g].sent = t.sent + 1
                  /\ sending'[g].intact <=> t.intact /\ ok
<1>1. /\ t.id # 0 /\ t.sent < t.conts /\ g \in used /\ used' = used
      /\ t.sent \in Nat /\ t.conts \in Nat /\ t.id \in Nat
      /\ \A h \in Groups \ {g} : sending'[h] = sending[h]
  BY SendingFacts, SenderFacts DEF SendCont, Telegram
<1>2. (Ok /\ Sent(TRUE)) \/ (Bad /\ Sent(FALSE))
  BY SendingFacts DEF Lost
<1>3. losses \in Nat
  BY DEF Types
<1>4. Tol /\ Live /\ Stale
  BY <1>1, <1>2, <1>3 DEF Tol, Single, Sound
<1>5. ASSUME NEW h \in Groups, sending[h].intact, losses = 1 PROVE h = g
  <2>1. h \in used
    BY <1>5, SenderFacts
  <2> QED BY <2>1, <1>1, <1>4, <1>5 DEF Tol, Single
<1>6. CASE Ok /\ Sent(TRUE) /\ t.intact
  <2>1. PICK c \in Slots :
          /\ Holds(c, g) /\ Own(c, g)
          /\ \A s \in Slots \ {c} : slots'[s] = slots[s]
          /\ slots'[c].group = g
          /\ slots'[c].next = (t.sent + 1) % IndexMod
          /\ slots'[c].expected = t.conts + 1
          /\ Len(slots'[c].got) = t.sent + 2
          /\ \A k \in 1 .. t.sent + 2 : slots'[c].got[k] = Chunk(t.id, k - 1)
          /\ slots'[c].active <=> t.sent + 1 < t.conts
    BY <1>4, <1>6, ContOfIntact
  <2>2. ASSUME NEW s \in Slots, slots'[s].active
        PROVE  slots[s].active /\ slots[s].group = slots'[s].group
    BY <2>1, <2>2 DEF Holds
  <2>3. ASSUME NEW h \in Groups, h # g, sending[h].intact
        PROVE  \E d \in Slots : Holds(d, h)' /\ Own(d, h)'
    <3>1. PICK d \in Slots : Holds(d, h) /\ Own(d, h)
      BY <1>4, <2>3 DEF Live
    <3>2. d # c
      BY <2>1, <2>3, <3>1 DEF Holds
    <3>3. Holds(d, h)'
      <4>1. slots'[d] = slots[d] /\ sending'[h] = sending[h]
        BY <2>1, <3>2, <2>3, <1>1
      <4> QED BY <4>1, <3>1 DEF Holds
    <3>4. Own(d, h)'
      BY <3>1, <2>2, <1>6 DEF Own
    <3> QED BY <3>3, <3>4
  <2>4. CASE t.sent + 1 = t.conts
    <3>1. sending'[g] = Idle /\ ~slots'[c].active /\ ~sending'[g].intact
          /\ sending'[g].id = 0
      BY <1>1, <1>6, <2>1, <2>4, IdleFacts
    <3>2. Live'
      BY <3>1, <2>3, <1>1 DEF Live
    <3>3. ASSUME NEW s \in Slots, slots'[s].active
          PROVE  /\ slots'[s].group \in used'
                 /\ losses' = 0 => sending'[slots'[s].group].intact
                 /\ losses' = 0 /\ Single' => s = 1
                 /\ losses' = 1 /\ (\A h \in Groups : ~sending'[h].intact) => s = 1
                 /\ Behind(s)'
      <4>1. s # c /\ slots'[s] = slots[s] /\ slots[s].active
            /\ slots[s].group \in Groups
        BY <3>1, <3>3, <2>1, <1>1, <1>4 DEF Types, Stale
      <4>2. losses = 1 => s = 1
        BY <4>1, <2>1 DEF Own
      <4>3. losses = 0 => slots[s].group # g
        BY <4>1, <2>1 DEF Own
      <4>4. Behind(s)'
        <5>1. CASE slots[s].group = g
          BY <5>1, <4>1, <3>1 DEF Behind
        <5>2. CASE slots[s].group # g
          <6>1. sending'[slots[s].group] = sending[slots[s].group]
            BY <5>2, <4>1, <1>1
          <6>2. Behind(s)
            BY <4>1, <1>4 DEF Stale
          <6> QED BY <4>1, <6>1, <6>2 DEF Behind
        <5> QED BY <5>1, <5>2
      <4>5. losses = 0 => sending'[slots[s].group].intact
        BY <4>1, <4>3, <1>1, <1>4 DEF Stale
      <4> QED BY <4>1, <4>2, <4>4, <4>5, <1>1, <1>4, <1>6 DEF Stale, Single
    <3> QED BY <3>2, <3>3 DEF Stale
  <2>5. CASE t.sent + 1 # t.conts
    <3>1. /\ sending'[g].id = t.id /\ sending'[g].conts = t.conts
          /\ sending'[g].sent = t.sent + 1 /\ sending'[g].intact
          /\ slots'[c].active
      BY <1>1, <1>6, <2>1, <2>5
    <3>2. Holds(c, g)'
      <4>1. t.sent + 1 + 1 = t.sent + 2
        BY <1>1
      <4> QED BY <2>1, <3>1, <4>1 DEF Holds
    <3>3. Own(c, g)'
      BY <2>1, <2>2, <1>6 DEF Own
    <3>4. Live'
      BY <3>2, <3>3, <2>3, <1>1 DEF Live
    <3>5. ASSUME NEW s \in Slots, slots'[s].active
          PROVE  /\ slots'[s].group \in used'
                 /\ losses' = 0 => sending'[slots'[s].group].intact
                 /\ losses' = 0 /\ Single' => s = 1
                 /\ losses' = 1 /\ (\A h \in Groups : ~sending'[h].intact) => s = 1
                 /\ Behind(s)'
      <4>1. slots[s].active /\ slots'[s].group = slots[s].group
            /\ slots[s].group \in Groups
        BY <3>5, <2>2, <1>4 DEF Stale, Types
      <4>2. CASE slots[s].group = g
        BY <4>1, <4>2, <3>1, <1>1, <1>4, <1>6 DEF Stale, Single, Behind
      <4>3. CASE slots[s].group # g
        <5>1. s # c /\ slots'[s] = slots[s]
              /\ sending'[slots[s].group] = sending[slots[s].group]
          BY <4>1, <4>3, <2>1, <1>1 DEF Holds
        <5> QED BY <5>1, <4>1, <3>1, <1>1, <1>4, <1>6 DEF Stale, Single, Behind
      <4> QED BY <4>2, <4>3
    <3> QED BY <3>4, <3>5 DEF Stale
  <2> QED BY <2>4, <2>5
<1>7. CASE Ok /\ Sent(TRUE) /\ ~t.intact
  <2>1. /\ ~sending'[g].intact
        /\ sending'[g].id # 0 => /\ sending'[g].sent = t.sent + 1
                                 /\ sending'[g].conts = t.conts
    BY <1>7, IdleFacts
  <2>2. \/ slots' = slots
        \/ \E c \in Slots :
             /\ slots[c].active /\ slots[c].group = g
             /\ \A s \in Slots \ {c} : slots'[s] = slots[s]
             /\ slots'[c].group = g /\ slots'[c].expected = slots[c].expected
             /\ Len(slots'[c].got) = Len(slots[c].got) + 1
    <3>1. Chunk(t.id, t.sent + 1) \in Chunks
      BY <1>1 DEF Chunk, Chunks
    <3>2. SUFFICES ASSUME slots' # slots
                   PROVE  \E c \in Slots :
             /\ slots[c].active /\ slots[c].group = g
             /\ \A s \in Slots \ {c} : slots'[s] = slots[s]
             /\ slots'[c].group = g /\ slots'[c].expected = slots[c].expected
             /\ Len(slots'[c].got) = Len(slots[c].got) + 1
      OBVIOUS
    <3> DEFINE c == findPending(g, NextIndex(t))
    <3>3. /\ c \in Matching(g, NextIndex(t))
          /\ slots'[c] = Fill(slots[c], Chunk(t.id, t.sent + 1))
          /\ \A s \in Slots \ {c} : slots'[s] = slots[s]
      BY <1>7, <3>1, <3>2, FeedContFacts
    <3>4. c \in Slots /\ slots[c].active /\ slots[c].group = g /\ slots[c] \in Slot
      BY <3>3 DEF Matching, Types
    <3> DEFINE o == slots[c]
               n == Fill(o, Chunk(t.id, t.sent + 1))
    <3>5. /\ n.group = o.group /\ n.expected = o.expected
          /\ Len(n.got) = Len(o.got) + 1
      <4> HIDE DEF o
      <4>1. o \in Slot
        BY <3>4 DEF o
      <4> QED BY <3>1, <4>1, FillFacts
    <3>6. /\ slots'[c].group = g /\ slots'[c].expected = slots[c].expected
          /\ Len(slots'[c].got) = Len(slots[c].got) + 1
      BY <3>3, <3>4, <3>5
    <3> HIDE DEF c
    <3> QED BY <3>3, <3>4, <3>6
  <2>3. ASSUME NEW s \in Slots, slots'[s].active
        PROVE  slots[s].active /\ slots'[s].group = slots[s].group
    BY <2>2, <2>3
  <2>4. losses = 0 => slots' = slots
    BY <2>2, <1>4, <1>7 DEF Stale
  <2>5. ASSUME NEW h \in Groups, sending'[h].intact
        PROVE  \E d \in Slots : Holds(d, h)' /\ Own(d, h)'
    <3>1. h # g /\ sending'[h] = sending[h] /\ sending[h].intact
      BY <2>1, <2>5, <1>1
    <3>2. losses = 0 /\ losses' = 0 /\ slots' = slots
      BY <3>1, <1>4, <1>5, <1>7, <2>4 DEF Tol
    <3>3. PICK d \in Slots : Holds(d, h) /\ Own(d, h)
      BY <1>4, <3>1 DEF Live
    <3>4. Holds(d, h)'
      BY <3>1, <3>2, <3>3 DEF Holds
    <3>5. Own(d, h)'
      BY <3>2, <3>3 DEF Own
    <3> QED BY <3>4, <3>5
  <2>6. ASSUME NEW s \in Slots, slots'[s].active
        PROVE  /\ slots'[s].group \in used'
               /\ losses' = 0 => sending'[slots'[s].group].intact
               /\ losses' = 0 /\ Single' => s = 1
               /\ losses' = 1 /\ (\A h \in Groups : ~sending'[h].intact) => s = 1
               /\ Behind(s)'
    <3>1. /\ slots[s].active /\ slots'[s].group = slots[s].group
          /\ slots[s].group \in Groups /\ slots[s].group \in used /\ Behind(s)
      BY <2>3, <2>6, <1>4 DEF Stale, Types
    <3>2. losses' = 0 => sending'[slots'[s].group].intact
      BY <3>1, <1>1, <1>4, <1>7 DEF Stale
    <3>3. losses' = 0 /\ Single' => s = 1
      BY <3>1, <1>1, <1>4, <1>7 DEF Stale, Single
    <3>4. ASSUME losses' = 1, \A h \in Groups : ~sending'[h].intact PROVE s = 1
      <4>1. \A h \in Groups : ~sending[h].intact
        BY <3>4, <1>1, <1>7
      <4> QED BY <4>1, <3>1, <3>4, <1>4, <1>7 DEF Stale
    <3>5. CASE slots[s].group = g
      <4>1. Len(slots[s].got) <= t.sent /\ slots[s].expected = t.conts + 1
        BY <3>1, <3>5, <1>1, <1>7 DEF Behind
      <4>2. /\ Len(slots'[s].got) \in {Len(slots[s].got), Len(slots[s].got) + 1}
            /\ slots'[s].expected = slots[s].expected
        BY <2>2
      <4>3. Len(slots[s].got) \in Nat
        BY PoolFacts
      <4>4. Len(slots'[s].got) <= t.sent + 1
        BY <4>1, <4>2, <4>3, <1>1
      <4>5. Behind(s)'
        BY <4>1, <4>2, <4>4, <3>1, <3>5, <2>1 DEF Behind
      <4> QED BY <3>1, <3>2, <3>3, <3>4, <4>5, <1>1
    <3>6. CASE slots[s].group # g
      <4>1. slots'[s] = slots[s]
        BY <2>2, <3>6
      <4>2. sending'[slots[s].group] = sending[slots[s].group]
        BY <3>1, <3>6, <1>1
      <4>3. Behind(s)'
        BY <4>1, <4>2, <3>1 DEF Behind
      <4> QED BY <3>1, <3>2, <3>3, <3>4, <4>3, <1>1
    <3> QED BY <3>5, <3>6
  <2> QED BY <2>5, <2>6 DEF Live, Stale
<1>8. CASE Bad /\ Sent(FALSE)
  <2>1. losses = 0 /\ losses' = 1 /\ Single /\ slots' = slots
    BY <1>1, <1>3, <1>8 DEF Tol, Single
  <2>2. ASSUME NEW h \in Groups, sending'[h].intact PROVE FALSE
    <3>1. h # g
      BY <2>2, <1>8, IdleFacts
    <3>2. sending[h].intact
      BY <3>1, <2>2, <1>1
    <3>3. h \in used
      BY <3>2, SenderFacts
    <3> QED BY <3>1, <3>3, <2>1, <1>1 DEF Single
  <2>3. ASSUME NEW s \in Slots, slots[s].active
        PROVE  slots[s].group \in used /\ s = 1 /\ Behind(s)'
    <3>1. /\ slots[s].group \in used /\ s = 1
          /\ sending[slots[s].group].intact
      BY <2>1, <2>3, <1>4 DEF Stale
    <3>2. slots[s].group = g
      BY <3>1, <2>1, <1>1 DEF Single
    <3>3. PICK c \in Slots : Holds(c, g) /\ Own(c, g)
      BY <3>1, <3>2, <1>4 DEF Live
    <3>4. s = c
      BY <3>2, <3>3, <2>1, <2>3 DEF Own
    <3>5. Len(slots[s].got) = t.sent + 1 /\ slots[s].expected = t.conts + 1
      BY <3>3, <3>4 DEF Holds
    <3>6. sending'[g].id # 0 => /\ sending'[g].sent = t.sent + 1
                                /\ sending'[g].conts = t.conts
      BY <1>8, IdleFacts
    <3>7. Behind(s)'
      BY <3>2, <3>5, <3>6, <2>1, <1>1 DEF Behind
    <3> QED BY <3>1, <3>7
  <2>4. Live'
    BY <2>2 DEF Live
  <2>5. Stale'
    BY <2>1, <2>3, <1>1 DEF Stale
  <2> QED BY <2>4, <2>5
<1> QED BY <1>2, <1>6, <1>7, <1>8

LEMMA SoundStart ==
  ASSUME Types, Sound, NEW g \in Groups, SendStart(g), Tol'
  PROVE  Live' /\ Stale'
<1>1. PICK conts \in 1 .. MaxConts, ok \in BOOLEAN :
        /\ IF ok THEN FeedStart(g, telegrams', conts) /\ losses' = losses
                 ELSE losses' = losses + 1 /\ slots' = slots
        /\ sending' = [sending EXCEPT ![g] =
             [id |-> telegrams', conts |-> conts, sent |-> 0, intact |-> ok]]
  BY DEF SendStart, Lost
<1>2. /\ used' = used \cup {g} /\ sending[g].id = 0 /\ ~sending[g].intact
      /\ sending'[g].intact = ok /\ sending'[g].sent = 0
      /\ sending'[g].conts = conts /\ sending'[g].id = telegrams'
      /\ \A h \in Groups \ {g} : sending'[h] = sending[h]
  BY <1>1, SenderFacts DEF SendStart, Types
<1>3. losses \in Nat /\ conts \in Nat /\ telegrams' \in Nat
  BY PoolAssumption DEF Types, SendStart
<1>4. Tol /\ Live /\ Stale
  BY <1>1, <1>2, <1>3 DEF Tol, Single, Sound
<1>5. ASSUME Single', NEW h \in Groups PROVE ~sending[h].intact
  <2>1. sending[h].intact => h \in used
    BY SenderFacts
  <2> QED BY <2>1, <1>2, <1>5 DEF Single
<1>6. CASE ok
  <2>11. PICK c \in Slots : c = allocSlot
    BY AllocFacts
  <2>0. PICK id \in Nat : id = telegrams'
    BY <1>3
  <2>1. /\ slots'[c] = [active |-> TRUE, group |-> g, next |-> 0,
                        expected |-> conts + 1, got |-> <<Chunk(id, 0)>>,
                        startedAt |-> seq]
        /\ \A s \in Slots \ {c} : slots'[s] = slots[s]
    <3>1. FeedStart(g, id, conts)
      BY <1>1, <1>6, <2>0
    <3> QED BY <3>1, <2>11, <1>3, FeedStartFacts
  <2>2. losses' = losses
    BY <1>1, <1>6
  <2>3. losses = 0 => /\ ~slots[c].active
                      /\ \A r \in Slots : ~slots[r].active => c <= r
    BY <2>11, <1>2, <1>4, RoomForAll, AllocFacts
  <2>4. Holds(c, g)'
    <3>1. 0 % IndexMod = 0
      BY SlotsFacts
    <3>2. /\ slots'[c].active /\ slots'[c].group = g /\ slots'[c].next = 0
          /\ slots'[c].expected = conts + 1 /\ Len(slots'[c].got) = 1
          /\ slots'[c].got[1] = Chunk(id, 0)
      BY <2>1
    <3>3. \A k \in 1 .. 0 + 1 : k = 1 /\ k - 1 = 0
      OBVIOUS
    <3>4. /\ sending'[g].sent = 0 /\ sending'[g].conts = conts
          /\ sending'[g].id = id /\ 0 + 1 = 1
      BY <1>2, <2>0
    <3>5. \A k \in 1 .. 0 + 1 : slots'[c].got[k] = Chunk(id, k - 1)
      BY <3>2, <3>3
    <3> QED BY <3>1, <3>2, <3>4, <3>5 DEF Holds
  <2>5. slots'[c].active /\ slots'[c].group = g
    BY <2>1
  <2>6. losses = 0 => \A s \in Slots : slots[s].active => slots[s].group # g
    BY <1>2, <1>4 DEF Stale
  <2>7. losses = 1 => \A s \in Slots : slots[s].active => s = 1
    <3>1. losses = 1 => Single'
      BY <2>2, <1>3 DEF Tol
    <3> QED BY <3>1, <1>4, <1>5 DEF Stale
  <2>8. Own(c, g)'
    BY <2>1, <2>2, <2>6, <2>7 DEF Own
  <2>9. ASSUME NEW h \in Groups, h # g, sending'[h].intact
        PROVE  \E d \in Slots : Holds(d, h)' /\ Own(d, h)'
    <3>1. sending[h].intact /\ sending'[h] = sending[h]
      BY <1>2, <2>9
    <3>2. losses = 0
      BY <3>1, <1>3, <1>5, <2>2 DEF Tol
    <3>3. PICK d \in Slots : Holds(d, h) /\ Own(d, h)
      BY <3>1, <1>4 DEF Live
    <3>4. d # c
      BY <2>3, <3>2, <3>3 DEF Holds
    <3>5. Holds(d, h)'
      <4>1. slots'[d] = slots[d]
        BY <2>1, <3>4
      <4> QED BY <3>1, <4>1, <3>3 DEF Holds
    <3>6. Own(d, h)'
      BY <2>1, <2>2, <2>5, <2>9, <3>2, <3>3 DEF Own
    <3> QED BY <3>5, <3>6
  <2>10. ASSUME NEW s \in Slots, slots'[s].active
         PROVE  /\ slots'[s].group \in used'
                /\ losses' = 0 => sending'[slots'[s].group].intact
                /\ losses' = 0 /\ Single' => s = 1
                /\ losses' = 1 /\ (\A h \in Groups : ~sending'[h].intact) => s = 1
                /\ Behind(s)'
    <3>1. sending'[g].intact /\ g \in Groups
      BY <1>2, <1>6
    <3>2. CASE s = c
      <4>1. ASSUME losses = 0, Single' PROVE c = 1
        <5>1. ASSUME slots[1].active PROVE FALSE
          <6>1. slots[1].group \in Groups /\ sending[slots[1].group].intact
            BY <5>1, <4>1, <1>4, SlotsFacts DEF Stale, Types
          <6> QED BY <6>1, <4>1, <1>5
        <5>2. c <= 1 /\ 1 <= c /\ c \in Nat
          BY <5>1, <4>1, <2>2, <2>3, SlotsFacts
        <5> QED BY <5>2
      <4>2. Behind(s)'
        BY <3>1, <3>2, <2>5 DEF Behind
      <4> QED BY <3>1, <3>2, <4>1, <4>2, <2>2, <2>5, <1>2
    <3>3. CASE s # c
      <4>1. /\ slots'[s] = slots[s] /\ slots[s].active
            /\ slots[s].group \in used /\ slots[s].group \in Groups
        BY <3>3, <2>1, <2>10, <1>4 DEF Stale, Types
      <4>2. ASSUME losses = 0
            PROVE  sending'[slots[s].group].intact /\ ~Single'
        <5>1. sending[slots[s].group].intact
          BY <4>1, <4>2, <1>4 DEF Stale
        <5>2. slots[s].group # g
          BY <5>1, <1>2
        <5> QED BY <4>1, <5>1, <5>2, <1>2, <1>5
      <4>3. ASSUME losses = 1 PROVE sending'[slots[s].group].intact
        <5>1. slots[s].group = g
          BY <4>1, <4>3, <2>2, <1>2, <1>3 DEF Tol, Single
        <5> QED BY <5>1, <3>1
      <4>4. sending'[slots[s].group].intact
        BY <4>2, <4>3, <1>4 DEF Tol
      <4>5. Behind(s)'
        BY <4>1, <4>4 DEF Behind
      <4>6. slots'[s].group \in used' /\ slots'[s].group \in Groups
        BY <4>1, <1>2
      <4>7. ~(losses' = 0 /\ Single')
        BY <4>2, <2>2
      <4> QED BY <3>1, <4>1, <4>4, <4>5, <4>6, <4>7
    <3> QED BY <3>2, <3>3
  <2> QED BY <2>2, <2>4, <2>8, <2>9, <2>10 DEF Live, Stale
<1>7. CASE ~ok
  <2>1. losses = 0 /\ losses' = 1 /\ Single' /\ slots' = slots
    BY <1>1, <1>3, <1>7 DEF Tol
  <2>2. \A s \in Slots : ~slots'[s].active
    BY <2>1, <1>4, <1>5 DEF Stale, Types
  <2>3. \A h \in Groups : ~sending'[h].intact
    BY <2>1, <1>2, <1>5, <1>7
  <2> QED BY <2>2, <2>3 DEF Live, Stale
<1> QED BY <1>6, <1>7

\* A loss while the telegrams and the pool stay as they are, or one is given
\* up.
LEMMA SoundLost ==
  ASSUME Types, Sound, losses' = losses + 1, slots' = slots, used' = used,
         \A g \in Groups : sending'[g] = sending[g] \/ sending'[g] = Idle,
         Tol'
  PROVE  Live' /\ Stale'
<1>1. losses = 0 /\ losses' = 1 /\ Single /\ Live /\ Stale
  BY DEF Types, Tol, Single, Sound
<1>2. ASSUME NEW s \in Slots, slots[s].active
      PROVE  slots[s].group \in used' /\ s = 1 /\ Behind(s)'
  <2>1. /\ slots[s].group \in used /\ s = 1 /\ slots[s].group \in Groups
        /\ sending[slots[s].group].intact
    BY <1>1, <1>2 DEF Stale, Types
  <2>2. Behind(s)'
    BY <2>1, IdleFacts DEF Behind
  <2> QED BY <2>1, <2>2
<1>3. ASSUME NEW g \in Groups, sending'[g].intact
      PROVE  \E c \in Slots : Holds(c, g)' /\ Own(c, g)'
  <2>1. sending'[g] = sending[g] /\ sending[g].intact
    BY <1>3, IdleFacts
  <2>2. PICK c \in Slots : Holds(c, g)
    BY <2>1, <1>1 DEF Live
  <2>3. Holds(c, g)'
    BY <2>1, <2>2 DEF Holds
  <2>4. Own(c, g)'
    BY <1>1, <1>2 DEF Own
  <2> QED BY <2>3, <2>4
<1> QED BY <1>1, <1>2, <1>3 DEF Live, Stale

LEMMA SoundSame ==
  ASSUME Sound, UNCHANGED <<sending, slots, losses, used>>, Tol'
  PROVE  Live' /\ Stale'
<1>1. Tol /\ Live /\ Stale
  BY DEF Tol, Single, Sound
<1>2. Live'
  BY <1>1 DEF Live, Holds, Own
<1>3. Stale'
  BY <1>1 DEF Stale, Behind, Single
<1> QED BY <1>2, <1>3

LEMMA SoundKept == ASSUME Types, Sound, [Next]_vars PROVE Sound'
<1> SUFFICES ASSUME Tol' PROVE Live' /\ Stale'
  BY DEF Sound
<1>1. CASE UNCHANGED vars
  BY <1>1, SoundSame DEF vars
<1>2. ASSUME NEW g \in Groups, SendShort(g) PROVE Live' /\ Stale'
  <2>1. /\ sending' = sending /\ used' = used /\ slots' = slots
        /\ losses' = losses \/ losses' = losses + 1
    BY <1>2 DEF SendShort, Lost
  <2> QED BY <2>1, SoundSame, SoundLost
<1>3. ASSUME NEW g \in Groups, SendPartial(g) PROVE Live' /\ Stale'
  <2>1. /\ sending' = [sending EXCEPT ![g] = Idle] /\ used' = used
        /\ slots' = slots /\ losses' = losses + 1
    BY <1>3 DEF SendPartial, Lost
  <2>2. \A h \in Groups : sending'[h] = sending[h] \/ sending'[h] = Idle
    BY <2>1 DEF Types
  <2> QED BY <2>1, <2>2, SoundLost
<1>4. CASE Reset
  BY <1>4, ResetFacts DEF Live, Stale
<1>5. CASE Next
  BY <1>2, <1>3, <1>4, <1>5, SoundStart, SoundCont DEF Next
<1> QED BY <1>1, <1>5

LEMMA InitSound == Init => Types /\ Sound
<1>1. ASSUME Init PROVE Sound
  <2>1. \A g \in Groups : sending[g].intact = FALSE
    BY <1>1, IdleFacts DEF Init
  <2>2. \A s \in Slots : slots[s].active = FALSE
    BY <1>1 DEF Init, Free
  <2> QED BY <2>1, <2>2 DEF Sound, Live, Stale
<1> QED BY <1>1, InitTypes

\* A telegram that is intact has a slot with exactly what was sent of it, and
\* what a loss left behind lies below it, short of its end.
THEOREM TransportInvariance == Spec => [](Types /\ Sound)
  BY InitSound, TypesKept, SoundKept, PTL DEF Spec

-----------------------------------------------------------------------------
(* What feed returns.                                                      *)

Returned == out = <<>> \/ \E id \in Nat, n \in Nat : out = Whole(id, n)

\* A continuation completes its telegram or nothing.
LEMMA ContReturns ==
  ASSUME Types, Sound, Tol, NEW g \in Groups, SendCont(g) PROVE Returned'
<1> DEFINE t == sending[g]
           chunk == Chunk(t.id, t.sent + 1)
<1>1. /\ t.id # 0 /\ t.sent < t.conts
      /\ t.sent \in Nat /\ t.conts \in Nat /\ t.id \in Nat
  BY SendingFacts, SenderFacts DEF Telegram
<1>2. Live /\ Stale
  BY DEF Sound
<1>3. CASE FeedCont(g, NextIndex(t), chunk)
  <2>1. CASE t.intact /\ t.sent + 1 = t.conts
    BY <1>1, <1>2, <1>3, <2>1, WholeAtLast DEF Returned
  <2>2. CASE t.intact /\ t.sent + 1 # t.conts
    <3>1. PICK c \in Slots :
            /\ slots'[c].active <=> t.sent + 1 < t.conts
            /\ out' = IF slots'[c].active THEN <<>> ELSE slots'[c].got
      BY <1>2, <1>3, <2>2, ContOfIntact
    <3> QED BY <1>1, <2>2, <3>1 DEF Returned
  <2>3. CASE ~t.intact
    <3>1. chunk \in Chunks
      BY <1>1 DEF Chunk, Chunks
    <3>2. SUFFICES ASSUME Matching(g, NextIndex(t)) # {} PROVE Returned'
      BY <1>3, <3>1, FeedContFacts DEF Returned
    <3>3. PICK c \in Matching(g, NextIndex(t)) :
            /\ slots'[c] = Fill(slots[c], chunk)
            /\ out' = IF slots'[c].active THEN <<>> ELSE slots'[c].got
      BY <1>3, <3>1, <3>2, FeedContFacts
    <3>4. /\ c \in Slots /\ slots[c].active /\ slots[c].group = g
          /\ slots[c] \in Slot
      BY DEF Matching, Types
    <3>5. Len(slots[c].got) <= t.sent /\ slots[c].expected = t.conts + 1
      BY <3>4, <2>3, <1>1, <1>2 DEF Stale, Behind
    <3>6. Len(slots[c].got) + 1 < slots[c].expected
      BY <3>4, <3>5, <1>1, PoolFacts
    <3>7. slots'[c].active
      <4>1. Fill(slots[c], chunk).active <=>
              Len(slots[c].got) + 1 < slots[c].expected
        BY <3>1, <3>4, FillFacts
      <4> QED BY <4>1, <3>3, <3>6
    <3> QED BY <3>3, <3>7 DEF Returned
  <2> QED BY <2>1, <2>2, <2>3
<1>4. CASE Lost
  BY <1>4 DEF Lost, Returned
<1> QED BY <1>3, <1>4, SendingFacts

LEMMA ReturnsKept ==
  ASSUME Types, Sound, Tol => Returned, [Next]_vars, Tol' PROVE Returned'
<1>1. losses \in Nat
  BY DEF Types
<1>2. CASE UNCHANGED vars
  BY <1>2 DEF vars, Tol, Single, Returned
<1>3. ASSUME NEW g \in Groups, SendShort(g) PROVE Returned'
  <2>1. telegrams' \in Nat
    BY <1>3, CountsKept
  <2>2. out' = <<>> \/ out' = Whole(telegrams', 0)
    BY <1>3 DEF SendShort, Lost
  <2>3. PICK id \in Nat : id = telegrams'
    BY <2>1
  <2>4. out' = <<>> \/ out' = Whole(id, 0)
    BY <2>2, <2>3
  <2> QED BY <2>4 DEF Returned
<1>4. ASSUME NEW g \in Groups, SendStart(g) PROVE Returned'
  BY <1>4 DEF SendStart, FeedStart, Lost, Returned
<1>5. ASSUME NEW g \in Groups, SendCont(g) PROVE Returned'
  <2>1. Tol
    <3>1. used \subseteq used' /\ losses' \in {losses, losses + 1}
      BY <1>5, CountsKept
    <3> QED BY <3>1, <1>1 DEF Tol, Single
  <2> QED BY <2>1, <1>5, ContReturns
<1>6. ASSUME NEW g \in Groups, SendPartial(g) PROVE Returned'
  BY <1>6 DEF SendPartial, Lost, Returned
<1>7. CASE Reset
  BY <1>7 DEF Reset, Returned
<1> QED BY <1>2, <1>3, <1>4, <1>5, <1>6, <1>7 DEF Next

LEMMA WholeFacts ==
  ASSUME NEW id \in Nat, NEW n \in Nat
  PROVE  Whole(id, n)[1][1] = id /\ Len(Whole(id, n)) = n + 1
<1>1. Whole(id, n)[1] = Chunk(id, 0)
  BY DEF Whole
<1>2. DOMAIN Whole(id, n) = 1 .. n + 1 /\ Whole(id, n) \in Seq(Chunks)
  BY DEF Whole, Chunk, Chunks
<1>3. Len(Whole(id, n)) \in Nat /\ 1 .. n + 1 = 1 .. Len(Whole(id, n))
  BY <1>2, LenProperties
<1> QED BY <1>1, <1>3 DEF Chunk

\* feed never returns anything that was not sent as it is, however the streams
\* interleave and whichever frame is lost: Genuine.
THEOREM TransportGenuine == Spec => []Genuine
<1> DEFINE Inv == Types /\ Sound /\ (Tol => Returned)
<1>1. Init => Inv
  BY InitSound DEF Init, Returned
<1>2. Inv /\ [Next]_vars => Inv'
  BY TypesKept, SoundKept, ReturnsKept
<1>3. Inv => Genuine
  <2> SUFFICES ASSUME Inv, Tolerable, out # <<>>
               PROVE  out = Whole(out[1][1], Len(out) - 1)
    BY DEF Genuine
  <2>1. PICK id \in Nat, n \in Nat : out = Whole(id, n)
    BY TolerableIsTol DEF Returned
  <2>2. out[1][1] = id /\ Len(out) = n + 1
    BY <2>1, WholeFacts
  <2>3. n + 1 - 1 = n
    OBVIOUS
  <2> QED BY <2>1, <2>2, <2>3
<1> HIDE DEF Inv
<1> QED BY <1>1, <1>2, <1>3, PTL DEF Spec

\* A telegram that arrives whole is returned with its last frame: Delivers.
THEOREM TransportDelivers == Spec => Delivers
<1>1. Types /\ Sound /\ [Next]_vars
        => [\A g \in Groups :
              LastFrame(g) /\ Tolerable' /\ losses' = losses
                => out' = Whole(sending[g].id, sending[g].conts)]_vars
  <2> SUFFICES ASSUME Types, Sound, NEW g \in Groups, LastFrame(g),
                      Tolerable', losses' = losses
               PROVE  out' = Whole(sending[g].id, sending[g].conts)
    OBVIOUS
  <2>1. /\ SendCont(g) /\ sending[g].intact
        /\ sending[g].sent + 1 = sending[g].conts
    BY DEF LastFrame
  <2>2. used' = used
    BY <2>1 DEF SendCont
  <2>3. Tol /\ Live
    BY <2>2, TolerableIsTol DEF Tolerable, Sound
  <2>4. losses' # losses + 1
    BY DEF Types
  <2>5. FeedCont(g, NextIndex(sending[g]),
                 Chunk(sending[g].id, sending[g].sent + 1))
    BY <2>1, <2>4, SendingFacts DEF Lost
  <2> QED BY <2>1, <2>3, <2>5, WholeAtLast
<1> QED BY <1>1, TransportInvariance, PTL DEF Spec, Delivers

\* The pool holds no more partial telegrams than streams are in progress and
\* frames were lost: LeaksBounded.
THEOREM TransportLeaksBounded == Spec => []LeaksBounded
<1>1. Types /\ Sound => LeaksBounded
  <2> DEFINE Active == {s \in Slots : slots[s].active}
             Intact == {g \in Groups : sending[g].intact}
  <2> SUFFICES ASSUME Types, Sound, Tolerable
               PROVE  Cardinality(Active) <= Cardinality(Intact) + losses
    BY DEF LeaksBounded
  <2>1. Tol /\ Live /\ Stale
    BY TolerableIsTol DEF Sound
  <2>2. IsFiniteSet(Intact) /\ Cardinality(Intact) \in Nat
    <3>1. IsFiniteSet(Groups) /\ Intact \in SUBSET Groups
      BY PoolAssumption
    <3> QED BY <3>1, FS_Subset, FS_CardinalityType
  <2>3. CASE losses = 0
    <3> DEFINE f == [s \in Active |-> slots[s].group]
    <3>1. f \in [Active -> Intact]
      BY <2>1, <2>3 DEF Stale, Types
    <3>2. ASSUME NEW x \in Active, NEW y \in Active, f[x] = f[y] PROVE x = y
      <4>1. slots[x].group \in Groups /\ sending[slots[x].group].intact
        BY <2>1, <2>3 DEF Stale, Types
      <4>2. PICK c \in Slots : Own(c, slots[x].group)
        BY <4>1, <2>1 DEF Live
      <4>3. slots[x].group = slots[y].group
        BY <3>2
      <4> QED BY <4>2, <4>3, <2>3 DEF Own
    <3>3. f \in Injection(Active, Intact)
      <4>1. DOMAIN f = Active
        OBVIOUS
      <4> HIDE DEF f, Active, Intact
      <4> QED BY <3>1, <3>2, <4>1 DEF Injection, IsInjective
    <3>4. Cardinality(Active) <= Cardinality(Intact)
      <4> HIDE DEF f, Active, Intact
      <4> QED BY <2>2, <3>3, FS_Injection
    <3> QED BY <2>2, <2>3, <3>4
  <2>4. CASE losses = 1 /\ Intact = {}
    <3>1. Active \in SUBSET {1}
      BY <2>1, <2>4 DEF Stale
    <3>2. Cardinality(Active) <= 1
      <4>1. IsFiniteSet({1}) /\ Cardinality({1}) = 1
        BY FS_Singleton
      <4> HIDE DEF Active
      <4>2. Cardinality(Active) <= Cardinality({1})
        BY <3>1, <4>1, FS_Subset
      <4> QED BY <4>1, <4>2
    <3>3. Cardinality(Intact) = 0
      BY <2>4, FS_EmptySet
    <3> QED BY <2>4, <3>2, <3>3
  <2>5. CASE losses = 1 /\ Intact # {}
    <3>1. PICK g \in Groups : sending[g].intact
      BY <2>5
    <3>2. PICK c \in Slots : Own(c, g)
      BY <3>1, <2>1 DEF Live
    <3>3. Active \in SUBSET ({c} \cup {1})
      BY <3>2, <2>5 DEF Own
    <3>4. IsFiniteSet({c}) /\ Cardinality({c}) = 1
      BY FS_Singleton
    <3>5. /\ IsFiniteSet({c} \cup {1})
          /\ Cardinality({c} \cup {1}) = IF 1 \in {c} THEN 1 ELSE 1 + 1
      BY <3>4, FS_AddElement
    <3>6. Cardinality(Active) <= Cardinality({c} \cup {1})
      <4> HIDE DEF Active
      <4> QED BY <3>3, <3>5, FS_Subset
    <3>7. Cardinality(Intact) # 0
      BY <2>2, <2>5, FS_EmptySet
    <3>8. Cardinality(Active) \in Nat
      <4> HIDE DEF Active
      <4> QED BY <3>3, <3>5, FS_Subset, FS_CardinalityType
    <3>9. Cardinality({c} \cup {1}) \in {1, 2}
      BY <3>5
    <3> HIDE DEF Active, Intact
    <3> QED BY <2>2, <2>5, <3>6, <3>7, <3>8, <3>9
  <2> QED BY <2>1, <2>3, <2>4, <2>5 DEF Tol
<1> QED BY <1>1, TransportInvariance, PTL
=============================================================================
