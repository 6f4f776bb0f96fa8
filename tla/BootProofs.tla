----------------------------- MODULE BootProofs -----------------------------
(***************************************************************************)
(* Proofs about Boot, for every number of components, every division of    *)
(* them into tasks, every grace period and every crash threshold.  The     *)
(* inductive invariant is BInv.                                            *)
(***************************************************************************)
EXTENDS Boot, FiniteSetTheorems, TLAPS

\* Each Restart is queued, being dispatched, or has its Ticker1 handler.
Turns ==
  /\ tickers + queued + (IF turn = 0 THEN 0 ELSE 1) <= rounds
  /\ going => tickers > 0

\* A planned reset is marked in the record exactly while a restart is under way.
Flagged == rounds > 0 <=> rtc.soft \/ rtc.firmware \/ rtc.partition

\* The counter in the record lacks the crashes up to the last late one, and no
\* others.
Counting == rtc.early = Lasting /\ LoopProtection

\* What the vote keeps through one Restart, of components that report only what
\* they announced.
Seen == {Order[i] : i \in 1 .. turn - 1}

Vote ==
  /\ IsFiniteSet(busy) /\ pending = Cardinality(busy)
  /\ pending <= Len(Order)
  /\ turn > 0 => pending <= turn - 1 /\ busy \subseteq Seen /\ known \subseteq Seen
  /\ turn > 1 => Order[1] \in busy
  /\ rounds = 0 \/ queued > 0 => busy = {} /\ known = {}
  /\ busy # {} \/ queued > 0 \/ turn > 0 => timer + given >= Grace
  /\ NoEarlyReset

Fair == rounds <= 1 /\ silent = down

BInv ==
  /\ TypeOK /\ Turns /\ Flagged /\ Counting /\ ReasonIsTrueElse
  /\ shutting => rounds > 0
  /\ Fair => Vote

-----------------------------------------------------------------------------
(* The record.                                                             *)

LEMMA ClearedIsRecord == Cleared \in Record
  BY DEF Cleared, Record

\* What the constructor makes of a record.
LEMMA ReasonFacts ==
  ASSUME NEW r \in Record
  PROVE  /\ Reason(r) \in Reasons \ {"PowerOn", "Wakeup"}
         /\ Reason(r) \in Planned <=> r.soft \/ r.firmware \/ r.partition
         /\ Reason(r) = "EarlyCrash"
              <=> ~(r.soft \/ r.firmware \/ r.partition) /\ ~r.stable
         /\ Reason(r) = "Crash"
              <=> ~(r.soft \/ r.firmware \/ r.partition) /\ r.stable
<1>1. r.soft \in BOOLEAN /\ r.firmware \in BOOLEAN /\ r.partition \in BOOLEAN
      /\ r.stable \in BOOLEAN
  BY DEF Record
<1> QED BY <1>1 DEF Reason, Reasons, Planned

LEMMA CountedFacts ==
  ASSUME NEW r \in Record
  PROVE  /\ Counted(r) \in Record
         /\ Reason(r) \in Planned => Counted(r).early = 0
         /\ Reason(r) = "EarlyCrash" => Counted(r).early = r.early + 1
         /\ Reason(r) = "Crash" => Counted(r).early = r.early
<1>1. CASE Reason(r) \in Planned
  BY <1>1 DEF Counted, Record, Planned
<1>2. CASE Reason(r) = "EarlyCrash"
  BY <1>2 DEF Counted, Record, Planned
<1>3. CASE Reason(r) \notin Planned /\ Reason(r) # "EarlyCrash"
  BY <1>3 DEF Counted, Record, Planned
<1> QED BY <1>1, <1>2, <1>3 DEF Planned

LEMMA FlagsResetFacts ==
  ASSUME NEW r \in Record
  PROVE  /\ FlagsReset(r) \in Record /\ FlagsReset(r).early = r.early
         /\ ~FlagsReset(r).soft /\ ~FlagsReset(r).firmware
         /\ ~FlagsReset(r).partition /\ ~FlagsReset(r).stable
  BY DEF FlagsReset, Record

LEMMA LevelType ==
  ASSUME NEW c \in Levels, NEW why \in Reasons, NEW n \in Nat
  PROVE  /\ InitLevel(c, why, n) \in Levels
         /\ why = "PartitionUpdate" \/ n >= DisableCount
              => InitLevel(c, why, n) = "off"
         /\ n >= MinimalCount => InitLevel(c, why, n) # "full"
         /\ why # "PartitionUpdate" /\ n < MinimalCount
              => InitLevel(c, why, n) = c
  BY BootAssumption DEF InitLevel, Levels

-----------------------------------------------------------------------------
(* Coming up.                                                              *)

\* Nothing of the last boot's vote is left.
LEMMA IdleFacts ==
  ASSUME Idle
  PROVE  /\ shutting' = FALSE /\ deepsleep' = FALSE
         /\ pending' \in 0 .. Width - 1 /\ timer' \in 0 .. Grace
         /\ tickers' \in 0 .. MaxRestarts /\ queued' \in 0 .. MaxRestarts
         /\ turn' \in 0 .. Len(Order) + 1 /\ going' = FALSE
         /\ busy' \subseteq Components /\ known' \subseteq Components
         /\ down' \subseteq MayBeDown /\ silent' \subseteq down'
         /\ rounds' = 0 /\ rounds' \in 0 .. MaxRestarts /\ given' \in 0 .. Grace
         /\ Turns' /\ Vote'
<1>1. Len(Order) \in Nat /\ Width \in Nat /\ Grace \in Nat /\ MaxRestarts \in Nat
      /\ Len(Order) + 1 < Width
  BY BootAssumption
<1>2. IsFiniteSet({}) /\ Cardinality({}) = 0
  BY FS_EmptySet
<1>3. Vote'
  BY <1>1, <1>2 DEF Idle, Vote, NoEarlyReset
<1> QED BY <1>1, <1>3 DEF Idle, Turns

LEMMA ComesUpKeeps ==
  ASSUME BInv, NEW r \in Record, NEW why \in Reasons, NEW p \in History,
         ComesUp(r, why, p),
         r.early = p.streak - p.hidden,
         why \in Planned <=> p.fell = "restart" \/ p.late,
         why = "EarlyCrash" <=> p.fell = "early" /\ ~p.late,
         why = "Crash" <=> p.fell = "crash" /\ ~p.late
  PROVE  BInv'
<1>1. r.early \in Nat
  BY DEF Record
<1>2. conf \in Levels /\ conf' = conf
  BY DEF BInv, TypeOK, ComesUp
<1>3. /\ rtc' \in Record /\ rtc'.early = r.early
      /\ ~rtc'.soft /\ ~rtc'.firmware /\ ~rtc'.partition
  BY FlagsResetFacts DEF ComesUp
<1>4. level' = InitLevel(conf', reason', r.early) /\ level' \in Levels
      /\ past' = p /\ reason' = why
  BY <1>1, <1>2, LevelType DEF ComesUp
<1>5. TypeOK'
  BY <1>2, <1>3, <1>4, IdleFacts DEF ComesUp, TypeOK
<1>6. Lasting' = r.early
  BY <1>4 DEF Lasting
<1>7. LoopProtection'
  BY <1>1, <1>2, <1>4, <1>6, LevelType DEF LoopProtection
<1>8. Flagged' /\ Counting'
  BY <1>3, <1>6, <1>7, IdleFacts DEF ComesUp, Flagged, Counting
<1>9. ReasonIsTrueElse'
  BY <1>4 DEF ReasonIsTrueElse
<1> QED BY <1>5, <1>8, <1>9, IdleFacts DEF BInv, ComesUp

\* A reset with the planned flag set, or without it.
LEMMA RebootKeeps ==
  ASSUME BInv, NEW p \in History, Reboot(p),
         rounds > 0 => p.streak = p.hidden /\ (p.fell = "restart" \/ p.late),
         rounds = 0 => ~p.late,
         rounds = 0 /\ rtc.stable
           => p.streak - p.hidden = Lasting /\ p.fell = "crash",
         rounds = 0 /\ ~rtc.stable
           => p.streak - p.hidden = Lasting + 1 /\ p.fell = "early"
  PROVE  BInv'
<1>1. rtc \in Record /\ rounds \in Nat /\ rtc.stable \in BOOLEAN
      /\ p.streak \in Nat /\ p.hidden \in Nat
  BY BootAssumption DEF BInv, TypeOK, Record, History
<1>2. /\ Counted(rtc) \in Record /\ Reason(rtc) \in Reasons
      /\ ComesUp(Counted(rtc), Reason(rtc), p)
  BY <1>1, CountedFacts, ReasonFacts DEF Reboot
<1>3. Counted(rtc).early = p.streak - p.hidden
  BY <1>1, CountedFacts, ReasonFacts DEF BInv, Flagged, Counting
<1>4. /\ Reason(rtc) \in Planned <=> p.fell = "restart" \/ p.late
      /\ Reason(rtc) = "EarlyCrash" <=> p.fell = "early" /\ ~p.late
      /\ Reason(rtc) = "Crash" <=> p.fell = "crash" /\ ~p.late
  BY <1>1, ReasonFacts DEF BInv, Flagged
<1> QED BY <1>2, <1>3, <1>4, ComesUpKeeps

LEMMA InitBInv == Init => BInv
<1> SUFFICES ASSUME Init PROVE BInv
  OBVIOUS
<1>1. Len(Order) \in Nat /\ Width \in Nat /\ Grace \in Nat /\ MaxRestarts \in Nat
      /\ Len(Order) + 1 < Width
  BY BootAssumption
<1>2. IsFiniteSet({}) /\ Cardinality({}) = 0
  BY FS_EmptySet
<1>3. level \in Levels
  BY LevelType DEF Init, Reasons
<1>4. TypeOK
  <2>1. rtc \in Record /\ past \in History
    BY ClearedIsRecord DEF Init, PoweredOn, PastWith, History
  <2>2. Grace \in Nat /\ 0 \in 0 .. Grace /\ 0 \in 0 .. MaxRestarts
        /\ 0 \in 0 .. Width - 1 /\ 0 \in 0 .. Len(Order) + 1
    BY <1>1
  <2> QED BY <1>3, <2>1, <2>2 DEF Init, TypeOK, Reasons
<1>5. Turns /\ Flagged /\ Counting /\ ReasonIsTrueElse /\ ~shutting
  <2>1. Lasting = 0 /\ past.fell = "power" /\ past.late = FALSE
    BY DEF Init, Lasting, PoweredOn, PastWith
  <2>2. LoopProtection
    BY <2>1, LevelType DEF Init, LoopProtection, Reasons
  <2> QED
    BY <2>1, <2>2 DEF Init, Turns, Flagged, Counting, ReasonIsTrueElse, Cleared,
                      Planned
<1>6. Vote
  BY <1>1, <1>2 DEF Init, Vote, NoEarlyReset
<1> QED BY <1>4, <1>5, <1>6 DEF BInv

LEMMA PowerCycleKeeps ==
  ASSUME BInv, PowerCycle PROVE BInv'
<1>1. Cleared.early = 0 /\ "PowerOn" \in Reasons /\ "PowerOn" \notin Planned
  BY DEF Cleared, Reasons, Planned
<1>2. /\ PoweredOn \in History /\ PoweredOn.fell = "power"
      /\ PoweredOn.late = FALSE
      /\ PoweredOn.streak = 0 /\ PoweredOn.hidden = 0
  BY DEF PoweredOn, PastWith, History
<1>3. ComesUp(Cleared, "PowerOn", PoweredOn)
  BY DEF PowerCycle
<1> QED BY <1>1, <1>2, <1>3, ClearedIsRecord, ComesUpKeeps

\* A late crash hides itself and the ones before it; no other hides anything.
LEMMA CrashedFacts ==
  ASSUME BInv
  PROVE  /\ Crashed \in History /\ (Crashed.late <=> rounds > 0)
         /\ Crashed.fell = IF rtc.stable THEN "crash" ELSE "early"
         /\ rounds > 0 => Crashed.streak = Crashed.hidden
         /\ ~(rounds > 0) => Crashed.streak - Crashed.hidden
                               = IF rtc.stable THEN Lasting ELSE Lasting + 1
<1>0. PICK l \in BOOLEAN : l <=> rounds > 0
  BY Zenon
<1> DEFINE n == IF rtc.stable THEN past.streak ELSE past.streak + 1
           h == IF l THEN n ELSE past.hidden
           f == IF rtc.stable THEN "crash" ELSE "early"
<1>1. past.streak \in Nat /\ past.hidden \in Nat /\ rounds \in Nat
  BY BootAssumption DEF BInv, TypeOK, History
<1>2. n \in Nat /\ h \in Nat
      /\ f \in {"power", "sleep", "restart", "early", "crash"}
  BY <1>1
<1>3. Crashed = PastWith(f, l, n, h)
  <2>1. CASE rounds > 0
    <3>1. l = TRUE /\ (rounds > 0) = TRUE
      BY <1>0, <2>1
    <3> QED BY <3>1, Zenon DEF Crashed
  <2>2. CASE ~(rounds > 0)
    <3>1. l = FALSE /\ (rounds > 0) = FALSE
      BY <1>0, <2>2
    <3> QED BY <3>1, Zenon DEF Crashed
  <2> QED BY <2>1, <2>2
<1>4. ~l => n - h = IF rtc.stable THEN Lasting ELSE Lasting + 1
  BY <1>1 DEF Lasting
<1>5. l => n = h
  OBVIOUS
<1>6. f = IF rtc.stable THEN "crash" ELSE "early"
  OBVIOUS
<1> HIDE DEF n, h, f
<1>7. /\ Crashed \in History /\ Crashed.late = l /\ Crashed.fell = f
      /\ Crashed.streak = n /\ Crashed.hidden = h
  BY <1>2, <1>3 DEF PastWith, History
<1> QED BY <1>0, <1>4, <1>5, <1>6, <1>7

LEMMA CrashKeeps ==
  ASSUME BInv, Crash PROVE BInv'
<1>1. rounds \in Nat
  BY BootAssumption DEF BInv, TypeOK
<1>2. Crashed \in History /\ Reboot(Crashed)
  BY CrashedFacts DEF Crash
<1>3. rounds > 0 => Crashed.streak = Crashed.hidden /\ Crashed.late
  BY CrashedFacts
<1>4. rounds = 0 =>
        /\ ~Crashed.late
        /\ Crashed.streak - Crashed.hidden
             = IF rtc.stable THEN Lasting ELSE Lasting + 1
        /\ Crashed.fell = IF rtc.stable THEN "crash" ELSE "early"
  BY CrashedFacts
<1> HIDE DEF Crashed
<1> QED BY <1>1, <1>2, <1>3, <1>4, RebootKeeps

LEMMA WakeupKeeps ==
  ASSUME BInv, Wakeup PROVE BInv'
<1>1. rtc \in Record /\ past \in History /\ rtc.early = Lasting
  BY DEF BInv, TypeOK, Counting
<1>2. "Wakeup" \in Reasons /\ "Wakeup" \notin Planned
  BY DEF Reasons, Planned
<1>3. /\ Slept \in History /\ Slept.fell = "sleep" /\ Slept.late = FALSE
      /\ Slept.streak = past.streak /\ Slept.hidden = past.hidden
  BY <1>1 DEF Slept, History
<1> QED BY <1>1, <1>2, <1>3, ComesUpKeeps DEF Wakeup, Lasting

LEMMA RestartedFacts ==
  /\ Restarted \in History /\ Restarted.fell = "restart"
  /\ Restarted.late = FALSE
  /\ Restarted.streak = 0 /\ Restarted.hidden = 0
  BY DEF Restarted, PastWith, History

LEMMA RestartHardKeeps ==
  ASSUME BInv, RestartHard PROVE BInv'
<1> DEFINE r == [rtc EXCEPT !.soft = TRUE]
<1>1. r \in Record /\ r.soft
  BY DEF BInv, TypeOK, Record
<1>2. Counted(r) \in Record /\ Counted(r).early = 0
  BY <1>1, CountedFacts, ReasonFacts
<1>3. "SoftReset" \in Reasons /\ "SoftReset" \in Planned
  BY DEF Reasons, Planned
<1>4. ComesUp(Counted(r), "SoftReset", Restarted)
  BY DEF RestartHard
<1> HIDE DEF r
<1> QED BY <1>2, <1>3, <1>4, RestartedFacts, ComesUpKeeps

-----------------------------------------------------------------------------
(* While up.                                                               *)

\* The constants, as the arithmetic below needs them.
LEMMA Numbers ==
  /\ Len(Order) \in Nat /\ Width \in Nat /\ Grace \in Nat /\ MaxRestarts \in Nat
  /\ Len(Order) + 1 < Width /\ 2 \in 0 .. Grace /\ DOMAIN Order = 1 .. Len(Order)
  BY BootAssumption

\* A step that leaves the record and the history alone.
LEMMA StoreKept ==
  ASSUME BInv, UNCHANGED <<store, rounds, past>>
  PROVE  Flagged' /\ Counting' /\ ReasonIsTrueElse'
  BY DEF BInv, store, Flagged, Counting, LoopProtection, Lasting,
         ReasonIsTrueElse

\* A step that leaves the vote alone.
LEMMA VoteKept ==
  ASSUME BInv, UNCHANGED <<vote, rounds, given>>
  PROVE  /\ Turns' /\ (Fair => Vote)'
         /\ shutting' = shutting => (shutting' => rounds' > 0)
<1>1. Turns'
  BY DEF BInv, vote, Turns
<1>2. ASSUME Fair' PROVE Vote'
  <2>1. Vote
    BY <1>2 DEF BInv, Fair, vote
  <2> QED BY <2>1 DEF vote, Vote, Seen, NoEarlyReset
<1> QED BY <1>1, <1>2 DEF BInv

LEMMA SetStableKeeps ==
  ASSUME BInv, SetStable PROVE BInv'
<1>1. /\ rtc' \in Record /\ rtc'.early = 0 /\ rtc'.stable
      /\ rtc'.soft = rtc.soft /\ rtc'.firmware = rtc.firmware
      /\ rtc'.partition = rtc.partition
  BY DEF SetStable, Settled, BInv, TypeOK, Record
<1>2. /\ past' \in History /\ past'.fell = past.fell /\ past'.late = past.late
      /\ past'.streak = 0 /\ past'.hidden = 0
  BY DEF SetStable, BInv, TypeOK, History
<1>3. TypeOK' /\ Flagged' /\ Counting' /\ ReasonIsTrueElse'
  <2>1. TypeOK'
    BY <1>1, <1>2 DEF SetStable, BInv, TypeOK, vote
  <2>2. Lasting' = 0
    BY <1>2 DEF Lasting
  <2> QED
    BY <1>1, <1>2, <2>1, <2>2 DEF SetStable, BInv, Flagged, Counting,
                                  LoopProtection, ReasonIsTrueElse
<1>4. UNCHANGED <<vote, rounds, given, shutting>>
  BY DEF SetStable
<1> QED BY <1>3, <1>4, VoteKept DEF BInv

LEMMA SetUpdateKeeps ==
  ASSUME BInv, NEW kind \in Updates, SetUpdate(kind) PROVE BInv'
<1>1. /\ rtc' \in Record /\ rtc'.early = rtc.early /\ rtc'.stable = rtc.stable
      /\ rtc'.firmware \/ rtc'.partition
  <2>1. rtc \in Record
    BY DEF BInv, TypeOK
  <2>2. CASE kind = "firmware"
    BY <2>1, <2>2 DEF SetUpdate, Record
  <2>3. CASE kind = "partition"
    BY <2>1, <2>3 DEF SetUpdate, Record
  <2> QED BY <2>2, <2>3, BootAssumption
<1>2. TypeOK'
  BY <1>1 DEF SetUpdate, BInv, TypeOK, vote, books
<1>3. Flagged' /\ Counting' /\ ReasonIsTrueElse'
  BY <1>1 DEF SetUpdate, BInv, Flagged, Counting, LoopProtection, Lasting,
              ReasonIsTrueElse, books
<1>4. UNCHANGED <<vote, rounds, given, shutting>>
  BY DEF SetUpdate, books
<1> QED BY <1>2, <1>3, <1>4, VoteKept DEF BInv

LEMMA RestartKeeps ==
  ASSUME BInv, NEW sleep \in BOOLEAN, Restart(sleep) PROVE BInv'
<1>1. /\ rtc' \in Record /\ rtc'.early = rtc.early /\ rtc'.stable = rtc.stable
      /\ rtc'.soft
  BY DEF Restart, BInv, TypeOK, Record
<1>2. tickers + queued + (IF turn = 0 THEN 0 ELSE 1) <= rounds
  BY DEF BInv, Turns
<1>3. /\ tickers \in Nat /\ queued \in Nat /\ rounds \in Nat /\ rounds < MaxRestarts
      /\ turn \in Nat
  BY Numbers DEF BInv, TypeOK, Restart
<1>4. /\ queued' \in 0 .. MaxRestarts /\ rounds' \in 0 .. MaxRestarts
      /\ timer' \in 0 .. Grace /\ pending' \in 0 .. Width - 1 /\ given' \in 0 .. Grace
      /\ rounds' > 0
  BY <1>2, <1>3, Numbers DEF Restart, TimeGiven
<1>5. TypeOK'
  BY <1>1, <1>4 DEF Restart, BInv, TypeOK
<1>6. Turns'
  BY <1>2, <1>3 DEF Restart, BInv, Turns
<1>7. Flagged' /\ Counting' /\ ReasonIsTrueElse'
  BY <1>1, <1>4 DEF Restart, BInv, Flagged, Counting, LoopProtection, Lasting,
                    ReasonIsTrueElse
<1>8. ASSUME Fair' PROVE Vote'
  <2>1. rounds = 0 /\ Fair
    BY <1>3, <1>8 DEF Restart, Fair
  <2>2. Vote /\ busy = {} /\ known = {} /\ turn = 0
    BY <1>2, <1>3, <2>1 DEF BInv, Vote
  <2>3. IsFiniteSet({}) /\ Cardinality({}) = 0
    BY FS_EmptySet
  <2>4. timer' + given' >= Grace /\ pending' = 0 /\ turn' = 0
    BY <2>2, Numbers DEF Restart, TimeGiven
  <2>5. busy' = {} /\ known' = {}
    BY <2>2 DEF Restart
  <2> QED BY <2>3, <2>4, <2>5, Numbers DEF Vote, NoEarlyReset
<1> QED BY <1>4, <1>5, <1>6, <1>7, <1>8 DEF BInv

-----------------------------------------------------------------------------
(* The vote.                                                               *)

LEMMA BeginKeeps ==
  ASSUME BInv, BeginShuttingdown PROVE BInv'
<1>1. /\ tickers \in Nat /\ queued \in 0 .. MaxRestarts /\ rounds \in Nat
      /\ queued > 0 /\ turn = 0 /\ turn' = 1 /\ queued' = queued - 1
  BY Numbers DEF BInv, TypeOK, BeginShuttingdown
<1>2. turn' \in 0 .. Len(Order) + 1 /\ queued' \in 0 .. MaxRestarts
  BY <1>1, Numbers
<1>3. TypeOK'
  BY <1>2 DEF BeginShuttingdown, BInv, TypeOK, store, books
<1>4. Turns'
  BY <1>1 DEF BeginShuttingdown, BInv, Turns, books
<1>5. ASSUME Fair' PROVE Vote'
  <2>1. Vote /\ Fair
    BY <1>5 DEF BeginShuttingdown, BInv, Fair, books
  <2>2. busy' = {} /\ known' = {} /\ pending' = pending /\ given' = given
        /\ timer' = timer /\ rounds' = rounds /\ going' = going
    BY <1>1, <2>1 DEF Vote, BeginShuttingdown, books
  <2>3. pending = 0 /\ IsFiniteSet({}) /\ Cardinality({}) = 0
    BY <1>1, <2>1, FS_EmptySet DEF Vote
  <2> QED BY <1>1, <2>1, <2>2, <2>3 DEF Vote, NoEarlyReset
<1> QED
  BY <1>3, <1>4, <1>5, StoreKept DEF BeginShuttingdown, BInv, books

LEMMA AnnounceKeeps ==
  ASSUME BInv, Announce PROVE BInv'
<1> DEFINE p == Order[turn]
<1>1. /\ turn \in 1 .. Len(Order) /\ turn' = turn + 1 /\ p \in Components
      /\ rounds \in Nat /\ tickers \in Nat /\ queued \in Nat
      /\ pending \in 0 .. Width - 1
  BY Numbers DEF BInv, TypeOK, Announce, Components
<1>2. turn' \in 0 .. Len(Order) + 1 /\ (pending + 1) % Width \in 0 .. Width - 1
  BY <1>1, Numbers
<1>3. TypeOK'
  <2>1. CASE UNCHANGED <<pending, busy, known>>
    BY <1>2, <2>1 DEF Announce, BInv, TypeOK, store, books
  <2>2. CASE /\ pending' = (pending + 1) % Width
             /\ busy' = busy \cup {p} /\ known' = known \cup {p}
    BY <1>1, <1>2, <2>2 DEF Announce, BInv, TypeOK, store, books
  <2> QED BY <2>1, <2>2 DEF Announce
<1>4. Turns'
  BY <1>1 DEF Announce, BInv, Turns, books
<1>5. ASSUME Fair' PROVE Vote'
  <2>1. Vote /\ Fair /\ rounds' = rounds /\ given' = given /\ timer' = timer
        /\ queued' = queued /\ going' = going /\ tickers' = tickers
    BY <1>5 DEF Announce, BInv, Fair, books
  <2>2. queued = 0 /\ rounds = 1 /\ ~going
    BY <1>1, <2>1 DEF BInv, Turns, Fair, TypeOK
  <2>3. pending <= turn - 1 /\ busy \subseteq Seen /\ known \subseteq Seen
        /\ timer + given >= Grace
    BY <1>1, <2>1 DEF Vote
  <2>4. p \notin Seen
    BY <1>1, Numbers, BootAssumption DEF Seen
  <2>5. Seen' = Seen \cup {p}
    BY <1>1 DEF Seen, Announce
  <2>6. turn = 1 => p \notin down /\ ~(p \in Once /\ p \in known)
    <3> SUFFICES ASSUME turn = 1 PROVE p \notin down /\ p \notin known
      OBVIOUS
    <3>1. Order # <<>> /\ p = Order[1]
      BY <1>1, Numbers
    <3>2. p \notin down
      BY <3>1, BootAssumption DEF BInv, TypeOK
    <3> QED BY <2>3, <2>4, <3>2
  <2>7. turn > 1 => Order[1] \in busy
    BY <2>1 DEF Vote
  <2>8. CASE p \in down \/ (p \in Once /\ p \in known)
    <3>1. UNCHANGED <<pending, busy, known>>
      BY <2>8 DEF Announce
    <3>2. turn > 1
      BY <1>1, <2>6, <2>8
    <3> QED
      BY <1>1, <2>1, <2>2, <2>3, <2>5, <2>7, <3>1, <3>2, Numbers
      DEF Vote, NoEarlyReset
  <2>9. CASE ~(p \in down \/ (p \in Once /\ p \in known))
    <3>1. /\ pending' = (pending + 1) % Width
          /\ busy' = busy \cup {p} /\ known' = known \cup {p}
      BY <2>9 DEF Announce
    <3>2. pending' = pending + 1 /\ pending' <= turn
      BY <1>1, <2>3, <3>1, Numbers
    <3>3. IsFiniteSet(busy') /\ Cardinality(busy') = Cardinality(busy) + 1
      BY <2>1, <2>3, <2>4, <3>1, FS_AddElement DEF Vote
    <3>4. Order[1] \in busy'
      BY <1>1, <2>7, <3>1
    <3> QED
      BY <1>1, <2>1, <2>2, <2>3, <2>5, <3>1, <3>2, <3>3, <3>4, Numbers
      DEF Vote, NoEarlyReset
  <2> QED BY <2>8, <2>9
<1> QED
  BY <1>3, <1>4, <1>5, StoreKept DEF Announce, BInv, books

LEMMA EndKeeps ==
  ASSUME BInv, EndShuttingdown PROVE BInv'
<1>1. /\ tickers \in Nat /\ queued \in Nat /\ rounds \in 0 .. MaxRestarts
      /\ turn > 0 /\ turn' = 0 /\ tickers' = tickers + 1 /\ rounds' = rounds
      /\ tickers + queued + 1 <= rounds
  BY Numbers DEF BInv, TypeOK, EndShuttingdown, books, Turns
<1>2. /\ timer' \in 0 .. Grace /\ tickers' \in 0 .. MaxRestarts
      /\ turn' \in 0 .. Len(Order) + 1
  BY <1>1, Numbers DEF EndShuttingdown, BInv, TypeOK
<1>3. TypeOK'
  BY <1>2 DEF EndShuttingdown, BInv, TypeOK, store, books
<1>4. Turns'
  BY <1>1 DEF EndShuttingdown, BInv, Turns, books
<1>5. ASSUME Fair' PROVE Vote'
  <2>1. /\ Vote /\ rounds' = rounds /\ given' = given /\ queued' = queued
        /\ going' = going /\ busy' = busy /\ known' = known /\ pending' = pending
    BY <1>5 DEF EndShuttingdown, BInv, Fair, books
  <2>2. queued = 0 /\ rounds = 1 /\ ~going
    BY <1>1, <1>5, <2>1 DEF BInv, Turns, Fair, TypeOK
  <2>3. busy # {} => timer' = timer
    BY <2>1, FS_EmptySet DEF Vote, EndShuttingdown
  <2> QED BY <1>1, <2>1, <2>2, <2>3 DEF Vote, NoEarlyReset
<1> QED
  BY <1>3, <1>4, <1>5, StoreKept DEF EndShuttingdown, BInv, books

LEMMA ReportedTypes ==
  ASSUME BInv, Reported
  PROVE  pending' \in 0 .. Width - 1 /\ timer' \in 0 .. Grace
  BY Numbers DEF BInv, TypeOK, Reported, Less

LEMMA ReadyKeeps ==
  ASSUME BInv, NEW p \in Components, ShutdownReady(p) PROVE BInv'
<1>1. TypeOK'
  BY ReportedTypes DEF ShutdownReady, BInv, TypeOK, store, books
<1>2. Turns'
  BY DEF ShutdownReady, BInv, Turns, books
<1>3. ASSUME Fair' PROVE Vote'
  <2>1. /\ Vote /\ Fair /\ rounds' = rounds /\ given' = given /\ queued' = queued
        /\ going' = going /\ known' = known /\ turn' = turn
        /\ busy' = busy \ {p} /\ p \in busy
    BY <1>3 DEF ShutdownReady, BInv, Fair, books
  <2>2. /\ IsFiniteSet(busy') /\ Cardinality(busy') = pending - 1
        /\ pending \in 1 .. Width - 1 /\ pending <= Len(Order)
    <3>1. pending # 0 /\ pending \in 0 .. Width - 1
      BY <2>1, FS_EmptySet DEF Vote, BInv, TypeOK
    <3> QED BY <2>1, <3>1, FS_RemoveElement, Numbers DEF Vote
  <2>3. pending' = pending - 1 /\ (pending' # 0 => timer' = timer)
    BY <2>2, Numbers DEF ShutdownReady, Reported, Less
  <2>4. busy' # {} => timer' = timer
    BY <2>2, <2>3, FS_EmptySet
  <2>5. turn \in 0 .. Len(Order) + 1 /\ queued \in Nat /\ rounds \in Nat
        /\ tickers \in Nat
    BY Numbers DEF BInv, TypeOK
  <2>6. turn > 0 => turn > 1 /\ Order[1] \in busy' /\ Seen' = Seen /\ queued = 0
    <3> SUFFICES ASSUME turn > 0 PROVE turn > 1 /\ Order[1] \in busy'
                                       /\ Seen' = Seen /\ queued = 0
      OBVIOUS
    <3>1. pending <= turn - 1
      BY <2>1 DEF Vote
    <3>2. turn > 1 /\ Order[1] \in busy
      BY <2>1, <2>2, <2>5, <3>1 DEF Vote
    <3>3. p \in OwnTask /\ Order # <<>>
      BY <2>2, <2>5, Numbers DEF ShutdownReady
    <3>4. p # Order[1]
      BY <3>3, BootAssumption
    <3>5. queued = 0
      BY <2>1, <2>5 DEF BInv, Turns, Fair
    <3> QED BY <2>1, <3>2, <3>4, <3>5 DEF Seen
  <2>7. rounds > 0 /\ queued = 0
    BY <2>1, <2>5 DEF Vote
  <2>8. turn > 0 => timer' = timer
    BY <2>4, <2>6
  <2>9. turn > 0 => pending' <= turn' - 1 /\ busy' \subseteq Seen'
                    /\ known' \subseteq Seen'
    BY <2>1, <2>2, <2>3, <2>5, <2>6 DEF Vote
  <2> QED
    BY <2>1, <2>2, <2>3, <2>4, <2>5, <2>6, <2>7, <2>8, <2>9, Numbers
    DEF Vote, NoEarlyReset
<1> QED
  BY <1>1, <1>2, <1>3, StoreKept DEF ShutdownReady, BInv, books

LEMMA UnannouncedKeeps ==
  ASSUME BInv, NEW p \in Components, ReadyUnannounced(p) PROVE BInv'
<1>1. TypeOK'
  BY ReportedTypes DEF ReadyUnannounced, BInv, TypeOK, store, books
<1>2. Turns'
  BY DEF ReadyUnannounced, BInv, Turns, books
<1>3. ~Fair'
  BY DEF ReadyUnannounced, BInv, TypeOK, Fair
<1> QED
  BY <1>1, <1>2, <1>3, StoreKept DEF ReadyUnannounced, BInv, books

LEMMA TickKeeps ==
  ASSUME BInv, Tick PROVE BInv'
<1>1. /\ tickers \in Nat /\ queued \in Nat /\ rounds \in Nat /\ turn = 0
      /\ timer \in 0 .. Grace /\ given \in 0 .. Grace /\ tickers > 0 /\ timer > 0
      /\ tickers + queued <= rounds
  BY Numbers DEF BInv, TypeOK, Tick, Turns
<1>2. timer' \in 0 .. Grace /\ given' \in 0 .. Grace /\ going' \in BOOLEAN
  BY <1>1, Numbers DEF Tick, BInv, TypeOK
<1>3. TypeOK'
  BY <1>2 DEF Tick, BInv, TypeOK, store
<1>4. Turns'
  BY <1>1 DEF Tick, BInv, Turns
<1>5. ASSUME Fair' PROVE Vote'
  <2>1. /\ Vote /\ Fair /\ rounds' = rounds /\ queued' = queued
        /\ known' = known /\ busy' = busy /\ pending' = pending
        /\ turn' = 0 /\ turn = 0
    BY <1>1, <1>5 DEF Tick, BInv, Fair
  <2>2. tickers = 1 /\ queued = 0 /\ rounds = 1
    BY <1>1, <2>1 DEF Fair
  <2>3. busy # {} => timer + given >= Grace
    BY <2>1 DEF Vote
  <2>4. busy # {} => timer' + given' >= Grace
    BY <1>1, <2>2, <2>3, Numbers DEF Tick
  <2>5. timer <= tickers /\ busy # {} => given' >= Grace
    BY <1>1, <2>2, <2>3, Numbers DEF Tick
  <2>6. going => busy = {} \/ given' >= Grace
    BY <1>1, <2>1, Numbers DEF Vote, NoEarlyReset, Tick
  <2>7. NoEarlyReset'
    BY <2>1, <2>5, <2>6 DEF Tick, NoEarlyReset
  <2> QED BY <2>1, <2>2, <2>4, <2>7 DEF Vote
<1>6. UNCHANGED <<store, rounds, past, shutting>>
  BY DEF Tick
<1> QED
  BY <1>3, <1>4, <1>5, <1>6, StoreKept DEF BInv

LEMMA GoDownKeeps ==
  ASSUME BInv, GoDown PROVE BInv'
<1>1. CASE deepsleep
  <2>1. power' = "asleep" /\ UNCHANGED <<store, shutting, deepsleep, vote, books>>
    BY <1>1 DEF GoDown
  <2>2. TypeOK'
    BY <2>1 DEF BInv, TypeOK, store, vote, books
  <2> QED BY <2>1, <2>2, StoreKept, VoteKept DEF BInv, books
<1>2. CASE ~deepsleep
  <2>1. rounds > 0
    BY Numbers DEF GoDown, BInv, TypeOK, Turns
  <2>2. Reboot(Restarted)
    BY <1>2 DEF GoDown
  <2>3. rounds # 0
    BY <2>1, Numbers DEF BInv, TypeOK
  <2> QED BY <2>1, <2>2, <2>3, RestartedFacts, RebootKeeps
<1> QED BY <1>1, <1>2

-----------------------------------------------------------------------------
LEMMA NextKeeps ==
  ASSUME BInv, [Next]_vars PROVE BInv'
<1>1. CASE UNCHANGED vars
  <2>1. UNCHANGED <<power, store, shutting, deepsleep, vote, books>>
    BY <1>1 DEF vars
  <2>2. TypeOK'
    BY <2>1 DEF BInv, TypeOK, store, vote, books
  <2> QED BY <2>1, <2>2, StoreKept, VoteKept DEF BInv, books
<1>2. CASE Next
  BY <1>2, PowerCycleKeeps, CrashKeeps, WakeupKeeps, SetStableKeeps,
     RestartKeeps, RestartHardKeeps, SetUpdateKeeps, BeginKeeps, AnnounceKeeps,
     EndKeeps, ReadyKeeps, UnannouncedKeeps, TickKeeps, GoDownKeeps DEF Next
<1> QED BY <1>1, <1>2

\* The invariant holds in every reachable state.
THEOREM BootInvariance == Spec => []BInv
<1>1. Init => BInv
  BY InitBInv
<1>2. BInv /\ [Next]_vars => BInv'
  BY NextKeeps
<1> QED BY <1>1, <1>2, PTL DEF Spec

\* TypeOK: every variable keeps its type; m_shutdown_pending never leaves its
\* width, whatever the components report.
THEOREM BootTypeCorrect == Spec => []TypeOK
<1>1. BInv => TypeOK
  BY DEF BInv
<1> QED BY <1>1, BootInvariance, PTL

\* LoopProtection: until the system is stable the init level fits the early
\* crashes since the last one that came with a Restart under way, for every pair
\* of thresholds, and is off for a partition update.
THEOREM BootLoopProtection == Spec => []LoopProtection
<1>1. BInv => LoopProtection
  BY DEF BInv, Counting
<1> QED BY <1>1, BootInvariance, PTL

\* ReasonIsTrueElse: m_bootreason names what really ended the last boot, but for
\* a crash with a Restart under way.
THEOREM BootReasonIsTrueElse == Spec => []ReasonIsTrueElse
<1>1. BInv => ReasonIsTrueElse
  BY DEF BInv
<1> QED BY <1>1, BootInvariance, PTL

\* NoEarlyResetElse: one Restart, answered by components that report only what
\* they announced, waits for every one of them or for the whole grace period.
THEOREM BootNoEarlyReset == Spec => []NoEarlyResetElse
<1>1. BInv => NoEarlyResetElse
  BY DEF BInv, Fair, Vote, NoEarlyResetElse
<1> QED BY <1>1, BootInvariance, PTL
=============================================================================
