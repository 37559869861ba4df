----------------------------- MODULE TwapProofs -----------------------------
(***************************************************************************)
(* What the TWAP oracle guarantees for every capacity, window, clamp and   *)
(* source of prices: its invariants, the truth of its timestamps, and that *)
(* the ring buffer with its running sums implements the price feed.        *)
(*                                                                         *)
(* HistoryInv is the inductive invariant.  Its heart is RingIsTheLog: slot *)
(* by slot, the buffer is the end of the log of everything recorded, and   *)
(* each difference of neighbouring sums is one sample's tick times its     *)
(* duration.  Nothing about a publication can be proved without it.        *)
(***************************************************************************)
EXTENDS PoolOracle, NumberTheorems

CAP == OBSERVATIONS_CAPACITY

Sampled == [at : Nat, tick : Int]

\* The slot of the i-th sample ever recorded.
slot(i) == (i - 1) % CAP

HistoryTyped == TypeOK /\ log \in Seq(Sampled)

NothingFromTheFuture ==
    /\ price_account # NONE => price_account.timestamp \in 0..clock
    /\ current # NONE => current.last_updated <= clock
    /\ \A i \in 1..Len(log) : log[i].at <= clock

NothingUnrecorded == ~Recording => log = <<>>

LogIsSampled ==
    \A i \in 2..Len(log) : /\ log[i - 1].at + min_interval <= log[i].at
                           /\ log[i].tick - log[i - 1].tick \in (-MAX_TICK_DELTA)..MAX_TICK_DELTA

\* The buffer o holds the end of the log s.
IsEndOf(o, s) ==
    /\ Len(s) >= 1
    /\ o.total_entries = Len(s)
    /\ o.write_index = Len(s) % CAP
    /\ o.last_recorded_tick = s[Len(s)].tick
    /\ \A i \in 1..Len(s) : Len(s) - i < CAP => o.entries[slot(i)].timestamp = s[i].at
    /\ \A i \in 2..Len(s) : Len(s) - i < CAP - 1 =>
          o.entries[slot(i)].tick_cumulative - o.entries[slot(i - 1)].tick_cumulative
             = s[i].tick * (s[i].at - s[i - 1].at)

RingIsTheLog == Recording => IsEndOf(observations, log)

HistoryInv ==
    /\ HistoryTyped
    /\ NothingFromTheFuture
    /\ NothingUnrecorded
    /\ LogIsSampled
    /\ RingIsTheLog
    /\ RecordedWalkIsBounded

\* Of a pool: its price is one of Price.
PoolInv == HistoryInv /\ spot \in Price \union {NONE}

---------------------------------------------------------------------------
(* The ring                                                                *)

LEMMA Numbers ==
  /\ CAP \in Nat \ {0} /\ CAP >= 2
  /\ min_interval \in Nat \ {0} /\ max_tail \in Nat
  /\ MAX_TICK_DELTA \in Nat
<1>1. CAP \in Nat \ {0} /\ CAP >= 2 /\ window_duration \in Nat
      /\ MAX_TICK_DELTA \in Nat /\ MAX_TAIL_INTERVALS \in Nat
  BY CapacityAssumption, BoundsAssumption DEF CAP
<1>2. min_interval \in Nat \ {0}
  <2>1. CASE window_duration >= CAP
    <3> DEFINE m == window_duration \div CAP
    <3>1. m \in Nat /\ window_duration < m * CAP + CAP
      BY <1>1, FloorIsRead
    <3>2. m # 0
      BY <1>1, <2>1, <3>1
    <3> QED BY <2>1, <3>1, <3>2 DEF min_interval, CAP
  <2>2. CASE ~(window_duration >= CAP)
    BY <2>2 DEF min_interval, CAP
  <2> QED BY <2>1, <2>2
<1>3. max_tail \in Nat
  BY <1>1, <1>2, ProductIsNat DEF max_tail
<1> QED BY <1>1, <1>2, <1>3

LEMMA SlotIsSlot ==
  ASSUME NEW i \in Int
  PROVE  slot(i) \in Slot
<1>1. (i - 1) % CAP \in 0..(CAP - 1)
  BY Numbers, RemainderIsRead
<1> QED BY <1>1 DEF slot, Slot, CAP

LEMMA SlotsDiffer ==
  ASSUME NEW i \in Int, NEW j \in Int, i < j, j - i < CAP
  PROVE  slot(i) # slot(j)
<1>1. i - 1 \in Int /\ j - 1 \in Int /\ i - 1 < j - 1 /\ (j - 1) - (i - 1) < CAP
  OBVIOUS
<1> QED BY <1>1, Numbers, RemaindersDiffer DEF slot

\* Stepping an index forward or backward is stepping its sample.
LEMMA SlotsAreNeighbours ==
  ASSUME NEW n \in Int
  PROVE  /\ next_index(n % CAP) = (n + 1) % CAP
         /\ (IF n % CAP = 0 THEN CAP - 1 ELSE (n % CAP) - 1) = slot(n)
<1> DEFINE q == n \div CAP
           r == n % CAP
<1>1. q \in Int /\ r \in 0..(CAP - 1) /\ n = CAP * q + r
  BY Numbers, RemainderIsRead
<1> HIDE DEF q, r
<1>2. (r + 1) % CAP = (n + 1) % CAP
  <2>1. n + 1 = (r + 1) + CAP * q
    BY <1>1, Numbers
  <2> QED BY <1>1, <2>1, Numbers, RemainderOfTurns
<1>3. CASE r = 0
  <2>1. n - 1 = CAP * (q - 1) + (CAP - 1)
    BY <1>1, <1>3, Numbers
  <2>2. (CAP * (q - 1) + (CAP - 1)) % CAP = CAP - 1
    BY <1>1, Numbers, RemainderIsUnique
  <2> QED BY <1>2, <1>3, <2>1, <2>2 DEF slot, next_index, r, CAP
<1>4. CASE r # 0
  <2>1. n - 1 = CAP * q + (r - 1) /\ r - 1 \in 0..(CAP - 1)
    BY <1>1, <1>4, Numbers
  <2>2. (CAP * q + (r - 1)) % CAP = r - 1
    BY <1>1, <2>1, Numbers, RemainderIsUnique
  <2> QED BY <1>2, <1>4, <2>1, <2>2 DEF slot, next_index, r, CAP
<1> QED BY <1>3, <1>4

\* The sample the window starts at.
FirstOf(s) == IF Len(s) >= CAP THEN Len(s) - CAP + 1 ELSE 1

LEMMA RingIsRead ==
  ASSUME NEW o \in PriceObservations, NEW s \in Seq(Sampled), IsEndOf(o, s)
  PROVE  /\ last_index(o) = slot(Len(s)) /\ oldest_index(o) = slot(FirstOf(s))
         /\ newest(o).timestamp = s[Len(s)].at /\ oldest(o).timestamp = s[FirstOf(s)].at
         /\ FirstOf(s) \in 1..Len(s) /\ Len(s) - FirstOf(s) < CAP
<1> DEFINE n == Len(s)
<1>1. n \in Nat \ {0} /\ o.write_index = n % CAP /\ o.total_entries = n
  BY DEF IsEndOf
<1>2. last_index(o) = slot(n)
  BY <1>1, SlotsAreNeighbours DEF last_index, CAP
<1>3. oldest_index(o) = slot(FirstOf(s))
  <2>1. CASE n >= CAP
    <3>1. FirstOf(s) - 1 = n - CAP /\ n = (n - CAP) + CAP * 1
      BY <1>1, <2>1, Numbers DEF FirstOf
    <3>2. ((n - CAP) + CAP * 1) % CAP = (n - CAP) % CAP
      <4>1. n - CAP \in Int /\ 1 \in Int /\ CAP \in Nat \ {0}
        BY <1>1, Numbers
      <4> QED BY <4>1, RemainderOfTurns, Zenon
    <3> QED BY <1>1, <2>1, <3>1, <3>2 DEF oldest_index, slot, CAP
  <2>2. CASE ~(n >= CAP)
    <3>1. (CAP * 0 + 0) % CAP = 0
      BY Numbers, RemainderIsUnique
    <3>2. CAP * 0 + 0 = 0 /\ FirstOf(s) - 1 = 0
      BY <2>2, Numbers DEF FirstOf
    <3> QED BY <1>1, <2>2, <3>1, <3>2 DEF oldest_index, slot, CAP
  <2> QED BY <2>1, <2>2
<1>4. /\ FirstOf(s) \in 1..n /\ n - FirstOf(s) < CAP /\ n - n < CAP /\ n \in 1..n
  BY <1>1, Numbers DEF FirstOf
<1>5. o.entries[slot(n)].timestamp = s[n].at
      /\ o.entries[slot(FirstOf(s))].timestamp = s[FirstOf(s)].at
  BY <1>4 DEF IsEndOf
<1> QED BY <1>2, <1>3, <1>4, <1>5 DEF newest, oldest

\* What recording writes: one entry, one step of the index.
Recorded(o, tick, now) ==
    [o EXCEPT !.entries[o.write_index] = next_entry(o, tick, now),
              !.write_index = next_index(@),
              !.total_entries = @ + 1,
              !.last_recorded_tick = tick]

\* p is o with the entry written and the index moved on.
Writes(p, o, tick, now) ==
    /\ p.entries = [o.entries EXCEPT ![o.write_index] = next_entry(o, tick, now)]
    /\ p.write_index = next_index(o.write_index)

LEMMA RecordedIsCounted ==
  ASSUME NEW o \in PriceObservations, NEW tick \in Int, NEW now \in Nat,
         NEW p, p = Recorded(o, tick, now)
  PROVE  /\ p \in PriceObservations /\ p.owner = o.owner
         /\ p.last_recorded_tick = tick /\ p.total_entries = o.total_entries + 1
         /\ Writes(p, o, tick, now)
<1> DEFINE e == next_entry(o, tick, now)
<1>1. o.write_index \in Slot /\ o.entries \in [Slot -> ObservationEntry] /\ o.total_entries \in Nat
  BY DEF PriceObservations
<1>2. last_index(o) \in Slot
  BY <1>1, Numbers DEF last_index, Slot, CAP
<1>3. newest(o) \in ObservationEntry
  BY <1>1, <1>2 DEF newest
<1>4. e \in ObservationEntry
  <2>1. newest(o).timestamp \in Nat /\ newest(o).tick_cumulative \in Int
    BY <1>3 DEF ObservationEntry
  <2>2. now - newest(o).timestamp \in Int
    BY <2>1
  <2>3. tick * (now - newest(o).timestamp) \in Int
    BY <2>2
  <2>4. newest(o).tick_cumulative + tick * (now - newest(o).timestamp) \in Int
    BY <2>1, <2>3
  <2> QED BY <2>4 DEF next_entry, ObservationEntry
<1>5. next_index(o.write_index) \in Slot
  <2>1. o.write_index + 1 \in Int
    BY <1>1, Numbers DEF Slot, CAP
  <2>2. (o.write_index + 1) % CAP \in 0..(CAP - 1)
    BY <2>1, Numbers, RemainderIsRead
  <2> QED BY <2>2 DEF next_index, Slot, CAP
<1> HIDE DEF e
<1>6. [o.entries EXCEPT ![o.write_index] = e] \in [Slot -> ObservationEntry]
  BY <1>1, <1>4
<1> DEFINE r == [owner |-> o.owner, write_index |-> next_index(o.write_index),
                 total_entries |-> o.total_entries + 1, last_recorded_tick |-> tick,
                 entries |-> [o.entries EXCEPT ![o.write_index] = e]]
<1>7. p = r
  <2>1. p = [o EXCEPT !.entries[o.write_index] = e, !.write_index = next_index(@),
                      !.total_entries = @ + 1, !.last_recorded_tick = tick]
    BY DEF Recorded, e
  <2>2. p = [o EXCEPT !.entries = [o.entries EXCEPT ![o.write_index] = e],
                      !.write_index = next_index(o.write_index),
                      !.total_entries = o.total_entries + 1, !.last_recorded_tick = tick]
    BY <2>1 DEF PriceObservations
  <2> DEFINE x == [o.entries EXCEPT ![o.write_index] = e]
             y == next_index(o.write_index)
             z == o.total_entries + 1
  <2> HIDE DEF x, y, z
  <2>3. p = [o EXCEPT !.entries = x, !.write_index = y, !.total_entries = z,
                      !.last_recorded_tick = tick]
    BY <2>2 DEF x, y, z
  <2>4. p = [owner |-> o.owner, write_index |-> y, total_entries |-> z,
             last_recorded_tick |-> tick, entries |-> x]
    BY <2>3 DEF PriceObservations
  <2> QED BY <2>4 DEF x, y, z
<1>8. o.owner \in Owner /\ o.total_entries + 1 \in Nat
  BY <1>1 DEF PriceObservations
<1>9. r \in PriceObservations
  BY <1>5, <1>6, <1>8 DEF PriceObservations
<1> QED BY <1>7, <1>9 DEF e, Writes

LEMMA RecordingExtendsTheEnd ==
  ASSUME NEW o \in PriceObservations, NEW s \in Seq(Sampled), IsEndOf(o, s),
         NEW tick \in Int, NEW now \in Nat
  PROVE  IsEndOf(Recorded(o, tick, now), Append(s, [at |-> now, tick |-> tick]))
<1> DEFINE p == Recorded(o, tick, now)
           sample == [at |-> now, tick |-> tick]
           t == Append(s, sample)
           e == next_entry(o, tick, now)
           n == Len(s)
           w == o.write_index
<1>1. /\ p.entries = [o.entries EXCEPT ![w] = e] /\ p.write_index = next_index(w)
      /\ p.total_entries = o.total_entries + 1 /\ p.last_recorded_tick = tick
      /\ o.entries \in [Slot -> ObservationEntry]
  BY RecordedIsCounted DEF PriceObservations, Writes
<1>2. /\ n \in Nat \ {0} /\ w = n % CAP /\ o.total_entries = n
      /\ \A i \in 1..n : n - i < CAP => o.entries[slot(i)].timestamp = s[i].at
      /\ \A i \in 2..n : n - i < CAP - 1 =>
            o.entries[slot(i)].tick_cumulative - o.entries[slot(i - 1)].tick_cumulative
               = s[i].tick * (s[i].at - s[i - 1].at)
  BY DEF IsEndOf
<1>3. /\ Len(t) = n + 1 /\ t[n + 1] = sample /\ sample.at = now /\ sample.tick = tick
      /\ \A i \in 1..n : t[i] = s[i]
  BY <1>2 DEF Sampled
<1>4. w = slot(n + 1) /\ next_index(w) = (n + 1) % CAP
  <2>1. (n + 1) - 1 = n
    BY <1>2
  <2> QED BY <1>2, <2>1, SlotsAreNeighbours DEF slot
<1>5. /\ newest(o).timestamp = s[n].at /\ newest(o) = o.entries[slot(n)]
  BY <1>2, RingIsRead DEF newest
<1>6. /\ p.entries[w] = e /\ e.timestamp = now
      /\ e.tick_cumulative = newest(o).tick_cumulative + tick * (now - newest(o).timestamp)
  <2>1. w \in Slot
    BY DEF PriceObservations
  <2> QED BY <1>1, <2>1 DEF next_entry
<1>7. ASSUME NEW i \in 1..n, (n + 1) - i < CAP
      PROVE  p.entries[slot(i)] = o.entries[slot(i)]
  <2>1. slot(i) # slot(n + 1)
    BY <1>2, <1>7, SlotsDiffer
  <2>2. slot(i) \in Slot
    BY SlotIsSlot
  <2> HIDE DEF p, e, w
  <2> QED BY <1>1, <1>4, <2>1, <2>2
<1> HIDE DEF p, t, e, w, n
<1>0. n \in Nat \ {0} /\ CAP \in Nat
  BY <1>2, Numbers
<1>8. ASSUME NEW i \in 1..(n + 1), (n + 1) - i < CAP
      PROVE  p.entries[slot(i)].timestamp = t[i].at
  <2>1. CASE i = n + 1
    BY <1>3, <1>4, <1>6, <2>1
  <2>2. CASE i # n + 1
    <3>1. i \in 1..n /\ n - i < CAP
      BY <1>0, <1>8, <2>2
    <3>2. p.entries[slot(i)] = o.entries[slot(i)] /\ t[i] = s[i]
      BY <1>3, <1>7, <1>8, <3>1
    <3> QED BY <1>2, <3>1, <3>2
  <2> QED BY <2>1, <2>2
<1>9. ASSUME NEW i \in 2..(n + 1), (n + 1) - i < CAP - 1
      PROVE  p.entries[slot(i)].tick_cumulative - p.entries[slot(i - 1)].tick_cumulative
                = t[i].tick * (t[i].at - t[i - 1].at)
  <2>1. i - 1 \in 1..n /\ (n + 1) - (i - 1) < CAP
    BY <1>2, <1>9, Numbers
  <2>2. p.entries[slot(i - 1)] = o.entries[slot(i - 1)] /\ t[i - 1] = s[i - 1]
    BY <1>3, <1>7, <2>1
  <2>3. CASE i = n + 1
    <3>1. i - 1 = n
      BY <1>2, <2>3
    <3>2. /\ p.entries[slot(i)] = e /\ t[i] = sample
          /\ p.entries[slot(i - 1)] = newest(o) /\ t[i - 1].at = newest(o).timestamp
      BY <1>3, <1>4, <1>5, <1>6, <2>2, <2>3, <3>1
    <3>3. newest(o).tick_cumulative \in Int /\ newest(o).timestamp \in Int
      <4>1. slot(n) \in Slot
        BY <1>2, SlotIsSlot
      <4> QED BY <1>1, <1>5, <4>1 DEF ObservationEntry
    <3>4. tick * (now - newest(o).timestamp) \in Int
      <4>1. now - newest(o).timestamp \in Int
        BY <3>3
      <4> QED BY <4>1
    <3>5. e.tick_cumulative - newest(o).tick_cumulative = tick * (now - newest(o).timestamp)
      BY <1>6, <3>3, <3>4
    <3> QED BY <3>2, <3>5
  <2>4. CASE i # n + 1
    <3>1. i \in 2..n /\ n - i < CAP - 1 /\ i \in 1..n /\ (n + 1) - i < CAP
      BY <1>0, <1>9, <2>4
    <3>2. p.entries[slot(i)] = o.entries[slot(i)] /\ t[i] = s[i]
      BY <1>3, <1>7, <3>1
    <3>3. o.entries[slot(i)].tick_cumulative - o.entries[slot(i - 1)].tick_cumulative
             = s[i].tick * (s[i].at - s[i - 1].at)
      BY <1>2, <3>1
    <3> QED BY <2>2, <3>2, <3>3
  <2> QED BY <2>3, <2>4
<1>10. Len(t) >= 1 /\ p.total_entries = Len(t) /\ p.write_index = Len(t) % CAP
       /\ p.last_recorded_tick = t[Len(t)].tick
  BY <1>1, <1>2, <1>3, <1>4
<1> QED BY <1>3, <1>8, <1>9, <1>10 DEF IsEndOf, p, t, n

---------------------------------------------------------------------------
(* The invariant                                                           *)

LEMMA SamplesAreTyped ==
  ASSUME NEW s \in Seq(Sampled), NEW i \in 1..Len(s)
  PROVE  s[i] \in Sampled /\ s[i].at \in Nat /\ s[i].tick \in Int
<1>1. s[i] \in Sampled
  OBVIOUS
<1> QED BY <1>1 DEF Sampled

LEMMA InitHistoryInv == HistoryInit => HistoryInv
<1> SUFFICES ASSUME HistoryInit PROVE HistoryInv
  OBVIOUS
<1>1. log = <<>> /\ Len(log) = 0 /\ log \in Seq(Sampled)
  BY DEF HistoryInit
<1>2. ~Recording
  BY DEF HistoryInit, Init, Recording
<1> QED BY <1>1, <1>2 DEF HistoryInit, Init, HistoryInv, HistoryTyped, TypeOK,
        NothingFromTheFuture, NothingUnrecorded, LogIsSampled, RingIsTheLog,
        RecordedWalkIsBounded

\* A step that records nothing.
LEMMA FeedStands ==
  ASSUME HistoryInv, UNCHANGED <<observations, log>>, clock' \in Nat, clock <= clock',
         current' \in CurrentTickAccount \union {NONE},
         current' # NONE => current'.last_updated <= clock',
         price_account' # NONE => price_account'.timestamp \in 0..clock'
  PROVE  HistoryInv'
<1>1. HistoryTyped'
  BY DEF HistoryInv, HistoryTyped, TypeOK
<1>2. NothingFromTheFuture'
  <2>1. ASSUME NEW i \in 1..Len(log) PROVE log[i].at <= clock'
    <3>1. log[i].at \in Int /\ log[i].at <= clock /\ clock \in Int
      BY SamplesAreTyped DEF HistoryInv, HistoryTyped, TypeOK, NothingFromTheFuture
    <3> QED BY <3>1
  <2> QED BY <2>1 DEF NothingFromTheFuture
<1>3. NothingUnrecorded' /\ LogIsSampled' /\ RecordedWalkIsBounded'
  BY DEF HistoryInv, NothingUnrecorded, LogIsSampled, RecordedWalkIsBounded, Recording
<1>4. RingIsTheLog'
  BY DEF HistoryInv, RingIsTheLog, Recording, IsEndOf
<1> QED BY <1>1, <1>2, <1>3, <1>4 DEF HistoryInv

LEMMA ReachesAdd ==
  ASSUME NEW a \in Int, NEW b \in Int, NEW c \in Int, NEW x \in Int, NEW d \in Int,
         b - a <= x, a - b <= x, c - b <= d, b - c <= d
  PROVE  c - a <= x + d /\ a - c <= x + d
OBVIOUS

\* The last two clauses for a log that grew by a sample within reach.
LEMMA SampleIsInReach ==
  ASSUME NEW s \in Seq(Sampled), Len(s) >= 1, NEW e \in Sampled,
         \A i \in 2..Len(s) :
            /\ s[i - 1].at + min_interval <= s[i].at
            /\ s[i].tick - s[i - 1].tick \in (-MAX_TICK_DELTA)..MAX_TICK_DELTA,
         \A i, j \in 1..Len(s) : i < j =>
            /\ s[j].tick - s[i].tick <= (j - i) * MAX_TICK_DELTA
            /\ s[i].tick - s[j].tick <= (j - i) * MAX_TICK_DELTA,
         s[Len(s)].at + min_interval <= e.at,
         e.tick - s[Len(s)].tick \in (-MAX_TICK_DELTA)..MAX_TICK_DELTA,
         NEW t, t = Append(s, e)
  PROVE  /\ \A i \in 2..Len(t) :
               /\ t[i - 1].at + min_interval <= t[i].at
               /\ t[i].tick - t[i - 1].tick \in (-MAX_TICK_DELTA)..MAX_TICK_DELTA
         /\ \A i, j \in 1..Len(t) : i < j =>
               /\ t[j].tick - t[i].tick <= (j - i) * MAX_TICK_DELTA
               /\ t[i].tick - t[j].tick <= (j - i) * MAX_TICK_DELTA
<1> DEFINE n == Len(s)
           D == MAX_TICK_DELTA
<1>1. n \in Nat \ {0} /\ D \in Nat /\ min_interval \in Nat
  BY Numbers
<1>2. Len(t) = n + 1 /\ t[n + 1] = e /\ \A i \in 1..n : t[i] = s[i]
  BY <1>1
<1>3. e.tick \in Int /\ \A i \in 1..n : s[i].tick \in Int
  BY SamplesAreTyped DEF Sampled
<1> HIDE DEF n, D
<1>4. ASSUME NEW i \in 2..(n + 1)
      PROVE  /\ t[i - 1].at + min_interval <= t[i].at
             /\ t[i].tick - t[i - 1].tick \in (-D)..D
  <2>1. CASE i = n + 1
    <3>1. t[i] = e /\ t[i - 1] = s[n]
      BY <1>1, <1>2, <2>1
    <3> QED BY <3>1 DEF n, D
  <2>2. CASE i # n + 1
    <3>1. i \in 2..n /\ i \in 1..n /\ i - 1 \in 1..n
      BY <1>1, <2>2
    <3>2. t[i] = s[i] /\ t[i - 1] = s[i - 1]
      BY <1>2, <3>1
    <3> QED BY <3>1, <3>2 DEF n, D
  <2> QED BY <2>1, <2>2
<1>5. ASSUME NEW i \in 1..(n + 1), NEW j \in 1..(n + 1), i < j
      PROVE  /\ t[j].tick - t[i].tick <= (j - i) * D
             /\ t[i].tick - t[j].tick <= (j - i) * D
  <2>1. CASE j # n + 1
    <3>1. i \in 1..n /\ j \in 1..n
      BY <1>1, <1>5, <2>1
    <3>2. t[i] = s[i] /\ t[j] = s[j]
      BY <1>2, <3>1
    <3> QED BY <1>5, <3>1, <3>2 DEF n, D
  <2>2. CASE j = n + 1
    <3>1. i \in 1..n /\ n \in 1..n /\ t[i] = s[i] /\ t[j] = e
      BY <1>1, <1>2, <1>5, <2>2
    <3>2. s[i].tick \in Int /\ s[n].tick \in Int /\ e.tick \in Int
      BY <1>3, <3>1
    <3>3. s[n].tick - s[i].tick <= (n - i) * D /\ s[i].tick - s[n].tick <= (n - i) * D
      <4>1. CASE i < n
        BY <3>1, <4>1 DEF n, D
      <4>2. CASE i = n
        <5>1. (n - i) * D = 0
          BY <1>1, <4>2
        <5> QED BY <3>2, <4>2, <5>1
      <4> QED BY <1>1, <3>1, <4>1, <4>2
    <3>4. e.tick - s[n].tick <= D /\ s[n].tick - e.tick <= D
      <4>1. e.tick - s[n].tick \in (-D)..D
        BY DEF n, D
      <4> QED BY <1>1, <3>2, <4>1
    <3>5. (j - i) * D = (n - i) * D + D /\ (n - i) * D \in Int
      BY <1>1, <2>2
    <3> DEFINE x == (n - i) * D
               y == (j - i) * D
    <3>6. y = x + D /\ x \in Int /\ D \in Int
      BY <1>1, <3>5
    <3> HIDE DEF x, y
    <3>7. s[n].tick - s[i].tick <= x /\ s[i].tick - s[n].tick <= x
      BY <3>3 DEF x
    <3>8. e.tick - s[i].tick <= x + D /\ s[i].tick - e.tick <= x + D
      BY <3>2, <3>4, <3>6, <3>7, ReachesAdd
    <3> QED BY <3>1, <3>6, <3>8 DEF y
  <2> QED BY <2>1, <2>2
<1> QED BY <1>2, <1>4, <1>5 DEF n, D

LEMMA ClampIsInReach ==
  ASSUME NEW last \in Int, NEW live \in Int
  PROVE  /\ clamped_tick(last, live) \in Int
         /\ clamped_tick(last, live) - last \in (-MAX_TICK_DELTA)..MAX_TICK_DELTA
BY Numbers DEF clamped_tick, Clamp

LEMMA RecordTickSamples ==
  ASSUME HistoryInv, RecordTick, Logged
  PROVE  LET tick == clamped_tick(observations.last_recorded_tick, current.tick)
         IN  /\ Recording /\ observations \in PriceObservations /\ IsEndOf(observations, log)
             /\ observations' = Recorded(observations, tick, clock)
             /\ observations' \in PriceObservations /\ observations'.owner = "oracle"
             /\ log' = Append(log, [at |-> clock, tick |-> tick])
             /\ [at |-> clock, tick |-> tick] \in Sampled
             /\ log[Len(log)].at + min_interval <= clock
             /\ tick - log[Len(log)].tick \in (-MAX_TICK_DELTA)..MAX_TICK_DELTA
<1> DEFINE o == observations
           last == o.last_recorded_tick
           tick == clamped_tick(last, current.tick)
<1>1. /\ Recording /\ o \in PriceObservations /\ IsEndOf(o, log) /\ clock \in Nat
      /\ current.tick \in Int /\ last \in Int /\ log \in Seq(Sampled)
  <2>1. current \in CurrentTickAccount /\ o \in PriceObservations /\ Recording
    BY DEF RecordTick, CanRecordTick, HistoryInv, HistoryTyped, TypeOK, Recording
  <2>2. current.tick \in Tick
    BY <2>1 DEF CurrentTickAccount
  <2> QED BY <2>1, <2>2, TickAssumption
          DEF PriceObservations, HistoryInv, HistoryTyped, TypeOK, RingIsTheLog
<1>2. tick \in Int /\ tick - last \in (-MAX_TICK_DELTA)..MAX_TICK_DELTA
  BY <1>1, ClampIsInReach
<1>3. o' = Recorded(o, tick, clock)
  BY DEF RecordTick, CanRecordTick, Recorded
<1>4. /\ o' \in PriceObservations /\ o'.owner = "oracle" /\ o' # o /\ o'.last_recorded_tick = tick
  <2>1. o.owner = "oracle" /\ o.total_entries \in Nat
    BY <1>1 DEF RecordTick, CanRecordTick, PriceObservations
  <2> HIDE DEF o, tick
  <2> HIDE DEF last
  <2>2. o \in PriceObservations /\ tick \in Int /\ clock \in Nat
    BY <1>1, <1>2
  <2>3. \A p : p = Recorded(o, tick, clock) =>
          /\ p \in PriceObservations /\ p.owner = o.owner
          /\ p.last_recorded_tick = tick /\ p.total_entries = o.total_entries + 1
    BY <2>2, RecordedIsCounted
  <2>4. /\ o' \in PriceObservations /\ o'.owner = o.owner
        /\ o'.last_recorded_tick = tick /\ o'.total_entries = o.total_entries + 1
    BY <1>3, <2>3
  <2>5. o' # o
    BY <2>1, <2>4
  <2> QED BY <2>1, <2>4, <2>5
<1>5. log' = Append(log, [at |-> clock, tick |-> tick])
  BY <1>4 DEF Logged
<1>6. log[Len(log)].at + min_interval <= clock /\ last = log[Len(log)].tick
  <2>1. newest(o).timestamp = log[Len(log)].at /\ Len(log) >= 1 /\ last = log[Len(log)].tick
    BY <1>1, RingIsRead DEF IsEndOf
  <2>2. clock - newest(o).timestamp >= min_interval
    BY DEF RecordTick, CanRecordTick, sampling_due
  <2>3. log[Len(log)].at \in Nat
    BY <1>1, <2>1, SamplesAreTyped
  <2> QED BY <1>1, <2>1, <2>2, <2>3, Numbers
<1>7. [at |-> clock, tick |-> tick] \in Sampled
  BY <1>1, <1>2 DEF Sampled
<1> QED BY <1>1, <1>2, <1>3, <1>4, <1>5, <1>6, <1>7

LEMMA RecordTickKeepsInv ==
  ASSUME HistoryInv, RecordTick, Logged
  PROVE  HistoryInv'
<1> DEFINE o == observations
           tick == clamped_tick(o.last_recorded_tick, current.tick)
           e == [at |-> clock, tick |-> tick]
<1>1. /\ Recording /\ o \in PriceObservations /\ IsEndOf(o, log)
      /\ o' = Recorded(o, tick, clock)
      /\ o' \in PriceObservations /\ o'.owner = "oracle"
      /\ log' = Append(log, e) /\ e \in Sampled
      /\ log[Len(log)].at + min_interval <= e.at
      /\ e.tick - log[Len(log)].tick \in (-MAX_TICK_DELTA)..MAX_TICK_DELTA
  BY RecordTickSamples
<1>2. /\ log \in Seq(Sampled) /\ Len(log) >= 1 /\ clock \in Nat
      /\ UNCHANGED <<clock, current, price_account>>
  BY <1>1 DEF HistoryInv, HistoryTyped, TypeOK, IsEndOf, RecordTick, CanRecordTick
<1>3. HistoryTyped'
  BY <1>1, <1>2 DEF HistoryInv, HistoryTyped, TypeOK
<1>4. NothingFromTheFuture'
  <2>1. Len(log') = Len(log) + 1 /\ log'[Len(log) + 1] = e
        /\ \A i \in 1..Len(log) : log'[i] = log[i]
    BY <1>1, <1>2
  <2>2. ASSUME NEW i \in 1..Len(log') PROVE log'[i].at <= clock
    <3>1. CASE i \in 1..Len(log)
      BY <2>1, <3>1 DEF HistoryInv, NothingFromTheFuture
    <3>2. CASE i = Len(log) + 1
      BY <1>2, <2>1, <3>2
    <3> QED BY <2>1, <3>1, <3>2
  <2> QED BY <1>2, <2>2 DEF HistoryInv, NothingFromTheFuture
<1>5. RingIsTheLog'
  <2>1. tick \in Int
    BY <1>1 DEF Sampled
  <2>2. IsEndOf(Recorded(o, tick, clock), Append(log, e))
    <3> HIDE DEF o, tick
    <3> QED BY <1>1, <1>2, <2>1, RecordingExtendsTheEnd DEF e
  <2>3. IsEndOf(o', log')
    <3> HIDE DEF tick, e
    <3> QED BY <1>1, <2>2
  <2> QED BY <2>3 DEF RingIsTheLog, IsEndOf
<1>6. LogIsSampled' /\ RecordedWalkIsBounded'
  <2> HIDE DEF e
  <2>1. \A i \in 2..Len(log) :
            /\ log[i - 1].at + min_interval <= log[i].at
            /\ log[i].tick - log[i - 1].tick \in (-MAX_TICK_DELTA)..MAX_TICK_DELTA
    BY DEF HistoryInv, LogIsSampled
  <2>2. \A i, j \in 1..Len(log) : i < j =>
            /\ log[j].tick - log[i].tick <= (j - i) * MAX_TICK_DELTA
            /\ log[i].tick - log[j].tick <= (j - i) * MAX_TICK_DELTA
    BY DEF HistoryInv, RecordedWalkIsBounded
  <2>3. /\ \A i \in 2..Len(log') :
               /\ log'[i - 1].at + min_interval <= log'[i].at
               /\ log'[i].tick - log'[i - 1].tick \in (-MAX_TICK_DELTA)..MAX_TICK_DELTA
        /\ \A i, j \in 1..Len(log') : i < j =>
               /\ log'[j].tick - log'[i].tick <= (j - i) * MAX_TICK_DELTA
               /\ log'[i].tick - log'[j].tick <= (j - i) * MAX_TICK_DELTA
    BY <1>1, <1>2, <2>1, <2>2, SampleIsInReach
  <2> QED BY <2>3 DEF LogIsSampled, RecordedWalkIsBounded
<1>7. NothingUnrecorded'
  <2>1. o' # NONE
    BY <1>1, NoneAssumption
  <2> QED BY <1>1, <2>1 DEF NothingUnrecorded, Recording
<1> QED BY <1>3, <1>4, <1>5, <1>6, <1>7 DEF HistoryInv

\* The buffer a feed starts with.
LEMMA StartKeepsInv ==
  ASSUME HistoryInv, NEW tick \in Tick, CreatePriceObservations(tick), Logged
  PROVE  HistoryInv' /\ log = <<>> /\ log' = <<[at |-> clock, tick |-> tick]>>
<1> DEFINE o == observations
           e == [at |-> clock, tick |-> tick]
<1>1. /\ clock \in Nat /\ tick \in Int /\ ~Recording /\ log = <<>>
      /\ UNCHANGED <<clock, current, price_account>>
  BY TickAssumption
     DEF CreatePriceObservations, HistoryInv, HistoryTyped, TypeOK, NothingUnrecorded, Recording
<1>2. /\ o'.owner = "oracle" /\ o'.write_index = 1 /\ o'.total_entries = 1
      /\ o'.last_recorded_tick = tick /\ o'.entries[0].timestamp = clock
      /\ o' \in PriceObservations
  <2>1. 0 \in Slot /\ 1 \in Slot
    BY Numbers DEF Slot, CAP
  <2> DEFINE entries == [i \in Slot |-> [timestamp |-> IF i = 0 THEN clock ELSE 0,
                                         tick_cumulative |-> 0]]
  <2>2. entries \in [Slot -> ObservationEntry] /\ entries[0].timestamp = clock
    BY <1>1, <2>1 DEF ObservationEntry
  <2>3. o' = [owner |-> "oracle", write_index |-> 1, total_entries |-> 1,
              last_recorded_tick |-> tick, entries |-> entries]
    BY DEF CreatePriceObservations
  <2> HIDE DEF entries
  <2> QED BY <1>1, <2>1, <2>2, <2>3 DEF PriceObservations, Owner
<1>3. o' # NONE /\ o = NONE
  BY <1>2, NoneAssumption DEF CreatePriceObservations
<1>4. log' = <<e>>
  BY <1>1, <1>2, <1>3 DEF Logged
<1>5. e \in Sampled /\ log' \in Seq(Sampled) /\ Len(log') = 1 /\ log'[1] = e
  BY <1>1, <1>4 DEF Sampled
<1>6. HistoryTyped'
  BY <1>1, <1>2, <1>5 DEF HistoryInv, HistoryTyped, TypeOK
<1>7. NothingFromTheFuture'
  <2>1. ASSUME NEW i \in 1..Len(log') PROVE log'[i].at <= clock
    <3>1. i = 1
      BY <1>5
    <3> QED BY <1>1, <1>5, <3>1
  <2> QED BY <1>1, <2>1 DEF HistoryInv, NothingFromTheFuture
<1>8. RingIsTheLog'
  <2>1. slot(1) = 0 /\ 1 % CAP = 1
    <3>1. (CAP * 0 + 0) % CAP = 0 /\ (CAP * 0 + 1) % CAP = 1
      <4>1. 0 \in 0..(CAP - 1) /\ 1 \in 0..(CAP - 1) /\ 0 \in Int /\ CAP \in Nat \ {0}
        BY Numbers
      <4> QED BY <4>1, RemainderIsUnique, Zenon
    <3>2. CAP * 0 + 0 = 0 /\ CAP * 0 + 1 = 1 /\ 1 - 1 = 0
      BY Numbers
    <3> QED BY <3>1, <3>2, Zenon DEF slot
  <2>2. \A i \in 1..1 : i = 1
    OBVIOUS
  <2>3. \A i \in 2..1 : FALSE
    OBVIOUS
  <2>4. IsEndOf(o', log')
    <3> HIDE DEF o
    <3> QED BY <1>2, <1>5, <2>1, <2>2, <2>3 DEF IsEndOf
  <2> QED BY <2>4 DEF RingIsTheLog, IsEndOf
<1>9. LogIsSampled' /\ RecordedWalkIsBounded' /\ NothingUnrecorded'
  <2>1. \A i \in 2..1 : FALSE
    OBVIOUS
  <2>2. \A i, j \in 1..1 : ~(i < j)
    OBVIOUS
  <2> QED BY <1>2, <1>3, <1>5, <2>1, <2>2
          DEF LogIsSampled, RecordedWalkIsBounded, NothingUnrecorded, Recording
<1> QED BY <1>1, <1>4, <1>6, <1>7, <1>8, <1>9 DEF HistoryInv

LEMMA ForeignKeepsInv ==
  ASSUME HistoryInv, NEW o \in ForeignObservations, ClaimObservations(o), Logged
  PROVE  /\ HistoryInv' /\ UNCHANGED <<clock, current, price_account, log>>
         /\ ~Recording /\ ~Recording'
<1>1. o \in PriceObservations /\ o.owner = "other" /\ observations' = o
      /\ UNCHANGED <<clock, current, price_account>> /\ ~Recording /\ ~Recording'
  BY ForeignAssumption DEF ClaimObservations, Recording
<1>2. log = <<>> /\ log' = log /\ Len(log) = 0 /\ log' = <<>> /\ Len(log') = 0
  BY <1>1 DEF HistoryInv, NothingUnrecorded, Logged
<1>3. HistoryTyped'
  BY <1>1, <1>2 DEF HistoryInv, HistoryTyped, TypeOK
<1>4. NothingFromTheFuture' /\ NothingUnrecorded' /\ LogIsSampled' /\ RingIsTheLog'
      /\ RecordedWalkIsBounded'
  BY <1>1, <1>2
     DEF HistoryInv, NothingFromTheFuture, NothingUnrecorded, LogIsSampled, RingIsTheLog,
         RecordedWalkIsBounded
<1> QED BY <1>1, <1>2, <1>3, <1>4 DEF HistoryInv

\* Everything else leaves the feed alone.
LEMMA OthersKeepInv ==
  ASSUME HistoryInv, Logged,
         \/ \E p \in Price : CreateCurrentTickAccount(p) \/ UpdateCurrentTick(p)
         \/ \E p \in InitialPrice : CreateOraclePriceAccount(p)
         \/ PublishPrice
         \/ AdvanceClock
         \/ \E t \in Tick : ClaimCurrentTick(t)
  PROVE  HistoryInv' /\ UNCHANGED <<observations, log>>
<1>1. /\ clock \in Nat /\ current \in CurrentTickAccount \union {NONE}
      /\ price_account # NONE => price_account.timestamp \in 0..clock
      /\ current # NONE => current.last_updated <= clock
      /\ current # NONE => current.last_updated \in Nat
  BY DEF HistoryInv, HistoryTyped, TypeOK, NothingFromTheFuture, CurrentTickAccount
<1>2. /\ UNCHANGED observations /\ clock' \in Nat /\ clock <= clock'
      /\ current' \in CurrentTickAccount \union {NONE}
      /\ current' # NONE => current'.last_updated <= clock'
      /\ price_account' # NONE => price_account'.timestamp \in 0..clock'
  <2>1. CASE \E p \in Price : CreateCurrentTickAccount(p)
    BY <1>1, <2>1, TickAssumption DEF CreateCurrentTickAccount, CurrentTickAccount, Owner
  <2>2. CASE \E p \in Price : UpdateCurrentTick(p)
    <3>1. PICK p \in Price : UpdateCurrentTick(p)
      BY <2>2
    <3>2. /\ current \in CurrentTickAccount /\ price_to_tick(p) \in Tick
          /\ UNCHANGED <<clock, observations, price_account>>
          /\ current' = [current EXCEPT !.tick = price_to_tick(p), !.last_updated = clock]
      BY <1>1, <3>1, TickAssumption DEF UpdateCurrentTick
    <3>3. current' \in CurrentTickAccount /\ current'.last_updated = clock
      BY <1>1, <3>2 DEF CurrentTickAccount
    <3> QED BY <1>1, <3>2, <3>3
  <2>3. CASE \E p \in InitialPrice : CreateOraclePriceAccount(p)
    BY <1>1, <2>3 DEF CreateOraclePriceAccount
  <2>4. CASE PublishPrice
    BY <1>1, <2>4 DEF PublishPrice
  <2>5. CASE AdvanceClock
    BY <1>1, <2>5 DEF AdvanceClock
  <2>6. CASE \E t \in Tick : ClaimCurrentTick(t)
    BY <1>1, <2>6 DEF ClaimCurrentTick, CurrentTickAccount, Owner
  <2> QED BY <2>1, <2>2, <2>3, <2>4, <2>5, <2>6
<1>3. log' = log
  BY <1>2 DEF Logged
<1> QED BY <1>2, <1>3, FeedStands

LEMMA NextKeepsHistoryInv ==
  ASSUME HistoryInv, [HistoryNext]_<<vars, log>>
  PROVE  HistoryInv'
<1>1. CASE UNCHANGED <<vars, log>>
  BY <1>1, FeedStands DEF vars, HistoryInv, HistoryTyped, TypeOK, NothingFromTheFuture
<1>2. CASE HistoryNext
  <2>1. Next /\ Logged
    BY <1>2 DEF HistoryNext
  <2> QED BY <2>1, OthersKeepInv, StartKeepsInv, RecordTickKeepsInv, ForeignKeepsInv
          DEF Next, SourceNext, KeeperNext, OutsideNext
<1> QED BY <1>1, <1>2

\* What is in the ring is what was recorded, at every moment (record_tick,
\* create_price_observations): the inductive invariant of the oracle with its log.
THEOREM HistoryIsSound == HistorySpec => []HistoryInv
<1>1. HistoryInv /\ [HistoryNext]_<<vars, log>> => HistoryInv'
  BY NextKeepsHistoryInv
<1> QED BY <1>1, InitHistoryInv, PTL DEF HistorySpec

\* A feed's position from the back of the ring, and from the front of the log.
LEMMA BackwardsIsTheLog ==
  ASSUME NEW o \in PriceObservations, NEW s \in Seq(Sampled), IsEndOf(o, s),
         NEW i \in 0..(Stored(o) - 1)
  PROVE  /\ Len(s) - i \in 1..Len(s) /\ i < CAP
         /\ SlotBack(o, i) = slot(Len(s) - i)
         /\ o.entries[SlotBack(o, i)].timestamp = s[Len(s) - i].at
<1> DEFINE n == Len(s)
<1>1. n \in Nat \ {0} /\ o.write_index = n % CAP /\ o.total_entries = n
  BY DEF IsEndOf
<1>2. i \in Nat /\ i < n /\ i < CAP /\ n - i \in 1..n /\ n - (n - i) < CAP
  BY <1>1, Numbers DEF Stored, CAP
<1>3. SlotBack(o, i) = slot(n - i)
  <2> DEFINE q == n \div CAP
             w == n % CAP
  <2>1. q \in Int /\ w \in Int /\ n = CAP * q + w
    BY <1>1, Numbers, RemainderIsRead
  <2> HIDE DEF q, w, n
  <2>2. w + CAP - 1 - i = ((n - i) - 1) + CAP * (1 - q)
    <3>1. CAP * (1 - q) = CAP - CAP * q /\ CAP * q \in Int /\ CAP \in Int
      BY <2>1, Numbers
    <3> QED BY <1>1, <1>2, <2>1, <3>1
  <2>3. (((n - i) - 1) + CAP * (1 - q)) % CAP = ((n - i) - 1) % CAP
    <3>1. (n - i) - 1 \in Int /\ 1 - q \in Int /\ CAP \in Nat \ {0}
      BY <1>1, <1>2, <2>1, Numbers
    <3> QED BY <3>1, RemainderOfTurns, Zenon
  <2> QED BY <1>1, <2>2, <2>3 DEF SlotBack, slot, w, n, CAP
<1>4. o.entries[slot(n - i)].timestamp = s[n - i].at
  BY <1>2 DEF IsEndOf
<1> QED BY <1>2, <1>3, <1>4

LEMMA WindowStaysSound == HistoryInv => WindowIsSound
<1> SUFFICES ASSUME HistoryInv PROVE WindowIsSound
  OBVIOUS
<1> DEFINE o == observations
           n == Len(log)
<1>1. ASSUME Recording
      PROVE  /\ o \in PriceObservations /\ log \in Seq(Sampled) /\ IsEndOf(o, log)
             /\ clock \in Nat /\ n \in Nat \ {0} /\ o.total_entries = n
  BY <1>1 DEF Recording, HistoryInv, HistoryTyped, TypeOK, RingIsTheLog, IsEndOf
<1>2. SamplesAreSpaced
  <2> SUFFICES ASSUME Recording, NEW i \in 1..(Stored(o) - 1)
               PROVE  o.entries[SlotBack(o, i)].timestamp + min_interval
                        <= o.entries[SlotBack(o, i - 1)].timestamp
    BY DEF SamplesAreSpaced
  <2>1. Stored(o) \in Nat
    BY <1>1, Numbers DEF Stored, CAP
  <2>2. i \in 0..(Stored(o) - 1) /\ i - 1 \in 0..(Stored(o) - 1) /\ i \in Nat
    BY <2>1
  <2>3. /\ o.entries[SlotBack(o, i)].timestamp = log[n - i].at
        /\ o.entries[SlotBack(o, i - 1)].timestamp = log[n - (i - 1)].at
        /\ n - i \in 1..n /\ n - (i - 1) \in 1..n
    BY <1>1, <2>2, BackwardsIsTheLog
  <2>4. n - (i - 1) \in 2..n /\ (n - (i - 1)) - 1 = n - i
    BY <1>1, <2>2, <2>3
  <2>5. log[(n - (i - 1)) - 1].at + min_interval <= log[n - (i - 1)].at
    BY <2>4 DEF HistoryInv, LogIsSampled
  <2> QED BY <2>3, <2>4, <2>5
<1>3. WindowIsTheRing
  <2> SUFFICES ASSUME Recording
               PROVE  /\ oldest_index(o) = SlotBack(o, Stored(o) - 1)
                      /\ last_index(o) = SlotBack(o, 0)
                      /\ newest(o).timestamp <= clock
    BY DEF WindowIsTheRing
  <2>1. Stored(o) \in 1..n /\ FirstOf(log) = n - (Stored(o) - 1) /\ n - 0 = n
    BY <1>1, Numbers DEF Stored, FirstOf, CAP
  <2>2. 0 \in 0..(Stored(o) - 1) /\ Stored(o) - 1 \in 0..(Stored(o) - 1)
    BY <2>1
  <2>3. SlotBack(o, 0) = slot(n - 0) /\ SlotBack(o, Stored(o) - 1) = slot(n - (Stored(o) - 1))
    BY <1>1, <2>2, BackwardsIsTheLog
  <2>4. last_index(o) = slot(n) /\ oldest_index(o) = slot(FirstOf(log))
        /\ newest(o).timestamp = log[n].at
    BY <1>1, RingIsRead
  <2>5. log[n].at <= clock
    <3>1. n \in 1..n
      BY <1>1
    <3> QED BY <3>1 DEF HistoryInv, NothingFromTheFuture
  <2> QED BY <2>1, <2>3, <2>4, <2>5
<1>4. LateReportHasNoWeight
  <2> SUFFICES ASSUME Recording, current # NONE, current.last_updated = clock, NEW t \in Tick
               PROVE  twap_tick(o, [current EXCEPT !.tick = t], clock)
                        = twap_tick(o, current, clock)
    BY DEF LateReportHasNoWeight
  <2>1. current \in CurrentTickAccount /\ current.tick \in Int /\ t \in Int
    BY TickAssumption DEF HistoryInv, HistoryTyped, TypeOK, CurrentTickAccount
  <2>2. o.last_recorded_tick \in Int /\ newest(o).timestamp \in Int /\ newest(o).timestamp <= clock
        /\ clock \in Nat
    <3>1. newest(o).timestamp = log[n].at /\ n \in 1..n
      BY <1>1, RingIsRead
    <3> QED BY <1>1, <1>3, <3>1, SamplesAreTyped DEF WindowIsTheRing, PriceObservations
  <2>3. ASSUME NEW c, c.last_updated = clock, c.tick \in Int
        PROVE  tail_cumulative(o, c, clock)
                 = o.last_recorded_tick * (clock - newest(o).timestamp)
    <3>1. Clamp(c.last_updated, newest(o).timestamp, clock) = clock
      BY <2>2, <2>3 DEF Clamp
    <3>2. clamped_tick(o.last_recorded_tick, c.tick) \in Int
      BY <2>2, <2>3, ClampIsInReach
    <3>3. clamped_tick(o.last_recorded_tick, c.tick) * (clock - clock) = 0
      BY <2>2, <3>2
    <3>4. o.last_recorded_tick * (clock - newest(o).timestamp) \in Int
      <4>1. clock - newest(o).timestamp \in Int
        BY <2>2
      <4> QED BY <2>2, <4>1
    <3> QED BY <3>1, <3>3, <3>4 DEF tail_cumulative
  <2> DEFINE c == [current EXCEPT !.tick = t]
  <2>4. c.last_updated = clock /\ c.tick = t
    BY <2>1 DEF CurrentTickAccount
  <2> HIDE DEF c
  <2>5. tail_cumulative(o, c, clock) = tail_cumulative(o, current, clock)
    BY <2>1, <2>3, <2>4
  <2> QED BY <2>5 DEF twap_tick, c
<1> QED BY <1>2, <1>3, <1>4 DEF WindowIsSound

---------------------------------------------------------------------------
(* A pool takes no step the oracle does not allow a price source           *)

LEMMA PoolStepIsOracleStep ==
  ASSUME PoolInv, PoolNext
  PROVE  HistoryNext /\ spot' \in Price \union {NONE}
<1>1. /\ Logged
      /\ \/ AmmNext
         \/ (KeeperNext \/ OutsideNext) /\ UNCHANGED spot
         \/ Next /\ UNCHANGED spot
  BY DEF PoolNext
<1>2. CASE AmmNext
  <2>1. CASE \E p \in Price : NewPool(p) \/ MovePrice(p)
    BY <1>1, <2>1 DEF NewPool, MovePrice, HistoryNext, Next, SourceNext
  <2>2. CASE create_price_observations
    <3>1. current \in CurrentTickAccount /\ CreatePriceObservations(current.tick) /\ spot' = spot
      BY <2>2 DEF create_price_observations, PoolInv, HistoryInv, HistoryTyped, TypeOK
    <3>2. current.tick \in Tick
      BY <3>1 DEF CurrentTickAccount
    <3> QED BY <1>1, <3>1, <3>2 DEF HistoryNext, Next, SourceNext, PoolInv
  <2>3. CASE create_oracle_price_account
    <3>1. spot \in InitialPrice /\ CreateOraclePriceAccount(spot) /\ spot' = spot
      BY <2>3, PriceAssumption DEF create_oracle_price_account, PoolInv
    <3> QED BY <1>1, <3>1 DEF HistoryNext, Next, SourceNext, PoolInv
  <2> QED BY <1>2, <2>1, <2>2, <2>3 DEF AmmNext
<1>3. CASE (KeeperNext \/ OutsideNext \/ Next) /\ UNCHANGED spot
  BY <1>1, <1>3 DEF HistoryNext, Next, PoolInv
<1> QED BY <1>1, <1>2, <1>3

LEMMA PoolStepsAreOracleSteps ==
  PoolInv /\ [PoolNext]_poolVars => PoolInv' /\ [HistoryNext]_<<vars, log>>
<1> SUFFICES ASSUME PoolInv, [PoolNext]_poolVars
             PROVE  PoolInv' /\ [HistoryNext]_<<vars, log>>
  OBVIOUS
<1>1. HistoryInv
  BY DEF PoolInv
<1>2. CASE PoolNext
  BY <1>1, <1>2, PoolStepIsOracleStep, NextKeepsHistoryInv DEF PoolInv
<1>3. CASE UNCHANGED poolVars
  <2>1. UNCHANGED <<vars, log>> /\ spot' = spot
    BY <1>3 DEF poolVars
  <2> QED BY <1>1, <2>1, NextKeepsHistoryInv DEF PoolInv
<1> QED BY <1>2, <1>3

\* The same of the oracle of a pool, whose price is always one a pool can have.
THEOREM PoolIsSound == PoolSpec => []PoolInv
<1>1. PoolInit => PoolInv
  BY InitHistoryInv DEF PoolInit, PoolInv
<1> QED BY <1>1, PoolStepsAreOracleSteps, PTL DEF PoolSpec

\* A pool of the AMM is a price source like any other: every step it takes is one the
\* oracle allows (new_definition, the chained calls, create_price_observations,
\* create_oracle_price_account).
THEOREM PoolIsAPriceSource == PoolSpec => HistorySpec
<1>1. PoolInit => HistoryInit
  BY DEF PoolInit
<1> QED BY <1>1, PoolIsSound, PoolStepsAreOracleSteps, PTL DEF PoolSpec, HistorySpec

---------------------------------------------------------------------------
(* Theorems                                                                *)

\* The accounts of the oracle hold data of their types, whoever wrote to their addresses
\* before (the Account encodings, is_default).
THEOREM TypeCorrect == PoolSpec => []TypeOK
<1>1. HistoryInv => TypeOK
  BY DEF HistoryInv, HistoryTyped
<1> QED BY <1>1, HistoryIsSound, PoolIsAPriceSource, PTL

\* The stored samples are spaced across the wrap of the ring, the window is the whole
\* ring, and a tick reported in the block of a publication has no weight in it.
THEOREM WindowIsAlwaysSound == PoolSpec => []WindowIsSound
<1> QED BY WindowStaysSound, HistoryIsSound, PoolIsAPriceSource, PTL

\* The recorded tick moves by at most the clamp per sample, however the source's jumps
\* (clamped_tick in record_tick).
THEOREM WalkIsBounded == PoolSpec => []RecordedWalkIsBounded
<1>1. HistoryInv => RecordedWalkIsBounded
  BY DEF HistoryInv
<1> QED BY <1>1, HistoryIsSound, PoolIsAPriceSource, PTL

\* Of a pool's feed: the pool's own tick is the one it records.
PoolHasItsTick ==
    Recording /\ source = "pool" => current # NONE /\ current.owner = "oracle"

LEMMA PoolKeepsItsTick == PoolInv /\ PoolHasItsTick /\ [PoolNext]_poolVars => PoolHasItsTick'
<1> SUFFICES ASSUME PoolInv, PoolHasItsTick, Recording', source = "pool", PoolNext
             PROVE  current' # NONE /\ current'.owner = "oracle"
  BY DEF PoolHasItsTick, PoolNext, poolVars, vars, Recording
<1>1. AmmNext \/ KeeperNext \/ OutsideNext
  BY DEF PoolNext
<1>2. CASE UNCHANGED observations
  <2>1. current # NONE /\ current.owner = "oracle" /\ Recording
    BY <1>2 DEF PoolHasItsTick, Recording
  <2>2. CASE UNCHANGED current
    BY <2>1, <2>2
  <2>3. CASE \E p \in Price : UpdateCurrentTick(p)
    <3>1. PICK p \in Price : current' = [current EXCEPT !.tick = price_to_tick(p),
                                                       !.last_updated = clock]
      BY <2>3 DEF UpdateCurrentTick
    <3>2. current \in CurrentTickAccount /\ clock \in Nat /\ price_to_tick(p) \in Tick
      BY <2>1, TickAssumption DEF PoolInv, HistoryInv, HistoryTyped, TypeOK
    <3>3. current' \in CurrentTickAccount /\ current'.owner = "oracle"
      BY <2>1, <3>1, <3>2 DEF CurrentTickAccount
    <3> QED BY <3>3, NoneAssumption
  <2> QED BY <1>1, <2>1, <2>2, <2>3
          DEF AmmNext, NewPool, MovePrice, CreateCurrentTickAccount, create_price_observations,
              create_oracle_price_account, CreatePriceObservations, CreateOraclePriceAccount,
              KeeperNext, RecordTick, CanRecordTick, PublishPrice, OutsideNext, AdvanceClock,
              ClaimCurrentTick, ClaimObservations
<1>3. CASE create_price_observations
  BY <1>3 DEF create_price_observations, CreatePriceObservations
<1>4. CASE RecordTick
  BY <1>4 DEF RecordTick, CanRecordTick
<1>5. CASE \E o \in ForeignObservations : ClaimObservations(o)
  BY <1>5, ForeignAssumption DEF ClaimObservations, Recording
<1> QED BY <1>1, <1>2, <1>3, <1>4, <1>5
        DEF AmmNext, NewPool, MovePrice, CreateCurrentTickAccount, UpdateCurrentTick,
            create_oracle_price_account, CreateOraclePriceAccount, KeeperNext, PublishPrice,
            OutsideNext, AdvanceClock, ClaimCurrentTick

LEMMA StaleFeedIsDue ==
  ASSUME HistoryInv, Recording, clock - newest(observations).timestamp > max_tail
  PROVE  sampling_due(observations, clock)
<1>1. observations \in PriceObservations /\ log \in Seq(Sampled) /\ IsEndOf(observations, log)
  BY DEF Recording, RingIsTheLog, HistoryInv, HistoryTyped, TypeOK
<1>2. Len(log) \in 1..Len(log) /\ newest(observations).timestamp = log[Len(log)].at
  BY <1>1, RingIsRead DEF IsEndOf
<1>3. newest(observations).timestamp \in Nat /\ clock \in Nat
  BY <1>1, <1>2, SamplesAreTyped DEF HistoryInv, HistoryTyped, TypeOK
<1>4. max_tail >= min_interval
  <2>1. MAX_TAIL_INTERVALS \in Nat \ {0} /\ min_interval \in Nat
    BY Numbers, BoundsAssumption
  <2>2. min_interval * MAX_TAIL_INTERVALS >= min_interval * 1
    BY <2>1, ProductsAreOrdered
  <2> QED BY <2>1, <2>2 DEF max_tail
<1> QED BY <1>3, <1>4, Numbers DEF sampling_due

\* Whenever a publication is refused because the feed is too old, recording a tick is due
\* and every check of it passes, so anybody can make the feed publishable again; and the
\* feed of a pool always has the pool's own tick (record_tick, publish_price).
THEOREM StaleFeedsRecover == PoolSpec => []StaleFeedCanBeRecorded
<1>1. PoolInit => PoolHasItsTick
  BY DEF PoolInit, HistoryInit, Init, PoolHasItsTick, Recording
<1>2. HistoryInv /\ PoolHasItsTick => StaleFeedCanBeRecorded
  BY StaleFeedIsDue DEF StaleFeedCanBeRecorded, PoolHasItsTick, CanRecordTick, Recording
<1>3. PoolInv => HistoryInv
  BY DEF PoolInv
<1> QED BY <1>1, <1>2, <1>3, PoolKeepsItsTick, PoolIsSound, PTL DEF PoolSpec

LEMMA FreshnessStep ==
  ASSUME HistoryInv, Next, price_account # NONE
  PROVE  /\ price_account'.timestamp >= price_account.timestamp
         /\ price_account'.timestamp <= clock'
         /\ price_account' # price_account =>
               newest(observations).timestamp + max_tail >= price_account'.timestamp
<1>1. /\ clock \in Nat /\ price_account.timestamp \in Nat /\ price_account.timestamp <= clock
  BY DEF HistoryInv, HistoryTyped, TypeOK, NothingFromTheFuture
<1>2. CASE PublishPrice
  <2>1. price_account'.timestamp = clock /\ clock' = clock /\ tail_bounded(observations, clock)
    BY <1>2 DEF PublishPrice
  <2>2. newest(observations).timestamp \in Nat
    <3>1. observations \in PriceObservations /\ log \in Seq(Sampled) /\ IsEndOf(observations, log)
      BY <1>2 DEF PublishPrice, Recording, RingIsTheLog, HistoryInv, HistoryTyped, TypeOK
    <3>2. Len(log) \in 1..Len(log) /\ newest(observations).timestamp = log[Len(log)].at
      BY <3>1, RingIsRead DEF IsEndOf
    <3> QED BY <3>1, <3>2, SamplesAreTyped
  <2> QED BY <1>1, <2>1, <2>2, Numbers DEF tail_bounded
<1>3. CASE AdvanceClock
  BY <1>1, <1>3 DEF AdvanceClock
<1>4. ASSUME clock' = clock, price_account' = price_account
      PROVE  /\ price_account'.timestamp >= price_account.timestamp
             /\ price_account'.timestamp <= clock'
  BY <1>1, <1>4
<1>5. \/ PublishPrice \/ AdvanceClock
      \/ clock' = clock /\ price_account' = price_account
  BY DEF Next, SourceNext, KeeperNext, OutsideNext, CreateCurrentTickAccount, UpdateCurrentTick,
         CreatePriceObservations, CreateOraclePriceAccount, RecordTick, CanRecordTick,
         ClaimCurrentTick, ClaimObservations
<1> QED BY <1>2, <1>3, <1>4, <1>5

\* A publication is stamped with the clock, never backwards or ahead, and never averages a
\* feed older than the tail allows (publish_price).
THEOREM FreshnessIsTrue == PoolSpec => FreshnessIsTruthful
<1>1. HistoryInv /\ [HistoryNext]_<<vars, log>> =>
        [price_account # NONE =>
           /\ price_account'.timestamp >= price_account.timestamp
           /\ price_account'.timestamp <= clock'
           /\ price_account' # price_account =>
                 newest(observations).timestamp + max_tail >= price_account'.timestamp]_vars
  BY FreshnessStep DEF HistoryNext
<1> QED BY <1>1, HistoryIsSound, PoolIsAPriceSource, PTL DEF HistorySpec, FreshnessIsTruthful

---------------------------------------------------------------------------
(* The price feed                                                          *)

live == IF current # NONE /\ current.owner = "oracle"
        THEN [tick |-> current.tick, since |-> current.last_updated] ELSE NONE

LEMMA FollowIsClamp ==
  ASSUME NEW last \in Int, NEW t \in Int
  PROVE  Feed!Follow(last, t) = clamped_tick(last, t)
<1> DEFINE D == MAX_TICK_DELTA
           S == (last - D)..(last + D)
           c == clamped_tick(last, t)
           Nearest(x) == \A y \in S : Feed!Abs(x - t) <= Feed!Abs(y - t)
<1>1. D \in Nat
  BY Numbers
<1>2. c \in S /\ Nearest(c)
  BY <1>1 DEF clamped_tick, Clamp, Feed!Abs
<1>3. ASSUME NEW x \in S, Nearest(x)
      PROVE  x = c
  <2>1. Feed!Abs(x - t) <= Feed!Abs(c - t)
    BY <1>2, <1>3
  <2> QED BY <1>1, <2>1 DEF clamped_tick, Clamp, Feed!Abs
<1>4. Feed!Follow(last, t) = CHOOSE x \in S : Nearest(x)
  BY DEF Feed!Follow
<1> HIDE DEF S, c, Nearest
<1>5. (CHOOSE x \in S : Nearest(x)) = c
  BY <1>2, <1>3
<1> QED BY <1>4, <1>5 DEF c

\* The recursive sum over the window is the difference of the running sums at its ends.
LEMMA BodyIsDifference ==
  ASSUME log \in Seq(Sampled), Len(log) >= 1,
         NEW cum \in [FirstOf(log)..Len(log) -> Int],
         \A i \in (FirstOf(log) + 1)..Len(log) :
            cum[i] - cum[i - 1] = log[i].tick * (log[i].at - log[i - 1].at)
  PROVE  Feed!Body = cum[Len(log)] - cum[FirstOf(log)]
<1> DEFINE m == FirstOf(log)
           n == Len(log)
           Term(f, i) == IF i = m THEN 0 ELSE f[i - 1] + log[i].tick * (log[i].at - log[i - 1].at)
           IsUpto(f) == f = [i \in m..n |-> Term(f, i)]
           g == [i \in m..n |-> cum[i] - cum[m]]
<1>1. n \in Nat \ {0} /\ m \in 1..n /\ Feed!First = m
  BY Numbers DEF FirstOf, Feed!First, CAP
<1>2. Feed!Body = (CHOOSE f : IsUpto(f))[n]
  BY <1>1 DEF Feed!Body
<1>3. ASSUME NEW f, IsUpto(f), NEW i \in m..n
      PROVE  f[i] = Term(f, i)
  <2> HIDE DEF Term
  <2> QED BY <1>3
<1>4. IsUpto(g)
  <2>1. ASSUME NEW i \in m..n
        PROVE  g[i] = Term(g, i)
    <3>1. CASE i = m
      <4>1. cum[m] \in Int
        BY <1>1
      <4> QED BY <3>1, <4>1
    <3>2. CASE i # m
      <4>1. i \in (m + 1)..n /\ i - 1 \in m..n
        BY <1>1, <3>2
      <4>2. cum[i] - cum[i - 1] = log[i].tick * (log[i].at - log[i - 1].at)
        BY <4>1
      <4>3. cum[i] \in Int /\ cum[i - 1] \in Int /\ cum[m] \in Int
        BY <1>1, <4>1
      <4>4. cum[i] - cum[m] = (cum[i - 1] - cum[m]) + (cum[i] - cum[i - 1])
        BY <4>3
      <4>5. g[i] = cum[i] - cum[m] /\ g[i - 1] = cum[i - 1] - cum[m]
        BY <4>1
      <4> QED BY <3>2, <4>2, <4>4, <4>5
    <3> QED BY <3>1, <3>2
  <2>2. g = [i \in m..n |-> g[i]]
    OBVIOUS
  <2> HIDE DEF g, Term
  <2> QED BY <2>1, <2>2
<1> HIDE DEF IsUpto, g
<1>5. ASSUME NEW f, IsUpto(f)
      PROVE  f[n] = g[n]
  <2> DEFINE bad == {i \in m..n : f[i] # g[i]}
  <2>1. bad = {}
    <3> SUFFICES ASSUME bad # {} PROVE FALSE
      OBVIOUS
    <3>1. bad \subseteq Nat
      BY <1>1
    <3>2. PICK i \in bad : \A j \in bad : i <= j
      BY <3>1, LeastNatural
    <3>3. i \in m..n /\ f[i] = Term(f, i) /\ g[i] = Term(g, i) /\ f[i] # g[i]
      BY <1>3, <1>4, <1>5, <3>2
    <3>4. CASE i = m
      BY <3>3, <3>4
    <3>5. CASE i # m
      <4>1. i - 1 \in m..n /\ ~(i <= i - 1)
        BY <1>1, <3>3, <3>5
      <4>2. f[i - 1] = g[i - 1]
        BY <3>2, <4>1
      <4> QED BY <3>3, <3>5, <4>2
    <3> QED BY <3>4, <3>5
  <2> QED BY <1>1, <2>1
<1>6. (CHOOSE f : IsUpto(f))[n] = g[n]
  <2>1. IsUpto(CHOOSE f : IsUpto(f))
    BY <1>4
  <2> QED BY <1>5, <2>1
<1>7. g[n] = cum[n] - cum[m]
  BY <1>1 DEF g
<1> QED BY <1>2, <1>6, <1>7 DEF IsUpto

\* The mean of the window's samples, carried on to the present, is what is published.
LEMMA MeanIsTwap ==
  ASSUME HistoryInv, Recording, current # NONE, current.owner = "oracle"
  PROVE  Feed!Mean = twap_tick(observations, current, clock)
<1> DEFINE o == observations
           n == Len(log)
           m == FirstOf(log)
           cum == [i \in m..n |-> o.entries[slot(i)].tick_cumulative]
           since == Clamp(current.last_updated, newest(o).timestamp, clock)
<1>1. /\ o \in PriceObservations /\ log \in Seq(Sampled) /\ IsEndOf(o, log)
      /\ clock \in Nat /\ n \in Nat \ {0} /\ o.last_recorded_tick = log[n].tick
      /\ o.entries \in [Slot -> ObservationEntry]
  BY DEF Recording, HistoryInv, HistoryTyped, TypeOK, RingIsTheLog, IsEndOf, PriceObservations
<1>2. /\ current \in CurrentTickAccount /\ current.tick \in Int
      /\ current.last_updated \in Nat /\ current.last_updated <= clock
  BY TickAssumption DEF HistoryInv, HistoryTyped, TypeOK, NothingFromTheFuture, CurrentTickAccount
<1>3. /\ last_index(o) = slot(n) /\ oldest_index(o) = slot(m)
      /\ newest(o).timestamp = log[n].at /\ oldest(o).timestamp = log[m].at
      /\ m \in 1..n /\ n - m < CAP
  BY <1>1, RingIsRead
<1>4. /\ log[n].at \in Nat /\ log[n].tick \in Int /\ log[m].at \in Nat /\ log[n].at <= clock
  <2>1. n \in 1..n
    BY <1>1
  <2> QED BY <1>1, <1>3, <2>1, SamplesAreTyped DEF HistoryInv, NothingFromTheFuture
<1>5. cum \in [m..n -> Int]
  <2>1. ASSUME NEW i \in m..n PROVE o.entries[slot(i)].tick_cumulative \in Int
    <3>1. slot(i) \in Slot
      BY <1>3, SlotIsSlot
    <3> QED BY <1>1, <3>1 DEF ObservationEntry
  <2> QED BY <2>1
<1>6. /\ cum[n] = newest(o).tick_cumulative /\ cum[m] = oldest(o).tick_cumulative
      /\ cum[n] \in Int /\ cum[m] \in Int
  <2>1. n \in m..n /\ m \in m..n
    BY <1>1, <1>3
  <2>2. cum[n] = o.entries[slot(n)].tick_cumulative /\ cum[m] = o.entries[slot(m)].tick_cumulative
    BY <2>1
  <2> QED BY <1>3, <1>5, <2>1, <2>2 DEF newest, oldest
<1>7. \A i \in (m + 1)..n : cum[i] - cum[i - 1] = log[i].tick * (log[i].at - log[i - 1].at)
  <2> SUFFICES ASSUME NEW i \in (m + 1)..n
               PROVE  cum[i] - cum[i - 1] = log[i].tick * (log[i].at - log[i - 1].at)
    OBVIOUS
  <2>1. i \in m..n /\ i - 1 \in m..n /\ i \in 2..n /\ n - i < CAP - 1
    BY <1>1, <1>3, Numbers
  <2>2. /\ cum[i] = o.entries[slot(i)].tick_cumulative
        /\ cum[i - 1] = o.entries[slot(i - 1)].tick_cumulative
    BY <2>1
  <2> HIDE DEF cum
  <2> QED BY <1>1, <2>1, <2>2 DEF IsEndOf
<1>8. Feed!Body = cum[n] - cum[m]
  <2> HIDE DEF cum
  <2>1. log \in Seq(Sampled) /\ Len(log) >= 1
    BY <1>1
  <2>2. cum \in [FirstOf(log)..Len(log) -> Int]
    BY <1>5
  <2>3. \A i \in (FirstOf(log) + 1)..Len(log) :
           cum[i] - cum[i - 1] = log[i].tick * (log[i].at - log[i - 1].at)
    BY <1>7
  <2> QED BY <2>1, <2>2, <2>3, BodyIsDifference
<1>9. Feed!SinceLast = tail_cumulative(o, current, clock) /\ Feed!SinceLast \in Int
  <2>1. live = [tick |-> current.tick, since |-> current.last_updated] /\ Feed!Last = log[n]
    BY DEF live, Feed!Last
  <2>2. since = (IF current.last_updated < log[n].at THEN log[n].at ELSE current.last_updated)
        /\ since \in Nat
    <3>1. since = Clamp(current.last_updated, log[n].at, clock)
      BY <1>3
    <3>2. clock \in Nat /\ current.last_updated \in Nat /\ current.last_updated <= clock
          /\ log[n].at \in Nat /\ log[n].at <= clock
      BY <1>1, <1>2, <1>4
    <3> HIDE DEF since, n
    <3> QED BY <3>1, <3>2 DEF Clamp
  <2>3. Feed!Follow(log[n].tick, current.tick) = clamped_tick(log[n].tick, current.tick)
        /\ clamped_tick(log[n].tick, current.tick) \in Int
    BY <1>2, <1>4, FollowIsClamp, ClampIsInReach
  <2>4. Feed!SinceLast = log[n].tick * (since - log[n].at)
                         + clamped_tick(log[n].tick, current.tick) * (clock - since)
    BY <2>1, <2>2, <2>3 DEF live, Feed!SinceLast
  <2>5. tail_cumulative(o, current, clock)
          = log[n].tick * (since - log[n].at)
            + clamped_tick(log[n].tick, current.tick) * (clock - since)
    BY <1>1, <1>3 DEF tail_cumulative
  <2> HIDE DEF since, n
  <2>6. since - log[n].at \in Int /\ clock - since \in Int
    BY <1>1, <1>4, <2>2
  <2>7. log[n].tick * (since - log[n].at) \in Int
        /\ clamped_tick(log[n].tick, current.tick) * (clock - since) \in Int
    BY <1>4, <2>3, <2>6
  <2> QED BY <2>4, <2>5, <2>7
<1>10. Feed!First = m
  BY <1>1, Numbers DEF FirstOf, Feed!First, CAP
<1>11. Feed!Mean = ((cum[n] - cum[m]) + Feed!SinceLast) \div (clock - log[m].at)
  BY <1>8, <1>10 DEF Feed!Mean
<1> HIDE DEF cum, m, n, o
<1>12. (cum[n] - cum[m]) + Feed!SinceLast
         = newest(o).tick_cumulative + tail_cumulative(o, current, clock)
           - oldest(o).tick_cumulative
  BY <1>6, <1>9
<1> QED BY <1>3, <1>11, <1>12 DEF twap_tick, o

feedVars == <<clock, live, log, price_account>>

\* A step of the oracle that is none of the feed's.
LEMMA FeedStutters ==
  ASSUME UNCHANGED feedVars
  PROVE  [Feed!Next]_(Feed!vars)
BY DEF Feed!vars, feedVars, live

LEMMA ReportIsReport ==
  ASSUME HistoryInv, Logged, NEW p \in Price,
         CreateCurrentTickAccount(p) \/ UpdateCurrentTick(p)
  PROVE  Feed!Report
<1>1. /\ current'.owner = "oracle" /\ current'.tick = price_to_tick(p)
      /\ current'.last_updated = clock /\ current' # NONE
      /\ UNCHANGED <<clock, observations, price_account>>
  <2>1. CASE CreateCurrentTickAccount(p)
    <3>1. current' \in CurrentTickAccount
      BY <2>1, TickAssumption
         DEF CreateCurrentTickAccount, CurrentTickAccount, Owner, HistoryInv, HistoryTyped, TypeOK
    <3> QED BY <2>1, <3>1, NoneAssumption DEF CreateCurrentTickAccount
  <2>2. CASE UpdateCurrentTick(p)
    <3>1. current \in CurrentTickAccount /\ clock \in Nat /\ price_to_tick(p) \in Tick
      BY <2>2, TickAssumption DEF UpdateCurrentTick, HistoryInv, HistoryTyped, TypeOK
    <3>2. current' \in CurrentTickAccount
      BY <2>2, <3>1 DEF UpdateCurrentTick, CurrentTickAccount
    <3> QED BY <2>2, <3>1, <3>2, NoneAssumption DEF UpdateCurrentTick, CurrentTickAccount
  <2> QED BY <2>1, <2>2
<1>2. live' = [tick |-> price_to_tick(p), since |-> clock] /\ price_to_tick(p) \in Tick
  BY <1>1, TickAssumption DEF live
<1>3. UNCHANGED <<clock, log, price_account>>
  BY <1>1 DEF Logged
<1> QED BY <1>2, <1>3 DEF Feed!Report, live

LEMMA StartIsOpen ==
  ASSUME HistoryInv, Logged, NEW tick \in Tick, CreatePriceObservations(tick)
  PROVE  Feed!Open
<1>1. log = <<>> /\ log' = <<[at |-> clock, tick |-> tick]>>
  BY StartKeepsInv
<1>2. UNCHANGED <<clock, current, price_account>>
  BY DEF CreatePriceObservations
<1> QED BY <1>1, <1>2 DEF Feed!Open

LEMMA RecordIsSample ==
  ASSUME HistoryInv, Logged, RecordTick
  PROVE  Feed!Sample
<1> DEFINE o == observations
           tick == clamped_tick(o.last_recorded_tick, current.tick)
           last == log[Len(log)]
<1>1. /\ o \in PriceObservations /\ IsEndOf(o, log) /\ log \in Seq(Sampled)
      /\ log' = Append(log, [at |-> clock, tick |-> tick])
      /\ last.at + min_interval <= clock
  BY RecordTickSamples DEF HistoryInv, HistoryTyped
<1>2. /\ current \in CurrentTickAccount /\ current.owner = "oracle" /\ current # NONE
      /\ clock \in Nat /\ UNCHANGED <<clock, current, price_account>>
  BY DEF RecordTick, CanRecordTick, HistoryInv, HistoryTyped, TypeOK
<1>3. Len(log) \in 1..Len(log) /\ o.last_recorded_tick = last.tick
  BY <1>1 DEF IsEndOf
<1>4. last.at \in Nat /\ last.tick \in Int /\ log # <<>>
  BY <1>1, <1>3, SamplesAreTyped
<1>5. /\ current.tick \in Tick /\ current.tick \in Int /\ current.last_updated \in Nat
  BY <1>2, TickAssumption DEF CurrentTickAccount
<1>6. live = [tick |-> current.tick, since |-> current.last_updated] /\ live # NONE
  BY <1>2, <1>5, LiveAssumption DEF live
<1>7. Feed!Follow(last.tick, current.tick) = tick
  BY <1>3, <1>4, <1>5, FollowIsClamp
<1>8. clock - last.at >= min_interval
  BY <1>1, <1>2, <1>4, Numbers
<1> HIDE DEF tick, o
<1> QED BY <1>1, <1>2, <1>4, <1>6, <1>7, <1>8 DEF Feed!Sample, Feed!Last, live

LEMMA PublishIsPublish ==
  ASSUME HistoryInv, Logged, PublishPrice
  PROVE  Feed!Publish
<1> DEFINE o == observations
<1>1. /\ Recording /\ o \in PriceObservations /\ IsEndOf(o, log) /\ log \in Seq(Sampled)
      /\ current # NONE /\ current.owner = "oracle" /\ current \in CurrentTickAccount
      /\ UNCHANGED <<clock, current, observations>>
  BY DEF PublishPrice, Recording, HistoryInv, HistoryTyped, TypeOK, RingIsTheLog
<1>2. /\ Len(log) >= 2 /\ newest(o).timestamp = log[Len(log)].at
      /\ clock - log[Len(log)].at <= max_tail
  BY <1>1, RingIsRead DEF PublishPrice, IsEndOf, tail_bounded
<1>3. Feed!Mean = twap_tick(o, current, clock)
  BY <1>1, MeanIsTwap
<1>4. live # NONE
  <2>1. current.tick \in Tick /\ current.last_updated \in Nat
    BY <1>1 DEF CurrentTickAccount
  <2> QED BY <1>1, <2>1, LiveAssumption DEF live
<1>5. UNCHANGED <<clock, live, log>>
  BY <1>1 DEF live, Logged
<1> QED BY <1>2, <1>3, <1>4, <1>5 DEF PublishPrice, Feed!Publish, Feed!Last, live

LEMMA OtherStepsOfTheFeed ==
  ASSUME HistoryInv, Logged
  PROVE  /\ \A p \in InitialPrice : CreateOraclePriceAccount(p) => Feed!Seed
         /\ AdvanceClock => Feed!Advance
         /\ \A t \in Tick : ClaimCurrentTick(t) => UNCHANGED feedVars
         /\ \A x \in ForeignObservations : ClaimObservations(x) => UNCHANGED feedVars
<1>1. ASSUME UNCHANGED observations PROVE log' = log
  BY <1>1 DEF Logged
<1>2. ASSUME NEW p \in InitialPrice, CreateOraclePriceAccount(p) PROVE Feed!Seed
  BY <1>1, <1>2 DEF CreateOraclePriceAccount, Feed!Seed
<1>3. ASSUME AdvanceClock PROVE Feed!Advance
  BY <1>1, <1>3 DEF AdvanceClock, Feed!Advance
<1>4. ASSUME NEW t \in Tick, ClaimCurrentTick(t) PROVE UNCHANGED feedVars
  <2>1. /\ current # NONE => current.owner = "other"
        /\ current'.owner = "other" /\ UNCHANGED <<clock, observations, price_account>>
    BY <1>4 DEF ClaimCurrentTick
  <2>2. live = NONE /\ live' = NONE
    BY <2>1 DEF live
  <2> QED BY <1>1, <2>1, <2>2 DEF feedVars
<1>5. ASSUME NEW x \in ForeignObservations, ClaimObservations(x) PROVE UNCHANGED feedVars
  <2>1. UNCHANGED <<clock, current, price_account, log>>
    BY <1>5, ForeignKeepsInv
  <2> QED BY <2>1 DEF feedVars, live
<1> QED BY <1>2, <1>3, <1>4, <1>5

\* Every step of the oracle is a step of the feed, or none.
LEMMA FeedSteps == HistoryInv /\ [HistoryNext]_<<vars, log>> => [Feed!Next]_(Feed!vars)
<1> SUFFICES ASSUME HistoryInv, [HistoryNext]_<<vars, log>>
             PROVE  [Feed!Next]_(Feed!vars)
  OBVIOUS
<1>1. CASE UNCHANGED <<vars, log>>
  BY <1>1, FeedStutters DEF vars, feedVars, live
<1>2. CASE HistoryNext
  <2>1. Logged /\ (SourceNext \/ KeeperNext \/ OutsideNext)
    BY <1>2 DEF HistoryNext, Next
  <2>2. CASE SourceNext
    BY <2>1, <2>2, ReportIsReport, StartIsOpen, OtherStepsOfTheFeed DEF SourceNext, Feed!Next
  <2>3. CASE KeeperNext
    BY <2>1, <2>3, RecordIsSample, PublishIsPublish DEF KeeperNext, Feed!Next
  <2>4. CASE OutsideNext
    BY <2>1, <2>4, OtherStepsOfTheFeed, FeedStutters DEF OutsideNext, Feed!Next
  <2> QED BY <2>1, <2>2, <2>3, <2>4
<1> QED BY <1>1, <1>2

\* The oracle of a pool implements the price feed: whatever the capacity of the ring, the
\* price published is the mean of the last samples, carried on to the present (record_tick,
\* publish_price), through wrap-around, late samples and accounts claimed first.
THEOREM OracleIsAPriceFeed == PoolSpec => ImplementsPriceFeed
<1>1. HistoryInit => Feed!Init
  BY DEF HistoryInit, Init, Feed!Init
<1> QED BY <1>1, FeedSteps, HistoryIsSound, PoolIsAPriceSource, PTL
        DEF HistorySpec, ImplementsPriceFeed, Feed!Spec
=============================================================================
