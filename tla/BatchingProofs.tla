---------------------------- MODULE BatchingProofs ----------------------------
(***************************************************************************)
(* Proofs about what a batch holds, in two parts that cut samples into     *)
(* batches for every rank.                                                 *)
(*                                                                         *)
(* ReplaySchedule, for every number of ranks, group size and set of        *)
(* signatures.  The inductive invariant ScheduleInv follows the code's     *)
(* loops: the grouping loop partitions the rollouts (Grouping), the cursor *)
(* variables delimit what has been placed (Control, Placement), waves stay *)
(* aligned (Alignment) and the ranks' shares stay level (Balance).         *)
(*                                                                         *)
(* PackedStream: PacksExact holds of every stream, any datasets, shards,   *)
(* estimates, budgets, number of buffers, staleness, interval and epochs.  *)
(***************************************************************************)
EXTENDS ReplaySchedule, PackedStream, FiniteSetTheorems, WellFoundedInduction, TLAPS

\* The buckets partition the rollouts collected so far, each rollout filed once
\* under its own signature; bucketOrder lists the non-empty buckets once each.
Grouping ==
  /\ \A s \in Signatures : \A p \in 1 .. Len(bucket[s]) :
        bucket[s][p] < collected /\ signature[bucket[s][p]] = s
  /\ \A s \in Signatures : \A p, q \in 1 .. Len(bucket[s]) :
        bucket[s][p] = bucket[s][q] => p = q
  /\ \A i \in Rollouts : i < collected =>
        \E p \in 1 .. Len(bucket[signature[i]]) : bucket[signature[i]][p] = i
  /\ \A s \in Signatures :
        bucket[s] # <<>> => \E k \in 1 .. Len(bucketOrder) : bucketOrder[k] = s
  /\ \A k \in 1 .. Len(bucketOrder) : bucket[bucketOrder[k]] # <<>>
  /\ \A k, l \in 1 .. Len(bucketOrder) : bucketOrder[k] = bucketOrder[l] => k = l

\* The position a rank takes in a wave of n is one of the bucket's.
LEMMA InReach ==
  ASSUME NEW first \in Nat, NEW n \in Nat, NEW size \in Nat, first + n =< size, NEW a \in 0 .. n - 1
  PROVE  first + a + 1 \in 1 .. size
OBVIOUS

\* Where each phase leaves the loop variables.
Control ==
  /\ phase = "group" => /\ collected < W * G
                        /\ current = 1
                        /\ offset = 0
                        /\ rankCursor = 0
                        /\ schedule = <<>>
  /\ phase # "group" => collected = W * G
  /\ phase = "place" => current <= Len(bucketOrder) /\ offset <= Len(Current)
  /\ phase \in {"check", "done", "raised"} => current = Len(bucketOrder) + 1

\* Rollout i lies before the cursor <<current, offset>>.
PastCursor(i) ==
  \E k \in 1 .. Len(bucketOrder) : \E p \in 1 .. Len(bucket[bucketOrder[k]]) :
     /\ i = bucket[bucketOrder[k]][p]
     /\ k < current \/ (k = current /\ p <= offset)

\* The real slots hold the rollouts before the cursor, each exactly once.
Placement ==
  /\ \A s \in RealSlots : PastCursor(RolloutAt(s))
  /\ \A i \in Rollouts : PastCursor(i) => \E s \in RealSlots : RolloutAt(s) = i
  /\ NoDoubleReplay

Alignment ==
  \A w \in 1 .. Len(schedule) : \A r \in Ranks :
     signature[schedule[w][r].rollout] = signature[schedule[w][0].rollout]

\* The real slots fill `base` full rounds of the ranks and rankCursor more.
Balanced(base) ==
  /\ IsFiniteSet(RealSlots)
  /\ Cardinality(RealSlots) = W * base + rankCursor
  /\ \A r \in Ranks :
       /\ IsFiniteSet(RealWaves(r))
       /\ Cardinality(RealWaves(r)) = base + (IF r < rankCursor THEN 1 ELSE 0)

Balance == \E base \in Nat : Balanced(base)

ScheduleInv ==
  /\ TypeOK
  /\ Grouping
  /\ Control
  /\ Placement
  /\ Alignment
  /\ Balance
  /\ NeverRaises

-----------------------------------------------------------------------------
\* Arithmetic of the cursor

\* A modulo by n of a value less than n outside 0 .. n - 1.
LEMMA ModuloBelow ==
  ASSUME NEW n \in Nat, n >= 2, NEW a \in 0 .. n - 1, NEW b \in 0 .. n - 1
  PROVE  (a - b) % n = IF a >= b THEN a - b ELSE a - b + n
OBVIOUS

\* A modulo by n of a value less than n above 0 .. n - 1.
LEMMA ModuloAbove ==
  ASSUME NEW n \in Nat, n >= 2, NEW a \in 0 .. n - 1, NEW b \in 0 .. n
  PROVE  (a + b) % n = IF a + b < n THEN a + b ELSE a + b - n
OBVIOUS

\* Counting round the ranks from c, no two ranks are equally far.
LEMMA SamePosition ==
  ASSUME NEW a \in 0 .. W - 1, NEW b \in 0 .. W - 1, NEW c \in 0 .. W - 1,
         (IF a >= c THEN a - c ELSE a - c + W) = (IF b >= c THEN b - c ELSE b - c + W)
  PROVE  a = b
BY SizesAssumption

\* The slot position that falls on a rank, without the modulo.
LEMMA PositionValue ==
  ASSUME TypeOK
  PROVE  \A r \in Ranks :
           /\ PositionOn(r) = IF r >= rankCursor THEN r - rankCursor ELSE r - rankCursor + W
           /\ PositionOn(r) \in 0 .. W - 1
<1> TAKE r \in Ranks
<1>1. r \in 0 .. W - 1 /\ rankCursor \in 0 .. W - 1
  BY DEF TypeOK, Ranks
<1>2. PositionOn(r) = IF r >= rankCursor THEN r - rankCursor ELSE r - rankCursor + W
  BY <1>1, ModuloBelow, SizesAssumption DEF PositionOn
<1> QED
  BY <1>1, <1>2, SizesAssumption

\* Advancing the cursor past m <= W slots wraps at most once.
LEMMA CursorValue ==
  ASSUME TypeOK, NEW m \in 0 .. W
  PROVE  (rankCursor + m) % W = IF rankCursor + m < W THEN rankCursor + m
                                                      ELSE rankCursor + m - W
<1>1. rankCursor \in 0 .. W - 1
  BY DEF TypeOK, Ranks
<1> QED
  BY <1>1, ModuloAbove, SizesAssumption

\* Only a whole number of rounds leaves the cursor where it started.
LEMMA WholeRounds ==
  ASSUME NEW base \in Nat, NEW c \in Ranks, W * G = W * base + c
  PROVE  base = G /\ c = 0
BY SizesAssumption DEF Ranks

\* The size of a disjoint union.
LEMMA DisjointUnion ==
  ASSUME NEW S, IsFiniteSet(S), NEW T, IsFiniteSet(T), S \cap T = {}
  PROVE  /\ IsFiniteSet(S \cup T)
         /\ Cardinality(S \cup T) = Cardinality(S) + Cardinality(T)
<1>1. Cardinality({}) = 0
  BY FS_EmptySet
<1>2. Cardinality(S) \in Nat /\ Cardinality(T) \in Nat
  BY FS_CardinalityType
<1>3. /\ IsFiniteSet(S \cup T)
      /\ Cardinality(S \cup T) = Cardinality(S) + Cardinality(T) - Cardinality(S \cap T)
  BY FS_Union
<1>4. Cardinality(S \cap T) = 0
  BY <1>1, Zenon
<1>5. QED
  BY <1>2, <1>3, <1>4

\* Exactly m ranks receive one of m consecutive slots.
LEMMA FilledRanks ==
  ASSUME TypeOK, NEW m \in 1 .. W
  PROVE  LET S == {r \in Ranks : PositionOn(r) < m}
         IN  IsFiniteSet(S) /\ Cardinality(S) = m
<1> DEFINE S == {r \in Ranks : PositionOn(r) < m}
<1> USE SizesAssumption
<1>1. rankCursor \in 0 .. W - 1
  BY DEF TypeOK, Ranks
<1>2. CASE rankCursor + m <= W
  <2>1. S = rankCursor .. rankCursor + m - 1
    BY <1>1, <1>2, PositionValue DEF Ranks
  <2>2. rankCursor \in Int /\ rankCursor + m - 1 \in Int
    BY <1>1
  <2>3. /\ IsFiniteSet(rankCursor .. rankCursor + m - 1)
        /\ Cardinality(rankCursor .. rankCursor + m - 1) = m
    BY <1>1, <2>2, FS_Interval
  <2>4. QED
    BY <2>1, <2>3
<1>3. CASE rankCursor + m > W
  <2> DEFINE High == rankCursor .. W - 1
             Low == 0 .. rankCursor + m - W - 1
  <2>1. S = High \cup Low
    BY <1>1, <1>3, PositionValue DEF Ranks
  <2>2. High \cap Low = {}
    BY <1>1, <1>3
  <2>3. /\ IsFiniteSet(High)
        /\ Cardinality(High) = W - rankCursor
    BY <1>1, FS_Interval
  <2>4. /\ IsFiniteSet(Low)
        /\ Cardinality(Low) = rankCursor + m - W
    BY <1>1, <1>3, FS_Interval
  <2> HIDE DEF High, Low, S
  <2>5. /\ IsFiniteSet(High \cup Low)
        /\ Cardinality(High \cup Low) = Cardinality(High) + Cardinality(Low)
    BY <2>2, <2>3, <2>4, DisjointUnion
  <2>6. IsFiniteSet(S) /\ Cardinality(S) = m
    BY <1>1, <2>1, <2>3, <2>4, <2>5
  <2>7. QED
    BY <2>6 DEF S
<1>4. QED
  BY <1>1, <1>2, <1>3

-----------------------------------------------------------------------------
\* What one more wave does to the real slots

\* A filled wave is a wave of slots of the current bucket.
LEMMA FilledWaveShape ==
  ASSUME TypeOK, current <= Len(bucketOrder), NEW m \in 1 .. W, offset + m <= Len(Current)
  PROVE  /\ FilledWave(m) \in Wave
         /\ Current \in Seq(Rollouts)
         /\ bucketOrder[current] \in Signatures
         /\ \A r \in Ranks : /\ FilledWave(m)[r].real <=> PositionOn(r) < m
                             /\ \E p \in 1 .. Len(Current) : FilledWave(m)[r].rollout = Current[p]
                             /\ FilledWave(m)[r].real =>
                                  FilledWave(m)[r].rollout = Current[offset + PositionOn(r) + 1]
<1>1. bucketOrder[current] \in Signatures
  BY DEF TypeOK
<1>2. Current \in Seq(Rollouts)
  BY <1>1 DEF TypeOK, Current
<1>3. offset \in Nat /\ Len(Current) \in Nat
  BY <1>2 DEF TypeOK
<1>4. ASSUME NEW r \in Ranks, PositionOn(r) < m
      PROVE  offset + PositionOn(r) + 1 \in 1 .. Len(Current)
  BY <1>3, <1>4, PositionValue, SizesAssumption
<1>5. 1 \in 1 .. Len(Current)
  BY <1>3
<1>6. ASSUME NEW r \in Ranks
      PROVE  /\ FilledWave(m)[r] \in Slot
             /\ FilledWave(m)[r].real <=> PositionOn(r) < m
             /\ \E p \in 1 .. Len(Current) : FilledWave(m)[r].rollout = Current[p]
             /\ FilledWave(m)[r].real =>
                  FilledWave(m)[r].rollout = Current[offset + PositionOn(r) + 1]
  <2>1. CASE PositionOn(r) < m
    BY <1>2, <1>4, <1>6, <2>1 DEF FilledWave, Slot
  <2>2. CASE ~(PositionOn(r) < m)
    BY <1>2, <1>5, <1>6, <2>2 DEF FilledWave, Slot
  <2>3. QED
    BY <2>1, <2>2
<1>7. FilledWave(m) \in Wave
  BY <1>6 DEF FilledWave, Wave
<1>8. QED
  BY <1>1, <1>2, <1>6, <1>7

\* Appending a wave adds exactly its real slots.
LEMMA AppendWave ==
  ASSUME TypeOK, current <= Len(bucketOrder), NEW m \in 1 .. W, offset + m <= Len(Current),
         schedule' = Append(schedule, FilledWave(m))
  PROVE  LET n == Len(schedule) + 1
             S == {r \in Ranks : PositionOn(r) < m}
         IN  /\ Len(schedule') = n
             /\ n \in Nat
             /\ schedule' \in Seq(Wave)
             /\ schedule'[n] = FilledWave(m)
             /\ \A w \in 1 .. Len(schedule) : schedule'[w] = schedule[w]
             /\ RealSlots' = RealSlots \cup ({n} \X S)
             /\ \A r \in Ranks :
                  RealWaves(r)' = IF r \in S THEN RealWaves(r) \cup {n} ELSE RealWaves(r)
<1> DEFINE n == Len(schedule) + 1
           S == {r \in Ranks : PositionOn(r) < m}
<1>1. schedule \in Seq(Wave) /\ FilledWave(m) \in Wave
  BY FilledWaveShape DEF TypeOK
<1>2. /\ Len(schedule') = n
      /\ n \in Nat
      /\ schedule' \in Seq(Wave)
      /\ schedule'[n] = FilledWave(m)
      /\ \A w \in 1 .. Len(schedule) : schedule'[w] = schedule[w]
  BY <1>1
<1>3. \A r \in Ranks : FilledWave(m)[r].real <=> r \in S
  BY FilledWaveShape
<1>4. 1 .. n = (1 .. Len(schedule)) \cup {n}
  BY <1>1
<1> HIDE DEF n, S
<1>5. RealSlots' = RealSlots \cup ({n} \X S)
  <2>1. RealSlots' = {s \in (1 .. n) \X Ranks : schedule'[s[1]][s[2]].real}
    BY <1>2 DEF RealSlots, Ranks
  <2>2. S \subseteq Ranks
    BY DEF S
  <2>3. ASSUME NEW w \in 1 .. n, NEW r \in Ranks
        PROVE  schedule'[w][r].real <=> \/ (w \in 1 .. Len(schedule) /\ schedule[w][r].real)
                                       \/ (w = n /\ r \in S)
    <3>1. CASE w \in 1 .. Len(schedule)
      <4>1. w # n
        BY <1>1, <3>1 DEF n
      <4>2. QED
        BY <1>2, <3>1, <4>1
    <3>2. CASE w = n
      <4>1. w \notin 1 .. Len(schedule)
        BY <1>1, <3>2 DEF n
      <4>2. QED
        BY <1>2, <1>3, <3>2, <4>1
    <3>3. QED
      BY <1>4, <2>3, <3>1, <3>2
  <2>4. \A s : s \in RealSlots' <=> s \in RealSlots \cup ({n} \X S)
    BY <1>4, <2>1, <2>2, <2>3 DEF RealSlots
  <2>5. QED
    BY <2>4
<1>6. ASSUME NEW r \in Ranks
      PROVE  RealWaves(r)' = IF r \in S THEN RealWaves(r) \cup {n} ELSE RealWaves(r)
  <2>1. RealWaves(r)' = {w \in 1 .. n : schedule'[w][r].real}
    BY <1>2 DEF RealWaves
  <2>2. schedule'[n][r].real <=> r \in S
    BY <1>2, <1>3
  <2>3. QED
    BY <1>2, <1>4, <2>1, <2>2 DEF RealWaves
<1>7. QED
  BY <1>2, <1>5, <1>6 DEF n, S

\* A wave of m real slots keeps the ranks' shares level when the cursor moves
\* past them; a full wave (m = W) leaves the cursor where it is.
LEMMA AppendKeepsBalance ==
  ASSUME TypeOK, Balance, current <= Len(bucketOrder), NEW m \in 1 .. W,
         offset + m <= Len(Current),
         schedule' = Append(schedule, FilledWave(m)),
         rankCursor' = (rankCursor + m) % W
  PROVE  Balance'
<1> DEFINE n == Len(schedule) + 1
           S == {r \in Ranks : PositionOn(r) < m}
           wraps == rankCursor + m >= W
<1>1. PICK base \in Nat : Balanced(base)
  BY DEF Balance
<1>2. /\ n \in Nat
      /\ RealSlots' = RealSlots \cup ({n} \X S)
      /\ \A r \in Ranks : RealWaves(r)' = IF r \in S THEN RealWaves(r) \cup {n} ELSE RealWaves(r)
  BY AppendWave
<1>3. IsFiniteSet(S) /\ Cardinality(S) = m
  BY FilledRanks
<1>4. rankCursor \in 0 .. W - 1 /\ W \in Nat /\ W * base \in Nat
  BY SizesAssumption DEF TypeOK, Ranks
<1>5. rankCursor' = IF wraps THEN rankCursor + m - W ELSE rankCursor + m
  BY <1>4, CursorValue
<1>6. \A r \in Ranks : r \in S <=> PositionOn(r) < m
  OBVIOUS
<1>7. n \notin 1 .. Len(schedule)
  BY DEF TypeOK
<1> HIDE DEF n, S
<1>8. IsFiniteSet(RealSlots') /\ Cardinality(RealSlots') = W * base + rankCursor + m
  <2>1. IsFiniteSet({n}) /\ Cardinality({n}) = 1
    BY FS_Singleton
  <2>2. IsFiniteSet({n} \X S) /\ Cardinality({n} \X S) = m
    BY <1>3, <2>1, FS_Product
  <2>3. RealSlots \cap ({n} \X S) = {}
    BY <1>7 DEF RealSlots
  <2>4. IsFiniteSet(RealSlots) /\ Cardinality(RealSlots) = W * base + rankCursor
    BY <1>1 DEF Balanced
  <2>5. /\ IsFiniteSet(RealSlots \cup ({n} \X S))
        /\ Cardinality(RealSlots \cup ({n} \X S)) = Cardinality(RealSlots) + Cardinality({n} \X S)
    BY <2>2, <2>3, <2>4, DisjointUnion
  <2>6. QED
    BY <1>2, <1>4, <2>2, <2>4, <2>5
<1>9. ASSUME NEW r \in Ranks
      PROVE  /\ IsFiniteSet(RealWaves(r)')
             /\ Cardinality(RealWaves(r)') = base + (IF r < rankCursor THEN 1 ELSE 0)
                                                 + (IF r \in S THEN 1 ELSE 0)
  <2>1. /\ IsFiniteSet(RealWaves(r))
        /\ Cardinality(RealWaves(r)) = base + (IF r < rankCursor THEN 1 ELSE 0)
    BY <1>1, <1>9 DEF Balanced
  <2>2. n \notin RealWaves(r)
    BY <1>7 DEF RealWaves
  <2>3. CASE r \in S
    <3>1. RealWaves(r)' = RealWaves(r) \cup {n}
      BY <1>2, <1>9, <2>3
    <3>2. /\ IsFiniteSet(RealWaves(r) \cup {n})
          /\ Cardinality(RealWaves(r) \cup {n}) = Cardinality(RealWaves(r)) + 1
      BY <2>1, <2>2, FS_AddElement
    <3>3. QED
      BY <2>1, <2>3, <3>1, <3>2
  <2>4. CASE r \notin S
    BY <1>2, <1>9, <2>1, <2>4
  <2>5. QED
    BY <2>3, <2>4
<1>10. PICK base1 \in Nat : base1 = IF wraps THEN base + 1 ELSE base
  OBVIOUS
<1>11. W * base + rankCursor + m = W * base1 + rankCursor'
  <2>1. W * (base + 1) = W * base + W
    BY <1>4
  <2>2. QED
    BY <1>4, <1>5, <1>10, <2>1
<1>12. ASSUME NEW r \in Ranks
       PROVE  base + (IF r < rankCursor THEN 1 ELSE 0) + (IF r \in S THEN 1 ELSE 0)
                = base1 + (IF r < rankCursor' THEN 1 ELSE 0)
  <2>1. r \in 0 .. W - 1
    BY DEF Ranks
  <2>2. PositionOn(r) = IF r >= rankCursor THEN r - rankCursor ELSE r - rankCursor + W
    BY PositionValue
  <2>3. r \in S <=> PositionOn(r) < m
    BY <1>6
  <2>4. QED
    BY <1>4, <1>5, <1>10, <2>1, <2>2, <2>3
<1>13. Balanced(base1)'
  <2>1. \A r \in Ranks :
          /\ IsFiniteSet(RealWaves(r)')
          /\ Cardinality(RealWaves(r)') = base1 + (IF r < rankCursor' THEN 1 ELSE 0)
    BY <1>9, <1>12
  <2>2. Cardinality(RealSlots') = W * base1 + rankCursor'
    BY <1>8, <1>11
  <2>3. QED
    BY <1>8, <2>1, <2>2 DEF Balanced, Ranks
<1>14. QED
  BY <1>10, <1>13 DEF Balance

\* A wave of the next m rollouts of the current bucket moves the cursor past
\* exactly the rollouts it places; the invariant's other parts say those were
\* not placed before.
LEMMA AppendKeepsPlacement ==
  ASSUME TypeOK, Grouping, Placement, current <= Len(bucketOrder), NEW m \in 1 .. W,
         offset + m <= Len(Current),
         schedule' = Append(schedule, FilledWave(m)),
         UNCHANGED <<signature, bucket, bucketOrder>>,
         \/ current' = current /\ offset' = offset + m
         \/ current' = current + 1 /\ offset' = 0 /\ offset + m = Len(Current)
  PROVE  Placement'
<1> DEFINE n == Len(schedule) + 1
           S == {r \in Ranks : PositionOn(r) < m}
           New(i) == \E p \in 1 .. Len(Current) :
                        i = Current[p] /\ offset < p /\ p <= offset + m
<1>1. /\ n \in Nat
      /\ schedule'[n] = FilledWave(m)
      /\ \A w \in 1 .. Len(schedule) : schedule'[w] = schedule[w]
      /\ RealSlots' = RealSlots \cup ({n} \X S)
  BY AppendWave
<1>2. /\ Current \in Seq(Rollouts)
      /\ bucketOrder[current] \in Signatures
      /\ \A r \in S : FilledWave(m)[r].rollout = Current[offset + PositionOn(r) + 1]
  <2>1. /\ Current \in Seq(Rollouts)
        /\ bucketOrder[current] \in Signatures
        /\ \A r \in Ranks : /\ FilledWave(m)[r].real <=> PositionOn(r) < m
                            /\ FilledWave(m)[r].real =>
                                 FilledWave(m)[r].rollout = Current[offset + PositionOn(r) + 1]
    BY FilledWaveShape
  <2>2. QED
    BY <2>1
<1>3. /\ offset \in Nat /\ current \in 1 .. Len(bucketOrder)
      /\ Len(Current) \in Nat /\ rankCursor \in 0 .. W - 1
  BY <1>2 DEF TypeOK, Ranks
<1>4. \A r \in Ranks :
        /\ PositionOn(r) = IF r >= rankCursor THEN r - rankCursor ELSE r - rankCursor + W
        /\ PositionOn(r) \in 0 .. W - 1
  BY PositionValue
<1>5. \A s \in RealSlots' : \/ s \in RealSlots /\ RolloutAt(s)' = RolloutAt(s)
                            \/ /\ s \notin RealSlots /\ s[1] = n /\ s[2] \in S
                               /\ RolloutAt(s)' = Current[offset + PositionOn(s[2]) + 1]
  <2>1. \A s \in RealSlots : s[1] \in 1 .. Len(schedule) /\ s[1] # n
    BY <1>1 DEF RealSlots, TypeOK
  <2>2. \A s \in {n} \X S : s[1] = n /\ s[2] \in S
    OBVIOUS
  <2>3. QED
    BY <1>1, <1>2, <2>1, <2>2 DEF RolloutAt
<1>6. \A i : PastCursor(i)' <=> PastCursor(i) \/ New(i)
  <2>1. Len(bucket[bucketOrder[current]]) = Len(Current)
    BY DEF Current
  <2>2. \A k \in 1 .. Len(bucketOrder) : bucketOrder[k] \in Signatures
    BY DEF TypeOK
  <2>3. \A k \in 1 .. Len(bucketOrder) : Len(bucket[bucketOrder[k]]) \in Nat
    BY <2>2 DEF TypeOK
  <2>4. CASE current' = current /\ offset' = offset + m
    BY <1>3, <2>1, <2>3, <2>4 DEF PastCursor, Current
  <2>5. CASE current' = current + 1 /\ offset' = 0 /\ offset + m = Len(Current)
    BY <1>3, <2>1, <2>3, <2>5 DEF PastCursor, Current
  <2>6. QED
    BY <2>4, <2>5
<1>7. \A i : New(i) => ~PastCursor(i)
  <2>1. SUFFICES ASSUME NEW p \in 1 .. Len(Current), offset < p,
                        NEW k \in 1 .. Len(bucketOrder),
                        NEW q \in 1 .. Len(bucket[bucketOrder[k]]),
                        Current[p] = bucket[bucketOrder[k]][q],
                        k < current \/ (k = current /\ q <= offset)
                 PROVE  FALSE
    BY DEF PastCursor
  <2>2. bucketOrder[k] \in Signatures
    BY DEF TypeOK
  <2>3. bucketOrder[k] = bucketOrder[current]
    <3>1. signature[bucket[bucketOrder[k]][q]] = bucketOrder[k]
      BY <2>1, <2>2 DEF Grouping
    <3>2. signature[bucket[bucketOrder[current]][p]] = bucketOrder[current]
      BY <1>2, <2>1 DEF Grouping, Current
    <3>3. QED
      BY <2>1, <3>1, <3>2 DEF Current
  <2>4. k = current
    BY <1>3, <2>3 DEF Grouping
  <2>5. p = q
    BY <1>2, <2>1, <2>4 DEF Grouping, Current
  <2>6. QED
    BY <1>3, <2>1, <2>4, <2>5
<1> HIDE DEF n, S
<1>8. \A s \in RealSlots' : PastCursor(RolloutAt(s))'
  <2>1. SUFFICES ASSUME NEW s \in RealSlots', NEW i, i = RolloutAt(s)' PROVE PastCursor(i)'
    BY DEF PastCursor
  <2>2. CASE s \in RealSlots /\ RolloutAt(s)' = RolloutAt(s)
    <3>1. PastCursor(RolloutAt(s))
      BY <2>2 DEF Placement
    <3>2. PastCursor(i)
      BY <2>1, <2>2, <3>1
    <3>3. QED
      BY <1>6, <3>2
  <2>3. CASE s[2] \in S /\ RolloutAt(s)' = Current[offset + PositionOn(s[2]) + 1]
    <3>1. PositionOn(s[2]) \in 0 .. m - 1
      BY <1>4, <2>3, SizesAssumption DEF S
    <3>2. offset + PositionOn(s[2]) + 1 \in 1 .. Len(Current)
      <4>1. offset \in Nat /\ m \in Nat /\ Len(Current) \in Nat
        BY <1>3, SizesAssumption
      <4> QED  BY <3>1, <4>1, InReach
    <3>3. New(i)
      BY <1>3, <2>1, <2>3, <3>1, <3>2
    <3>4. QED
      BY <1>6, <3>3
  <2>4. QED
    BY <1>5, <2>2, <2>3
<1>9. \A i \in Rollouts : PastCursor(i)' => \E s \in RealSlots' : RolloutAt(s)' = i
  <2>1. SUFFICES ASSUME NEW i \in Rollouts, PastCursor(i) \/ New(i)
                 PROVE  \E s \in RealSlots' : RolloutAt(s)' = i
    BY <1>6
  <2>2. CASE PastCursor(i)
    <3>1. PICK s \in RealSlots : RolloutAt(s) = i
      BY <2>2 DEF Placement
    <3>2. s \in RealSlots' /\ RolloutAt(s)' = i
      BY <1>1, <1>5, <3>1
    <3>3. QED
      BY <3>2
  <2>3. CASE New(i)
    <3>1. PICK p \in 1 .. Len(Current) : i = Current[p] /\ offset < p /\ p <= offset + m
      BY <2>3
    <3>2. PICK r \in Ranks : PositionOn(r) = p - offset - 1
      <4> DEFINE c == rankCursor + (p - offset - 1)
                 r == IF c < W THEN c ELSE c - W
      <4>1. /\ W \in Nat /\ m \in 1 .. W /\ offset \in Nat /\ p \in Int
            /\ offset < p /\ p <= offset + m /\ rankCursor \in 0 .. W - 1
        BY <1>3, <3>1, SizesAssumption
      <4>2. r \in 0 .. W - 1
        BY <4>1, SMTT(30)
      <4>3. (IF r >= rankCursor THEN r - rankCursor ELSE r - rankCursor + W) = p - offset - 1
        BY <4>1, SMTT(30)
      <4> HIDE DEF r
      <4>4. r \in Ranks /\ PositionOn(r) = p - offset - 1
        BY <1>4, <4>2, <4>3 DEF Ranks
      <4>5. QED
        BY <4>4
    <3>3. r \in S /\ offset + PositionOn(r) + 1 = p
      BY <1>3, <3>1, <3>2 DEF S
    <3>4. PICK s \in RealSlots' : s[1] = n /\ s[2] = r
      <4>1. <<n, r>> \in {n} \X S
        BY <3>3
      <4>2. <<n, r>> \in RealSlots'
        BY <1>1, <4>1
      <4>3. <<n, r>>[1] = n /\ <<n, r>>[2] = r
        OBVIOUS
      <4>4. QED
        BY <4>2, <4>3
    <3>5. RolloutAt(s)' = Current[p]
      <4>1. RolloutAt(s)' = schedule'[n][r].rollout
        BY <3>4 DEF RolloutAt
      <4>2. QED
        BY <1>1, <1>2, <3>3, <4>1
    <3>6. QED
      BY <3>1, <3>4, <3>5
  <2>4. QED
    BY <2>1, <2>2, <2>3
<1>10. NoDoubleReplay'
  <2>1. SUFFICES ASSUME NEW s \in RealSlots', NEW t \in RealSlots', RolloutAt(s)' = RolloutAt(t)'
                 PROVE  s = t
    BY DEF NoDoubleReplay
  <2>2. \A u \in RealSlots' : u \notin RealSlots => New(RolloutAt(u)')
    <3>1. SUFFICES ASSUME NEW u \in RealSlots', u \notin RealSlots
                   PROVE  New(RolloutAt(u)')
      OBVIOUS
    <3>2. u[2] \in S /\ RolloutAt(u)' = Current[offset + PositionOn(u[2]) + 1]
      BY <1>5, <3>1
    <3>3. PositionOn(u[2]) \in 0 .. m - 1
      BY <1>4, <3>2, SizesAssumption DEF S
    <3>4. QED
      BY <1>3, <3>2, <3>3
  <2>3. \A u \in RealSlots : PastCursor(RolloutAt(u)')
    BY <1>1, <1>5 DEF Placement
  <2>4. s \in RealSlots <=> t \in RealSlots
    BY <1>7, <2>1, <2>2, <2>3
  <2>5. CASE s \in RealSlots
    BY <1>5, <2>1, <2>4, <2>5 DEF Placement, NoDoubleReplay
  <2>6. CASE s \notin RealSlots
    <3>1. /\ s[1] = n /\ s[2] \in S /\ t[1] = n /\ t[2] \in S
          /\ Current[offset + PositionOn(s[2]) + 1] = Current[offset + PositionOn(t[2]) + 1]
      BY <1>5, <2>1, <2>4, <2>6
    <3>2. PositionOn(s[2]) \in 0 .. m - 1 /\ PositionOn(t[2]) \in 0 .. m - 1
      BY <1>4, <3>1, SizesAssumption DEF S
    <3>3. PositionOn(s[2]) = PositionOn(t[2])
      <4>1. /\ offset + PositionOn(s[2]) + 1 \in 1 .. Len(Current)
            /\ offset + PositionOn(t[2]) + 1 \in 1 .. Len(Current)
        <5>1. offset \in Nat /\ m \in Nat /\ Len(Current) \in Nat
          BY <1>3, SizesAssumption
        <5> QED  BY <3>2, <5>1, InReach
      <4>2. offset + PositionOn(s[2]) + 1 = offset + PositionOn(t[2]) + 1
        BY <1>2, <3>1, <4>1 DEF Grouping, Current
      <4>3. QED
        BY <1>3, <3>2, <4>2
    <3>4. s[2] \in Ranks /\ t[2] \in Ranks
      BY <3>1 DEF S
    <3>5. s[2] = t[2]
      <4>1. /\ PositionOn(s[2]) = IF s[2] >= rankCursor THEN s[2] - rankCursor
                                                        ELSE s[2] - rankCursor + W
            /\ PositionOn(t[2]) = IF t[2] >= rankCursor THEN t[2] - rankCursor
                                                        ELSE t[2] - rankCursor + W
        BY <1>4, <3>4
      <4>2. s[2] \in 0 .. W - 1 /\ t[2] \in 0 .. W - 1
        BY <3>4 DEF Ranks
      <4>3. QED
        BY <1>3, <3>3, <4>1, <4>2, SamePosition
    <3>6. s = <<s[1], s[2]>> /\ t = <<t[1], t[2]>>
      BY <1>1 DEF RealSlots
    <3>7. QED
      BY <3>1, <3>5, <3>6
  <2>7. QED
    BY <2>5, <2>6
<1>11. QED
  BY <1>8, <1>9, <1>10 DEF Placement, Rollouts

\* A wave is cut from one bucket, so its slots share that bucket's signature.
LEMMA AppendKeepsAlignment ==
  ASSUME TypeOK, Grouping, Alignment, current <= Len(bucketOrder), NEW m \in 1 .. W,
         offset + m <= Len(Current),
         schedule' = Append(schedule, FilledWave(m)),
         signature' = signature
  PROVE  Alignment'
<1>1. /\ Len(schedule') = Len(schedule) + 1
      /\ schedule'[Len(schedule) + 1] = FilledWave(m)
      /\ \A w \in 1 .. Len(schedule) : schedule'[w] = schedule[w]
  BY AppendWave
<1>2. \A r \in Ranks : signature[FilledWave(m)[r].rollout] = bucketOrder[current]
  <2>1. SUFFICES ASSUME NEW r \in Ranks
                 PROVE  signature[FilledWave(m)[r].rollout] = bucketOrder[current]
    OBVIOUS
  <2>2. PICK p \in 1 .. Len(Current) : FilledWave(m)[r].rollout = Current[p]
    BY FilledWaveShape
  <2>3. bucketOrder[current] \in Signatures
    BY FilledWaveShape
  <2>4. signature[bucket[bucketOrder[current]][p]] = bucketOrder[current]
    BY <2>2, <2>3 DEF Grouping, Current
  <2>5. QED
    BY <2>2, <2>4 DEF Current
<1>3. 0 \in Ranks
  BY SizesAssumption DEF Ranks
<1>4. ASSUME NEW w \in 1 .. Len(schedule) + 1, NEW r \in Ranks
      PROVE  signature[schedule'[w][r].rollout] = signature[schedule'[w][0].rollout]
  <2>1. CASE w \in 1 .. Len(schedule)
    BY <1>1, <2>1 DEF Alignment
  <2>2. CASE w = Len(schedule) + 1
    BY <1>1, <1>2, <1>3, <2>2
  <2>3. Len(schedule) \in Nat
    BY DEF TypeOK
  <2>4. QED
    BY <2>1, <2>2, <2>3
<1>5. QED
  BY <1>1, <1>4 DEF Alignment, Ranks

-----------------------------------------------------------------------------
\* The invariant is inductive

\* The invariant holds before the first rollout is grouped.
LEMMA ScheduleStarts == ScheduleInit => ScheduleInv
<1> SUFFICES ASSUME ScheduleInit PROVE ScheduleInv
  OBVIOUS
<1> USE SizesAssumption
<1>1. W * G \in Nat /\ 0 < W * G
  OBVIOUS
<1>2. TypeOK
  BY <1>1 DEF ScheduleInit, TypeOK, Ranks
<1>3. Grouping
  BY DEF ScheduleInit, Grouping, Rollouts
<1>4. Control
  BY <1>1 DEF ScheduleInit, Control
<1>5. RealSlots = {}
  BY DEF ScheduleInit, RealSlots
<1>6. \A r \in Ranks : RealWaves(r) = {}
  BY DEF ScheduleInit, RealWaves
<1>7. Placement
  BY <1>5 DEF ScheduleInit, Placement, PastCursor, NoDoubleReplay
<1>8. Alignment
  BY DEF ScheduleInit, Alignment
<1>9. Balanced(0)
  <2>1. IsFiniteSet({}) /\ Cardinality({}) = 0
    BY FS_EmptySet
  <2>2. rankCursor = 0
    BY DEF ScheduleInit
  <2>3. IsFiniteSet(RealSlots) /\ Cardinality(RealSlots) = 0
    BY <1>5, <2>1, Zenon
  <2>4. \A r \in Ranks : IsFiniteSet(RealWaves(r)) /\ Cardinality(RealWaves(r)) = 0
    BY <1>6, <2>1, Zenon
  <2>5. QED
    BY <2>2, <2>3, <2>4 DEF Balanced, Ranks
<1>10. Balance
  BY <1>9 DEF Balance
<1>11. QED
  BY <1>2, <1>3, <1>4, <1>7, <1>8, <1>10 DEF ScheduleInv, NeverRaises, ScheduleInit

\* The grouping loop files one more rollout.
LEMMA CollectKeepsSchedule ==
  ASSUME ScheduleInv, Collect
  PROVE  ScheduleInv'
<1> USE SizesAssumption
<1> DEFINE s == signature[collected]
<1>1. /\ TypeOK /\ Grouping /\ Control
      /\ collected \in Nat /\ collected < W * G /\ W * G \in Nat
      /\ collected \in Rollouts /\ s \in Signatures /\ schedule = <<>>
      /\ current = 1 /\ offset = 0 /\ rankCursor = 0
  BY DEF ScheduleInv, TypeOK, Control, Collect, Rollouts
<1>2. /\ bucket' = [bucket EXCEPT ![s] = Append(@, collected)]
      /\ bucketOrder' = IF bucket[s] = <<>> THEN Append(bucketOrder, s) ELSE bucketOrder
      /\ collected' = collected + 1
      /\ phase' = IF collected + 1 = W * G THEN "place" ELSE "group"
      /\ UNCHANGED <<signature, current, offset, rankCursor, schedule>>
  BY DEF Collect
<1>3. /\ \A t \in Signatures : bucket[t] \in Seq(Rollouts) /\ Len(bucket[t]) \in Nat
      /\ bucketOrder \in Seq(Signatures) /\ Len(bucketOrder) \in Nat
      /\ bucket \in [Signatures -> Seq(Rollouts)]
      /\ signature \in [Rollouts -> Signatures]
  BY <1>1 DEF TypeOK
<1>4. TypeOK'
  BY <1>1, <1>2, <1>3 DEF TypeOK, Ranks
<1> HIDE DEF s
<1>5. /\ bucket'[s] = Append(bucket[s], collected)
      /\ Len(bucket'[s]) = Len(bucket[s]) + 1
      /\ bucket'[s][Len(bucket[s]) + 1] = collected
      /\ \A p \in 1 .. Len(bucket[s]) : bucket'[s][p] = bucket[s][p]
      /\ \A t \in Signatures : t # s => bucket'[t] = bucket[t]
  BY <1>1, <1>2, <1>3
<1>6. Grouping'
  <2>1. \A t \in Signatures : \A p \in 1 .. Len(bucket'[t]) :
           \/ p \in 1 .. Len(bucket[t]) /\ bucket'[t][p] = bucket[t][p]
           \/ t = s /\ p = Len(bucket[s]) + 1 /\ bucket'[t][p] = collected
    BY <1>3, <1>5
  <2>2. \A t \in Signatures : \A p \in 1 .. Len(bucket'[t]) :
           bucket'[t][p] < collected' /\ signature'[bucket'[t][p]] = t
    <3>1. SUFFICES ASSUME NEW t \in Signatures, NEW p \in 1 .. Len(bucket'[t])
                   PROVE  bucket'[t][p] < collected + 1 /\ signature[bucket'[t][p]] = t
      BY <1>2
    <3>2. CASE p \in 1 .. Len(bucket[t]) /\ bucket'[t][p] = bucket[t][p]
      <4>1. bucket[t][p] < collected /\ signature[bucket[t][p]] = t /\ bucket[t][p] \in Rollouts
        BY <1>1, <1>3, <3>2 DEF Grouping
      <4>2. QED
        BY <1>1, <3>2, <4>1 DEF Rollouts
    <3>3. CASE t = s /\ p = Len(bucket[s]) + 1 /\ bucket'[t][p] = collected
      BY <1>1, <3>3 DEF s
    <3>4. QED
      BY <2>1, <3>2, <3>3
  <2>3. \A t \in Signatures : \A p, q \in 1 .. Len(bucket'[t]) :
           bucket'[t][p] = bucket'[t][q] => p = q
    <3>1. SUFFICES ASSUME NEW t \in Signatures, NEW p \in 1 .. Len(bucket'[t]),
                          NEW q \in 1 .. Len(bucket'[t]), bucket'[t][p] = bucket'[t][q]
                   PROVE  p = q
      OBVIOUS
    <3>2. \A k \in 1 .. Len(bucket[t]) : bucket[t][k] # collected
      <4>1. SUFFICES ASSUME NEW k \in 1 .. Len(bucket[t]) PROVE bucket[t][k] # collected
        OBVIOUS
      <4>2. bucket[t][k] < collected
        BY <1>1 DEF Grouping
      <4>3. QED
        BY <1>1, <4>2
    <3>3. CASE p \in 1 .. Len(bucket[t]) /\ bucket'[t][p] = bucket[t][p]
      <4>1. CASE q \in 1 .. Len(bucket[t]) /\ bucket'[t][q] = bucket[t][q]
        <5>1. \A a, b \in 1 .. Len(bucket[t]) : bucket[t][a] = bucket[t][b] => a = b
          BY <1>1 DEF Grouping
        <5> QED  BY <3>1, <3>3, <4>1, <5>1
      <4>2. CASE bucket'[t][q] = collected
        BY <3>1, <3>2, <3>3, <4>2
      <4>3. QED
        BY <2>1, <4>1, <4>2
    <3>4. CASE p = Len(bucket[s]) + 1 /\ bucket'[t][p] = collected
      <4>1. CASE q \in 1 .. Len(bucket[t]) /\ bucket'[t][q] = bucket[t][q]
        BY <3>1, <3>2, <3>4, <4>1
      <4>2. CASE q = Len(bucket[s]) + 1
        BY <3>4, <4>2
      <4>3. QED
        BY <2>1, <4>1, <4>2
    <3>5. QED
      BY <2>1, <3>3, <3>4
  <2>4. \A i \in Rollouts : i < collected' =>
           \E p \in 1 .. Len(bucket'[signature'[i]]) : bucket'[signature'[i]][p] = i
    <3>1. SUFFICES ASSUME NEW i \in Rollouts, i < collected + 1
                   PROVE  \E p \in 1 .. Len(bucket'[signature[i]]) : bucket'[signature[i]][p] = i
      BY <1>2
    <3>2. signature[i] \in Signatures
      BY <1>3
    <3>3. CASE i < collected
      <4>1. PICK p \in 1 .. Len(bucket[signature[i]]) : bucket[signature[i]][p] = i
        BY <1>1, <3>3 DEF Grouping
      <4>2. p \in 1 .. Len(bucket'[signature[i]]) /\ bucket'[signature[i]][p] = i
        <5>1. CASE signature[i] = s
          <6>1. p \in 1 .. Len(bucket[s]) /\ bucket[s][p] = i
            BY <4>1, <5>1
          <6>2. p \in 1 .. Len(bucket[s]) + 1
            BY <1>1, <1>3, <6>1
          <6>3. p \in 1 .. Len(bucket'[s]) /\ bucket'[s][p] = i
            BY <1>5, <6>1, <6>2
          <6>4. QED
            BY <5>1, <6>3
        <5>2. CASE signature[i] # s
          BY <1>5, <3>2, <4>1, <5>2
        <5>3. QED
          BY <5>1, <5>2
      <4>3. QED
        BY <4>2
    <3>4. CASE i = collected
      <4>1. Len(bucket[s]) + 1 \in 1 .. Len(bucket'[s])
        BY <1>1, <1>3, <1>5
      <4>2. QED
        BY <1>5, <3>4, <4>1 DEF s
    <3>5. QED
      BY <1>1, <3>1, <3>3, <3>4 DEF Rollouts
  <2>5. \A k \in 1 .. Len(bucketOrder) :
           k \in 1 .. Len(bucketOrder') /\ bucketOrder'[k] = bucketOrder[k]
    BY <1>1, <1>2, <1>3
  <2>6. \A k \in 1 .. Len(bucketOrder') :
           \/ k \in 1 .. Len(bucketOrder)
           \/ bucket[s] = <<>> /\ k = Len(bucketOrder) + 1 /\ bucketOrder'[k] = s
    BY <1>1, <1>2, <1>3
  <2>7. \A t \in Signatures :
           bucket'[t] # <<>> => \E k \in 1 .. Len(bucketOrder') : bucketOrder'[k] = t
    <3>1. SUFFICES ASSUME NEW t \in Signatures, bucket'[t] # <<>>
                   PROVE  \E k \in 1 .. Len(bucketOrder') : bucketOrder'[k] = t
      OBVIOUS
    <3>2. CASE bucket[t] # <<>>
      BY <1>1, <2>5, <3>2 DEF Grouping
    <3>3. CASE bucket[t] = <<>>
      <4>1. t = s
        BY <1>5, <3>1, <3>3
      <4>2. Len(bucketOrder) + 1 \in 1 .. Len(bucketOrder') /\ bucketOrder'[Len(bucketOrder) + 1] = s
        BY <1>1, <1>2, <1>3, <3>3, <4>1
      <4>3. QED
        BY <4>1, <4>2
    <3>4. QED
      BY <3>2, <3>3
  <2>8. \A k \in 1 .. Len(bucketOrder') : bucket'[bucketOrder'[k]] # <<>>
    <3>1. bucket'[s] # <<>>
      <4>1. Len(bucket'[s]) # 0
        BY <1>1, <1>3, <1>5
      <4>2. QED
        BY <4>1
    <3>2. \A k \in 1 .. Len(bucketOrder) : bucketOrder[k] \in Signatures /\ bucket[bucketOrder[k]] # <<>>
      BY <1>1, <1>3 DEF Grouping
    <3>3. QED
      BY <1>5, <2>5, <2>6, <3>1, <3>2
  <2>9. \A k, l \in 1 .. Len(bucketOrder') : bucketOrder'[k] = bucketOrder'[l] => k = l
    <3>1. \A k \in 1 .. Len(bucketOrder) : bucket[bucketOrder[k]] # <<>>
      BY <1>1 DEF Grouping
    <3>2. QED
      BY <1>1, <2>5, <2>6, <3>1 DEF Grouping
  <2>10. QED
    BY <2>2, <2>3, <2>4, <2>7, <2>8, <2>9 DEF Grouping, Rollouts
<1>7. Control'
  <2>1. collected + 1 = W * G => 1 <= Len(bucketOrder')
    BY <1>1, <1>2, <1>3, <1>6 DEF Grouping
  <2>2. collected + 1 = W * G => 0 <= Len(Current')
    <3>1. Len(bucketOrder') \in Nat /\ (1 <= Len(bucketOrder') => bucketOrder'[1] \in Signatures)
      BY <1>4 DEF TypeOK
    <3>2. 1 <= Len(bucketOrder') => Len(bucket'[bucketOrder'[1]]) \in Nat
      BY <1>4, <3>1 DEF TypeOK
    <3>3. current' = 1
      BY <1>1, <1>2
    <3>4. QED
      BY <2>1, <3>2, <3>3 DEF Current
  <2>3. QED
    BY <1>1, <1>2, <2>1, <2>2 DEF Control
<1>8. RealSlots' = {} /\ \A r \in Ranks : RealWaves(r)' = {}
  BY <1>1, <1>2 DEF RealSlots, RealWaves
<1>9. Placement'
  BY <1>1, <1>2, <1>8 DEF Placement, PastCursor, NoDoubleReplay
<1>10. Alignment'
  BY <1>1, <1>2 DEF Alignment
<1>11. Balance'
  <2>1. RealSlots = {} /\ \A r \in Ranks : RealWaves(r) = {}
    BY <1>1 DEF RealSlots, RealWaves
  <2>2. RealSlots' = RealSlots /\ (\A r \in Ranks : RealWaves(r)' = RealWaves(r)) /\ rankCursor' = rankCursor
    BY <1>2, <1>8, <2>1
  <2>3. QED
    BY <2>2 DEF ScheduleInv, Balance, Balanced, Ranks
<1>12. QED
  BY <1>2, <1>4, <1>6, <1>7, <1>9, <1>10, <1>11 DEF ScheduleInv, NeverRaises

\* A full wave is a wave of W rollouts that leaves the cursor in the bucket.
LEMMA PlaceWaveKeepsSchedule ==
  ASSUME ScheduleInv, PlaceWave
  PROVE  ScheduleInv'
<1> USE SizesAssumption
<1>1. /\ TypeOK /\ Grouping /\ Control /\ Placement /\ Alignment /\ Balance
      /\ phase = "place" /\ current <= Len(bucketOrder) /\ W \in 1 .. W
      /\ current \in 1 .. Len(bucketOrder) /\ offset \in Nat /\ rankCursor \in 0 .. W - 1
  BY DEF ScheduleInv, PlaceWave, Control, TypeOK, Ranks
<1>2. Len(Current) \in Nat
  BY <1>1 DEF TypeOK, Current
<1>3. offset + W <= Len(Current)
  BY <1>1, <1>2 DEF PlaceWave, Left
<1>4. /\ schedule' = Append(schedule, FilledWave(W))
      /\ offset' = offset + W
      /\ UNCHANGED <<signature, collected, bucket, bucketOrder, current, rankCursor, phase>>
  BY DEF PlaceWave
<1>5. rankCursor' = (rankCursor + W) % W
  <2>1. W \in 0 .. W
    OBVIOUS
  <2>2. (rankCursor + W) % W = IF rankCursor + W < W THEN rankCursor + W ELSE rankCursor + W - W
    BY <1>1, <2>1, CursorValue
  <2>3. QED
    BY <1>1, <1>4, <2>2
<1>6. schedule' \in Seq(Wave)
  BY <1>1, <1>3, <1>4, AppendWave
<1>7. TypeOK'
  BY <1>1, <1>4, <1>6 DEF TypeOK, Ranks, Rollouts, Wave
<1>8. Grouping'
  BY <1>1, <1>4 DEF Grouping
<1>9. Control'
  <2>1. Current' = Current
    BY <1>4 DEF Current
  <2>2. QED
    BY <1>1, <1>3, <1>4, <2>1 DEF Control
<1>10. Placement'
  BY <1>1, <1>3, <1>4, AppendKeepsPlacement
<1>11. Alignment'
  BY <1>1, <1>3, <1>4, AppendKeepsAlignment
<1>12. Balance'
  BY <1>1, <1>3, <1>4, <1>5, AppendKeepsBalance
<1>13. QED
  BY <1>1, <1>4, <1>7, <1>8, <1>9, <1>10, <1>11, <1>12 DEF ScheduleInv, NeverRaises

\* The end of a bucket places what is left of it and moves to the next bucket.
LEMMA PlaceRemainderKeepsSchedule ==
  ASSUME ScheduleInv, PlaceRemainder
  PROVE  ScheduleInv'
<1> USE SizesAssumption
<1>1. /\ TypeOK /\ Grouping /\ Control /\ Placement /\ Alignment /\ Balance
      /\ phase = "place" /\ current <= Len(bucketOrder)
      /\ current \in 1 .. Len(bucketOrder) /\ offset \in Nat /\ rankCursor \in 0 .. W - 1
      /\ Len(bucketOrder) \in Nat /\ offset <= Len(Current) /\ collected = W * G
  BY DEF ScheduleInv, PlaceRemainder, Control, TypeOK, Ranks
<1>2. Len(Current) \in Nat
  BY <1>1 DEF TypeOK, Current
<1>3. /\ current' = current + 1
      /\ offset' = 0
      /\ phase' = IF current = Len(bucketOrder) THEN "check" ELSE "place"
      /\ UNCHANGED <<signature, collected, bucket, bucketOrder>>
  BY DEF PlaceRemainder
<1>4. Grouping'
  BY <1>1, <1>3 DEF Grouping
<1>5. Control'
  <2>1. current + 1 <= Len(bucketOrder) => Len(bucket[bucketOrder[current + 1]]) \in Nat
    BY <1>1 DEF TypeOK
  <2>2. Current' = bucket[bucketOrder[current + 1]]
    BY <1>3 DEF Current
  <2>3. QED
    BY <1>1, <1>3, <2>1, <2>2 DEF Control
<1>6. ASSUME schedule' \in Seq(Wave), rankCursor' \in Ranks
      PROVE  TypeOK'
  BY <1>1, <1>3, <1>6 DEF TypeOK, Ranks, Rollouts, Wave
<1>7. CASE Left > 0
  <2>1. /\ Left \in 1 .. W /\ Left \in 0 .. W
        /\ offset + Left = Len(Current) /\ offset + Left <= Len(Current)
    BY <1>1, <1>2, <1>7 DEF PlaceRemainder, Left
  <2>2. PICK m \in 1 .. W : m = Left
    BY <2>1
  <2>3. /\ schedule' = Append(schedule, FilledWave(m))
        /\ rankCursor' = (rankCursor + m) % W
    BY <1>7, <2>2 DEF PlaceRemainder, CursorAfter
  <2>4. offset + m = Len(Current) /\ offset + m <= Len(Current) /\ m \in 0 .. W
    BY <2>1, <2>2
  <2>5. rankCursor' \in Ranks
    <3>1. rankCursor' = IF rankCursor + m < W THEN rankCursor + m ELSE rankCursor + m - W
      BY <1>1, <2>3, <2>4, CursorValue
    <3>2. QED
      BY <1>1, <2>2, <3>1 DEF Ranks
  <2>6. schedule' \in Seq(Wave)
    BY <1>1, <2>3, <2>4, AppendWave
  <2>7. Placement'
    BY <1>1, <1>3, <2>3, <2>4, AppendKeepsPlacement
  <2>8. Alignment'
    BY <1>1, <1>3, <2>3, <2>4, AppendKeepsAlignment
  <2>9. Balance'
    BY <1>1, <2>3, <2>4, AppendKeepsBalance
  <2>10. QED
    BY <1>3, <1>4, <1>5, <1>6, <2>5, <2>6, <2>7, <2>8, <2>9 DEF ScheduleInv, NeverRaises
<1>8. CASE ~(Left > 0)
  <2>1. UNCHANGED <<schedule, rankCursor>>
    BY <1>8 DEF PlaceRemainder
  <2>2. offset = Len(Current)
    BY <1>1, <1>2, <1>8 DEF Left
  <2>3. \A i : PastCursor(i)' <=> PastCursor(i)
    <3>1. \A k \in 1 .. Len(bucketOrder) : Len(bucket[bucketOrder[k]]) \in Nat
      BY <1>1 DEF TypeOK
    <3>2. \A k \in 1 .. Len(bucketOrder) : \A p \in 1 .. Len(bucket[bucketOrder[k]]) :
             (k < current' \/ (k = current' /\ p <= offset'))
               <=> (k < current \/ (k = current /\ p <= offset))
      BY <1>1, <1>3, <2>2, <3>1 DEF Current
    <3>3. QED
      BY <1>3, <3>2 DEF PastCursor
  <2>4. RealSlots' = RealSlots /\ \A r \in Ranks : RealWaves(r)' = RealWaves(r)
    BY <2>1 DEF RealSlots, RealWaves, Ranks
  <2>5. \A s : RolloutAt(s)' = RolloutAt(s)
    BY <2>1 DEF RolloutAt
  <2>6. Placement'
    <3>1. \A s \in RealSlots' : PastCursor(RolloutAt(s))'
      <4>1. SUFFICES ASSUME NEW s \in RealSlots, NEW i, i = RolloutAt(s)' PROVE PastCursor(i)'
        BY <2>4 DEF PastCursor
      <4>2. PastCursor(RolloutAt(s))
        BY <1>1 DEF Placement
      <4>3. PastCursor(i)
        BY <2>5, <4>1, <4>2
      <4>4. QED
        BY <2>3, <4>3
    <3>2. \A i \in Rollouts : PastCursor(i)' => \E s \in RealSlots' : RolloutAt(s)' = i
      BY <1>1, <2>3, <2>4, <2>5 DEF Placement
    <3>3. NoDoubleReplay'
      BY <1>1, <2>4, <2>5 DEF Placement, NoDoubleReplay
    <3>4. QED
      BY <3>1, <3>2, <3>3 DEF Placement, Rollouts
  <2>7. Alignment'
    BY <1>1, <1>3, <2>1 DEF Alignment
  <2>8. Balance'
    BY <1>1, <2>1, <2>4 DEF Balance, Balanced, Ranks
  <2>9. rankCursor' \in Ranks /\ schedule' \in Seq(Wave)
    BY <1>1, <2>1 DEF TypeOK
  <2>10. QED
    BY <1>3, <1>4, <1>5, <1>6, <2>6, <2>7, <2>8, <2>9 DEF ScheduleInv, NeverRaises
<1>9. QED
  BY <1>7, <1>8

-----------------------------------------------------------------------------
\* The final checks cannot fail

\* Once every bucket is cut, the cursor is past every rollout.
LEMMA AllPlaced ==
  ASSUME ScheduleInv, phase = "check"
  PROVE  \A i \in Rollouts : PastCursor(i)
<1> USE SizesAssumption
<1>1. /\ TypeOK /\ Grouping
      /\ collected = W * G /\ current = Len(bucketOrder) + 1 /\ Len(bucketOrder) \in Nat
  BY DEF ScheduleInv, Control, TypeOK
<1>2. SUFFICES ASSUME NEW i \in Rollouts PROVE PastCursor(i)
  OBVIOUS
<1>3. signature[i] \in Signatures /\ i < collected
  BY <1>1, <1>2 DEF TypeOK, Rollouts
<1>4. PICK p \in 1 .. Len(bucket[signature[i]]) : bucket[signature[i]][p] = i
  BY <1>1, <1>3 DEF Grouping
<1>5. bucket[signature[i]] # <<>>
  <2>1. Len(bucket[signature[i]]) \in Nat
    BY <1>1, <1>3 DEF TypeOK
  <2>2. Len(bucket[signature[i]]) # 0
    BY <1>4, <2>1
  <2>3. QED
    BY <2>2
<1>6. PICK k \in 1 .. Len(bucketOrder) : bucketOrder[k] = signature[i]
  BY <1>1, <1>3, <1>5 DEF Grouping
<1>7. k < current
  BY <1>1, <1>6
<1>8. QED
  BY <1>4, <1>6, <1>7 DEF PastCursor

\* The rollout of each real slot: no two slots share one, in any state.
RolloutOf == [s \in RealSlots |-> RolloutAt(s)]

\* After the last bucket, real slots and rollouts correspond one to one.
LEMMA RolloutOfInjective ==
  ASSUME ScheduleInv
  PROVE  /\ RolloutOf \in Injection(RealSlots, Rollouts)
         /\ IsFiniteSet(Rollouts) /\ Cardinality(Rollouts) = W * G
<1>1. TypeOK /\ Placement
  BY DEF ScheduleInv
<1>2. \A s \in RealSlots : RolloutAt(s) \in Rollouts
  <2>1. SUFFICES ASSUME NEW s \in RealSlots PROVE RolloutAt(s) \in Rollouts
    OBVIOUS
  <2>2. s[1] \in 1 .. Len(schedule) /\ s[2] \in Ranks
    BY DEF RealSlots
  <2>3. schedule[s[1]] \in Wave
    BY <1>1, <2>2 DEF TypeOK
  <2>4. QED
    BY <2>2, <2>3 DEF RolloutAt, Wave, Slot
<1>3. RolloutOf \in Injection(RealSlots, Rollouts)
  <2>1. RolloutOf \in [RealSlots -> Rollouts]
    BY <1>2 DEF RolloutOf
  <2>2. \A s, t \in RealSlots : RolloutOf[s] = RolloutOf[t] => s = t
    BY <1>1 DEF Placement, NoDoubleReplay, RolloutOf
  <2>3. QED
    BY <2>1, <2>2 DEF Injection, IsInjective
<1>4. IsFiniteSet(Rollouts) /\ Cardinality(Rollouts) = W * G
  <2>1. W * G \in Nat /\ W * G > 0
    BY SizesAssumption
  <2>2. 0 \in Int /\ W * G - 1 \in Int
    BY <2>1
  <2>3. /\ IsFiniteSet(0 .. W * G - 1)
        /\ Cardinality(0 .. W * G - 1) = IF 0 > W * G - 1 THEN 0 ELSE (W * G - 1) - 0 + 1
    BY <2>2, FS_Interval
  <2>4. QED
    BY <2>1, <2>3 DEF Rollouts
<1>5. QED
  BY <1>3, <1>4

\* Once all buckets are cut there are as many real slots as rollouts.
LEMMA RealSlotCount ==
  ASSUME ScheduleInv, phase = "check"
  PROVE  Cardinality(RealSlots) = W * G
<1>1. \A i \in Rollouts : \E s \in RealSlots : RolloutOf[s] = i
  BY AllPlaced DEF ScheduleInv, Placement, RolloutOf
<1>2. RolloutOf \in Surjection(RealSlots, Rollouts)
  BY <1>1, RolloutOfInjective DEF Injection, Surjection
<1>3. QED
  BY <1>2, RolloutOfInjective, FS_Injection

\* The three checks hold of every finished schedule.
LEMMA ChecksPass ==
  ASSUME ScheduleInv, phase = "check"
  PROVE  ~(LostOrDuplicated \/ Unbalanced \/ Unaligned)
<1>1. /\ TypeOK /\ Placement /\ Alignment /\ Balance
      /\ \A i \in Rollouts : PastCursor(i)
  BY AllPlaced DEF ScheduleInv
<1>2. ~LostOrDuplicated
  BY <1>1 DEF Placement, NoDoubleReplay, LostOrDuplicated
<1>3. ~Unbalanced
  <2>1. PICK base \in Nat : Balanced(base)
    BY <1>1 DEF Balance
  <2>2. W * G = W * base + rankCursor /\ rankCursor \in Ranks
    BY <1>1, <2>1, RealSlotCount DEF Balanced, TypeOK
  <2>3. base = G /\ rankCursor = 0
    BY <2>2, WholeRounds
  <2>4. \A r \in Ranks : Cardinality(RealWaves(r)) = G
    BY <2>1, <2>3, SizesAssumption DEF Balanced, Ranks
  <2>5. QED
    BY <2>4 DEF Unbalanced
<1>4. ~Unaligned
  BY <1>1 DEF Alignment, Unaligned
<1>5. QED
  BY <1>2, <1>3, <1>4

\* The final check keeps the invariant: it has nothing to raise about.
LEMMA CheckKeepsSchedule ==
  ASSUME ScheduleInv, Check
  PROVE  ScheduleInv'
<1>1. /\ TypeOK /\ Grouping /\ Control /\ Placement /\ Alignment /\ Balance
      /\ phase = "check" /\ phase' = "done"
      /\ UNCHANGED <<signature, collected, bucket, bucketOrder, current, offset,
                     rankCursor, schedule>>
  BY ChecksPass DEF ScheduleInv, Check
<1>2. TypeOK'
  BY <1>1 DEF TypeOK
<1>3. Grouping' /\ Alignment'
  BY <1>1 DEF Grouping, Alignment
<1>4. Control'
  BY <1>1 DEF Control, Current
<1>5. RealSlots' = RealSlots /\ \A r \in Ranks : RealWaves(r)' = RealWaves(r)
  BY <1>1 DEF RealSlots, RealWaves
<1>6. Placement'
  BY <1>1, <1>5 DEF Placement, PastCursor, RolloutAt, NoDoubleReplay
<1>7. Balance'
  BY <1>1, <1>5 DEF Balance, Balanced
<1>8. QED
  BY <1>1, <1>2, <1>3, <1>4, <1>6, <1>7 DEF ScheduleInv, NeverRaises

\* A stuttering step changes no part of the invariant.
LEMMA ScheduleStutters ==
  ASSUME ScheduleInv, UNCHANGED scheduleVars
  PROVE  ScheduleInv'
<1>1. UNCHANGED <<signature, collected, bucket, bucketOrder, current, offset,
                  rankCursor, schedule, phase>>
  BY DEF scheduleVars
<1>2. RealSlots' = RealSlots /\ \A r \in Ranks : RealWaves(r)' = RealWaves(r)
  BY <1>1 DEF RealSlots, RealWaves
<1>3. TypeOK' /\ Grouping' /\ Alignment' /\ NeverRaises'
  BY <1>1 DEF ScheduleInv, TypeOK, Grouping, Alignment, NeverRaises
<1>4. Control'
  BY <1>1 DEF ScheduleInv, Control, Current
<1>5. Placement'
  BY <1>1, <1>2 DEF ScheduleInv, Placement, PastCursor, RolloutAt, NoDoubleReplay
<1>6. Balance'
  BY <1>1, <1>2 DEF ScheduleInv, Balance, Balanced
<1>7. QED
  BY <1>3, <1>4, <1>5, <1>6 DEF ScheduleInv

-----------------------------------------------------------------------------
\* Theorems

\* The strengthening holds in every reachable state.
THEOREM ScheduleInvariant == ScheduleSpec => []ScheduleInv
<1>1. ScheduleInv /\ [ScheduleNext]_scheduleVars => ScheduleInv'
  BY CollectKeepsSchedule, PlaceWaveKeepsSchedule, PlaceRemainderKeepsSchedule, CheckKeepsSchedule,
     ScheduleStutters DEF ScheduleNext
<1>2. QED
  BY ScheduleStarts, <1>1, PTL DEF ScheduleSpec

\* The loop variables keep their types (trainer.py:538-581).
THEOREM ScheduleTypeOK == ScheduleSpec => []TypeOK
<1>1. ScheduleInv => TypeOK
  BY DEF ScheduleInv
<1>2. QED
  BY ScheduleInvariant, <1>1, PTL

\* For every world size, group size and mix of signatures, the function returns
\* without raising one of its three RuntimeErrors (trainer.py:583-591): no
\* rollout is lost or trained on twice, every rank trains on exactly G, every
\* wave is aligned.
THEOREM ScheduleNeverRaises == ScheduleSpec => []NeverRaises
<1>1. ScheduleInv => NeverRaises
  BY DEF ScheduleInv
<1>2. QED
  BY ScheduleInvariant, <1>1, PTL

\* No rollout is given two slots with loss at any point of the construction.
THEOREM ScheduleNoDoubleReplay == ScheduleSpec => []NoDoubleReplay
<1>1. ScheduleInv => NoDoubleReplay
  BY DEF ScheduleInv, Placement
<1>2. QED
  BY ScheduleInvariant, <1>1, PTL

\* In every state of the construction the ranks' shares differ by at most one,
\* the ranks before the cursor being ahead: what makes the final check pass.
THEOREM ScheduleRunningBalance == ScheduleSpec => []RunningBalance
<1>1. ScheduleInv => RunningBalance
  <2>1. SUFFICES ASSUME ScheduleInv PROVE RunningBalance
    OBVIOUS
  <2>2. PICK base \in Nat : Balanced(base)
    BY <2>1 DEF ScheduleInv, Balance
  <2>3. Cardinality(RealSlots) <= W * G
    BY <2>1, RolloutOfInjective, FS_Injection
  <2>4. W * base + rankCursor <= W * G /\ rankCursor \in 0 .. W - 1
    BY <2>1, <2>2, <2>3 DEF Balanced, ScheduleInv, TypeOK, Ranks
  <2>5. base <= G
    BY <2>4, SizesAssumption
  <2>6. QED
    BY <2>2, <2>5, SizesAssumption DEF RunningBalance, Balanced
<1>2. QED
  BY ScheduleInvariant, <1>1, PTL

-----------------------------------------------------------------------------
(* PackedStream.                                                           *)

(* What a buffer and a configuration are.                                  *)
Buffer == [rows : SUBSET Rows, tokens : Nat, images : Nat, age : Nat]

Types ==
  /\ cfg \in Configurations
  /\ stage \in {"choose", "pack", "end", "failed"}
  /\ epoch \in Nat \ {0} /\ clock \in Nat
  /\ read \in [Datasets -> Nat] /\ \A d \in Datasets : read[d] <= Held(d)
  /\ consumed \in [Datasets -> Nat] /\ positive \subseteq Datasets
  /\ buffers \in Seq(Buffer) /\ full \in Seq(Buffer)
  /\ last \in [tokens : Nat, images : Nat]
  /\ delivered \in [Rows -> Nat]

-----------------------------------------------------------------------------
(* Packs keep their budgets, and buffers stand in descending order of       *)
(* images, which makes looking at the first one enough.                     *)
Sorted(bs) == \A i, j \in DOMAIN bs : i < j => bs[j].images <= bs[i].images

Idle ==
  /\ Len(buffers) <= MaxBuffers /\ full = <<>>
  /\ \A i \in DOMAIN buffers : ~Crowded(i) /\ (cfg.packed = {} => buffers[i].age <= Stale)

Budget ==
  /\ Within(last)
  /\ \A i \in DOMAIN buffers : Within(buffers[i])
  /\ \A i \in DOMAIN full : Within(full[i])
  /\ Sorted(buffers)
  /\ stage \in {"choose", "end"} => Idle
  /\ stage = "end" => buffers = <<>>

-----------------------------------------------------------------------------
(* Where a row of a finite epoch is: not read, in one buffer, or delivered  *)
(* once.                                                                    *)
Has(bs, r) == \E i \in DOMAIN bs : r \in bs[i].rows
Once(bs, r) == \A i, j \in DOMAIN bs : r \in bs[i].rows /\ r \in bs[j].rows => i = j
Kept(bs, fs, r) == Has(bs, r) \/ Has(fs, r)
KeptOnce(bs, fs, r) == Once(bs, r) /\ Once(fs, r) /\ ~(Has(bs, r) /\ Has(fs, r))

Followed == ~cfg.replacement /\ stage # "failed"

Placed(r) ==
  /\ KeptOnce(buffers, full, r)
  /\ read[r[1]] < r[2] => delivered[r] = 0 /\ ~Kept(buffers, full, r)
  /\ r[2] <= read[r[1]] /\ Kept(buffers, full, r) => delivered[r] = 0
  /\ r[2] <= read[r[1]] /\ ~Kept(buffers, full, r) => delivered[r] = 1

(* A dataset loses its weight only when its shard is read or its estimate   *)
(* consumed; in the first epoch what is counted was read in it.             *)
Spent(d) == read[d] = Held(d) \/ consumed[d] = cfg.estimate[d]
Counted(d) == consumed[d] = IF read[d] < cfg.estimate[d] THEN read[d] ELSE cfg.estimate[d]

Exhausted ==
  /\ \A d \in Datasets : consumed[d] <= cfg.estimate[d]
  /\ epoch = 1 => \A d \in Datasets : Counted(d)
  /\ \A d \in Datasets \ positive : Spent(d)
  /\ stage = "end" => positive = {}

Account == Followed => Exhausted /\ \A r \in Rows : Placed(r)

IInv == Types /\ Budget /\ Account

-----------------------------------------------------------------------------
(* Least and greatest elements. *)

LEMMA HasLeast ==
  ASSUME NEW S \in SUBSET Nat, S # {}
  PROVE  \E i \in S : \A j \in S : i <= j
<1> DEFINE Less == {p \in Nat \X Nat : p[1] < p[2]}
<1>1. IsWellFoundedOn(Less, Nat)
  BY NatLessThanWellFounded DEF OpToRel
<1>2. \A a, b \in Nat : a < b => <<a, b>> \in Less
  OBVIOUS
<1> HIDE DEF Less
<1>3. PICK x \in S : \A y \in S : ~ (<<y, x>> \in Less)
  BY <1>1, WFMin
<1>4. ASSUME NEW y \in S PROVE x <= y
  <2>1. x \in Nat /\ y \in Nat
    OBVIOUS
  <2>2. ~ (y < x)
    BY <1>2, <1>3, <2>1
  <2> QED BY <2>1, <2>2
<1> QED BY <1>4

\* Lowest is a least element of a set of naturals.
LEMMA LowestIsLeast ==
  ASSUME NEW S \in SUBSET Nat, S # {}
  PROVE  Lowest(S) \in S /\ \A j \in S : Lowest(S) <= j
BY HasLeast DEF Lowest

(* A bounded measure has a greatest value on a set that is not empty.      *)
LEMMA HasGreatest ==
  ASSUME NEW S, S # {}, NEW f \in [S -> Nat], NEW b \in Nat, \A x \in S : f[x] <= b
  PROVE  \E x \in S : \A y \in S : f[y] <= f[x]
<1> DEFINE T == {b - f[x] : x \in S}
<1>1. T \in SUBSET Nat /\ T # {}
  OBVIOUS
<1>2. PICK m \in T : \A n \in T : m <= n
  BY <1>1, HasLeast
<1>3. PICK x \in S : m = b - f[x]
  BY <1>2
<1>4. ASSUME NEW y \in S PROVE f[y] <= f[x]
  <2>1. b - f[x] <= b - f[y]
    BY <1>2, <1>3
  <2>2. f[x] \in Nat /\ f[y] \in Nat
    OBVIOUS
  <2> QED BY <2>1, <2>2
<1> QED BY <1>4

\* Highest is an element of a bounded set of positions.
LEMMA HighestIsGreatest ==
  ASSUME NEW n \in Nat, NEW S \in SUBSET (1 .. n), S # {}
  PROVE  Highest(S) \in S
<1> DEFINE f == [x \in S |-> x]
<1>1. f \in [S -> Nat] /\ \A x \in S : f[x] <= n
  OBVIOUS
<1>2. PICK x \in S : \A y \in S : f[y] <= f[x]
  BY <1>1, HasGreatest
<1>3. \A y \in S : x >= y
  BY <1>2
<1> QED BY <1>3 DEF Highest

-----------------------------------------------------------------------------
(* Sequences of buffers. *)

LEMMA Removed ==
  ASSUME NEW S, NEW s \in Seq(S), NEW i \in 1 .. Len(s)
  PROVE  /\ RemoveAt(s, i) \in Seq(S)
         /\ Len(RemoveAt(s, i)) = Len(s) - 1
         /\ \A k \in 1 .. Len(s) - 1 : RemoveAt(s, i)[k] = s[IF k < i THEN k ELSE k + 1]
<1>1. PICK n \in Nat : n = Len(s)
  OBVIOUS
<1>2. s \in [1 .. n -> S]
  BY <1>1
<1> DEFINE u == SubSeq(s, 1, i - 1)
           v == SubSeq(s, i + 1, n)
<1>3. u \in Seq(S) /\ Len(u) = i - 1 /\ \A k \in 1 .. i - 1 : u[k] = s[k]
  BY <1>1, <1>2
<1>4. v \in Seq(S) /\ Len(v) = n - i /\ \A k \in 1 .. n - i : v[k] = s[i + k]
  BY <1>1, <1>2
<1> HIDE DEF u, v
<1>5. u \o v \in Seq(S) /\ Len(u \o v) = n - 1
  BY <1>1, <1>3, <1>4
<1>6. ASSUME NEW k \in 1 .. n - 1
      PROVE  (u \o v)[k] = s[IF k < i THEN k ELSE k + 1]
  <2>1. CASE k < i
    BY <1>1, <1>3, <1>4, <2>1
  <2>2. CASE ~(k < i)
    <3>1. k - (i - 1) \in 1 .. n - i /\ k > Len(u) /\ k <= Len(u) + Len(v)
      BY <1>1, <1>3, <1>4, <2>2
    <3>2. (u \o v)[k] = v[k - (i - 1)]
      BY <1>1, <1>3, <1>4, <3>1
    <3>3. i + (k - (i - 1)) = k + 1
      BY <1>1
    <3> QED BY <1>4, <2>2, <3>1, <3>2, <3>3
  <2> QED BY <2>1, <2>2
<1> QED BY <1>1, <1>5, <1>6 DEF RemoveAt, u, v

\* What InsertAt does to each position of a sequence.
LEMMA Inserted ==
  ASSUME NEW S, NEW s \in Seq(S), NEW e \in S, NEW i \in 1 .. Len(s) + 1
  PROVE  /\ InsertAt(s, i, e) \in Seq(S)
         /\ Len(InsertAt(s, i, e)) = Len(s) + 1
         /\ \A k \in 1 .. Len(s) + 1 :
              InsertAt(s, i, e)[k] = IF k < i THEN s[k] ELSE IF k = i THEN e ELSE s[k - 1]
<1>1. PICK n \in Nat : n = Len(s)
  OBVIOUS
<1>2. s \in [1 .. n -> S]
  BY <1>1
<1> DEFINE u == SubSeq(s, 1, i - 1)
           v == SubSeq(s, i, n)
<1>3. u \in Seq(S) /\ Len(u) = i - 1 /\ \A k \in 1 .. i - 1 : u[k] = s[k]
  BY <1>1, <1>2
<1>4. v \in Seq(S) /\ Len(v) = n - i + 1 /\ \A k \in 1 .. n - i + 1 : v[k] = s[i - 1 + k]
  BY <1>1, <1>2
<1> HIDE DEF u, v
<1> DEFINE w == u \o <<e>>
<1>5. w \in Seq(S) /\ Len(w) = i /\ \A k \in 1 .. i : w[k] = IF k < i THEN s[k] ELSE e
  BY <1>1, <1>3
<1> HIDE DEF w
<1>6. w \o v \in Seq(S) /\ Len(w \o v) = n + 1
  <2> w \in Seq(S) /\ v \in Seq(S)
    BY <1>4, <1>5
  <2>1. w \o v \in Seq(S) /\ Len(w \o v) = Len(w) + Len(v)
    OBVIOUS
  <2>2. i + (n - i + 1) = n + 1
    BY <1>1
  <2> QED BY <1>4, <1>5, <2>1, <2>2
<1>7. ASSUME NEW k \in 1 .. n + 1
      PROVE  (w \o v)[k] = IF k < i THEN s[k] ELSE IF k = i THEN e ELSE s[k - 1]
  <2>1. CASE k <= i
    BY <1>1, <1>4, <1>5, <2>1
  <2>2. CASE ~(k <= i)
    <3>1. k - i \in 1 .. n - i + 1 /\ k > Len(w) /\ k <= Len(w) + Len(v)
      BY <1>1, <1>4, <1>5, <2>2
    <3>2. (w \o v)[k] = v[k - i]
      BY <1>1, <1>4, <1>5, <3>1
    <3>3. i - 1 + (k - i) = k - 1
      BY <1>1
    <3> QED BY <1>4, <2>2, <3>1, <3>2, <3>3
  <2> QED BY <2>1, <2>2
<1> QED BY <1>1, <1>6, <1>7 DEF InsertAt, u, v, w

\* What Append does to each position.
LEMMA Appended ==
  ASSUME NEW S, NEW s \in Seq(S), NEW e \in S
  PROVE  /\ Append(s, e) \in Seq(S) /\ Len(Append(s, e)) = Len(s) + 1
         /\ \A k \in 1 .. Len(s) : Append(s, e)[k] = s[k]
         /\ Append(s, e)[Len(s) + 1] = e
OBVIOUS

\* What Tail does to each position.
LEMMA Beheaded ==
  ASSUME NEW S, NEW s \in Seq(S), s # <<>>
  PROVE  /\ Tail(s) \in Seq(S) /\ Len(Tail(s)) = Len(s) - 1 /\ Len(s) >= 1
         /\ \A k \in 1 .. Len(s) - 1 : Tail(s)[k] = s[k + 1]
         /\ Head(s) = s[1] /\ Head(s) \in S
OBVIOUS

-----------------------------------------------------------------------------
(* What leaving out and adding a buffer does to the places of a row. *)

Without(s, i, t) ==
  /\ Len(t) = Len(s) - 1
  /\ \A k \in 1 .. Len(s) - 1 : t[k] = s[IF k < i THEN k ELSE k + 1]

With(s, i, e, t) ==
  /\ Len(t) = Len(s) + 1
  /\ \A k \in 1 .. Len(s) + 1 : t[k] = IF k < i THEN s[k] ELSE IF k = i THEN e ELSE s[k - 1]

\* Every element but the removed one keeps a position, and no other gains one.
LEMMA FoundWithout ==
  ASSUME NEW S, NEW s \in Seq(S), NEW t \in Seq(S), NEW i \in 1 .. Len(s), Without(s, i, t)
  PROVE  /\ \A k \in DOMAIN t : \E j \in DOMAIN s :
              j # i /\ t[k] = s[j] /\ j = IF k < i THEN k ELSE k + 1
         /\ \A j \in DOMAIN s : j # i => \E k \in DOMAIN t : t[k] = s[j]
<1>1. PICK n \in Nat : n = Len(s)
  OBVIOUS
<1>2. DOMAIN s = 1 .. n /\ DOMAIN t = 1 .. n - 1
  BY <1>1 DEF Without
<1>3. \A k \in 1 .. n - 1 : t[k] = s[IF k < i THEN k ELSE k + 1]
  BY <1>1 DEF Without
<1>4. ASSUME NEW k \in 1 .. n - 1
      PROVE \E j \in 1 .. n : j # i /\ t[k] = s[j] /\ j = IF k < i THEN k ELSE k + 1
  <2> DEFINE j == IF k < i THEN k ELSE k + 1
  <2>1. j \in 1 .. n /\ j # i
    BY <1>1
  <2>2. t[k] = s[j]
    BY <1>3
  <2> QED BY <2>1, <2>2
<1>5. ASSUME NEW j \in 1 .. n, j # i PROVE \E k \in 1 .. n - 1 : t[k] = s[j]
  <2>1. CASE j < i
    <3>1. j \in 1 .. n - 1
      BY <1>1, <2>1
    <3> QED BY <1>3, <2>1, <3>1
  <2>2. CASE i < j
    <3>1. j - 1 \in 1 .. n - 1 /\ ~(j - 1 < i) /\ (j - 1) + 1 = j
      BY <1>1, <2>2
    <3> QED BY <1>3, <3>1
  <2> QED BY <1>1, <1>5, <2>1, <2>2
<1> QED BY <1>2, <1>4, <1>5

\* Removing a buffer takes its rows out and duplicates no other.
LEMMA PlacesWithout ==
  ASSUME NEW S, NEW s \in Seq(S), NEW t \in Seq(S), NEW i \in 1 .. Len(s), Without(s, i, t), NEW x
  PROVE  /\ Once(s, x) => Once(t, x)
         /\ Has(t, x) => Has(s, x)
         /\ Has(s, x) /\ x \notin s[i].rows => Has(t, x)
         /\ Once(s, x) /\ x \in s[i].rows => ~Has(t, x)
<1>1. /\ \A k \in DOMAIN t : \E j \in DOMAIN s :
           j # i /\ t[k] = s[j] /\ j = IF k < i THEN k ELSE k + 1
      /\ \A j \in DOMAIN s : j # i => \E k \in DOMAIN t : t[k] = s[j]
  BY FoundWithout
<1>2. i \in DOMAIN s /\ i \in Nat /\ DOMAIN s \subseteq Nat /\ DOMAIN t \subseteq Nat
  OBVIOUS
<1>3. ASSUME Once(s, x), NEW k \in DOMAIN t, NEW l \in DOMAIN t, x \in t[k].rows, x \in t[l].rows
      PROVE  k = l
  <2>1. PICK j \in DOMAIN s : t[k] = s[j] /\ j = IF k < i THEN k ELSE k + 1
    BY <1>1
  <2>2. PICK m \in DOMAIN s : t[l] = s[m] /\ m = IF l < i THEN l ELSE l + 1
    BY <1>1
  <2>3. j = m
    BY <1>3, <2>1, <2>2 DEF Once
  <2>4. k \in Nat /\ l \in Nat /\ i \in Nat
    BY <1>2
  <2> QED BY <2>1, <2>2, <2>3, <2>4
<1>4. Once(s, x) => Once(t, x)
  BY <1>3 DEF Once
<1>5. Has(t, x) => Has(s, x)
  BY <1>1 DEF Has
<1>6. Has(s, x) /\ x \notin s[i].rows => Has(t, x)
  BY <1>1 DEF Has
<1>7. Once(s, x) /\ x \in s[i].rows => ~Has(t, x)
  BY <1>1, <1>2 DEF Has, Once
<1> QED BY <1>4, <1>5, <1>6, <1>7

\* Adding a buffer of rows that are nowhere else puts each in one place.
LEMMA PlacesWith ==
  ASSUME NEW S, NEW s \in Seq(S), NEW t \in Seq(S), NEW e, NEW i \in 1 .. Len(s) + 1,
         With(s, i, e, t), NEW x
  PROVE  /\ Has(t, x) <=> Has(s, x) \/ x \in e.rows
         /\ Once(s, x) /\ ~(Has(s, x) /\ x \in e.rows) => Once(t, x)
<1>1. PICK n \in Nat : n = Len(s)
  OBVIOUS
<1>2. DOMAIN s = 1 .. n /\ DOMAIN t = 1 .. n + 1 /\ i \in 1 .. n + 1
  BY <1>1 DEF With
<1>3. \A k \in 1 .. n + 1 : t[k] = IF k < i THEN s[k] ELSE IF k = i THEN e ELSE s[k - 1]
  BY <1>1 DEF With
<1>4. ASSUME NEW k \in 1 .. n + 1, k # i
      PROVE  \E j \in 1 .. n : t[k] = s[j] /\ j = IF k < i THEN k ELSE k - 1
  <2> DEFINE j == IF k < i THEN k ELSE k - 1
  <2>1. j \in 1 .. n /\ t[k] = s[j]
    BY <1>2, <1>3, <1>4
  <2> QED BY <2>1
<1>5. ASSUME NEW j \in 1 .. n PROVE \E k \in 1 .. n + 1 : k # i /\ t[k] = s[j]
  <2>1. CASE j < i
    <3>1. j \in 1 .. n + 1 /\ j # i
      BY <1>2, <2>1
    <3> QED BY <1>3, <2>1, <3>1
  <2>2. CASE i <= j
    <3>1. j + 1 \in 1 .. n + 1 /\ ~(j + 1 < i) /\ j + 1 # i /\ (j + 1) - 1 = j
      BY <1>2, <2>2
    <3> QED BY <1>3, <3>1
  <2> QED BY <1>2, <2>1, <2>2
<1>6. i \in 1 .. n + 1 /\ t[i] = e
  BY <1>2, <1>3
<1>7. Has(t, x) <=> Has(s, x) \/ x \in e.rows
  <2>1. ASSUME NEW k \in 1 .. n + 1, x \in t[k].rows PROVE Has(s, x) \/ x \in e.rows
    <3>1. CASE k = i
      BY <1>6, <2>1, <3>1
    <3>2. CASE k # i
      <4>1. PICK j \in 1 .. n : t[k] = s[j]
        BY <1>4, <3>2
      <4> QED BY <1>2, <2>1, <4>1 DEF Has
    <3> QED BY <3>1, <3>2
  <2>2. ASSUME NEW j \in 1 .. n, x \in s[j].rows PROVE Has(t, x)
    BY <1>2, <1>5, <2>2 DEF Has
  <2>3. x \in e.rows => Has(t, x)
    BY <1>2, <1>6 DEF Has
  <2> QED BY <1>2, <2>1, <2>2, <2>3 DEF Has
<1>8. ASSUME Once(s, x), ~(Has(s, x) /\ x \in e.rows),
             NEW k \in 1 .. n + 1, NEW l \in 1 .. n + 1, x \in t[k].rows, x \in t[l].rows
      PROVE  k = l
  <2>1. ASSUME NEW m \in 1 .. n + 1, x \in t[m].rows, m # i PROVE Has(s, x)
    BY <1>2, <1>4, <2>1 DEF Has
  <2>2. CASE x \in e.rows
    BY <1>8, <2>1, <2>2
  <2>3. CASE x \notin e.rows
    <3>1. k # i /\ l # i
      BY <1>6, <1>8, <2>3
    <3>2. PICK j \in 1 .. n : t[k] = s[j] /\ j = IF k < i THEN k ELSE k - 1
      BY <1>4, <3>1
    <3>3. PICK m \in 1 .. n : t[l] = s[m] /\ m = IF l < i THEN l ELSE l - 1
      BY <1>4, <3>1
    <3>4. j = m
      BY <1>2, <1>8, <3>2, <3>3 DEF Once
    <3>5. k \in Nat /\ l \in Nat /\ i \in Nat
      BY <1>2
    <3> QED BY <3>1, <3>2, <3>3, <3>4, <3>5
  <2> QED BY <2>2, <2>3
<1>9. Once(s, x) /\ ~(Has(s, x) /\ x \in e.rows) => Once(t, x)
  BY <1>2, <1>8 DEF Once
<1> QED BY <1>7, <1>9

(* The four ways a list of buffers changes.                                *)
LEMMA Changes ==
  ASSUME NEW S, NEW s \in Seq(S)
  PROVE  /\ \A i \in 1 .. Len(s) : RemoveAt(s, i) \in Seq(S) /\ Without(s, i, RemoveAt(s, i))
         /\ \A i \in 1 .. Len(s) + 1 : \A e \in S :
              InsertAt(s, i, e) \in Seq(S) /\ With(s, i, e, InsertAt(s, i, e))
         /\ \A e \in S : Append(s, e) \in Seq(S) /\ With(s, Len(s) + 1, e, Append(s, e))
         /\ s # <<>> => Tail(s) \in Seq(S) /\ Without(s, 1, Tail(s)) /\ 1 \in 1 .. Len(s)
<1>1. ASSUME NEW i \in 1 .. Len(s)
      PROVE  RemoveAt(s, i) \in Seq(S) /\ Without(s, i, RemoveAt(s, i))
  BY Removed DEF Without
<1>2. ASSUME NEW i \in 1 .. Len(s) + 1, NEW e \in S
      PROVE  InsertAt(s, i, e) \in Seq(S) /\ With(s, i, e, InsertAt(s, i, e))
  <2>1. /\ InsertAt(s, i, e) \in Seq(S)
        /\ Len(InsertAt(s, i, e)) = Len(s) + 1
        /\ \A k \in 1 .. Len(s) + 1 :
             InsertAt(s, i, e)[k] = IF k < i THEN s[k] ELSE IF k = i THEN e ELSE s[k - 1]
    BY Inserted
  <2> QED BY <2>1 DEF With
<1>3. ASSUME NEW e \in S
      PROVE  Append(s, e) \in Seq(S) /\ With(s, Len(s) + 1, e, Append(s, e))
  <2>1. PICK n \in Nat : n = Len(s)
    OBVIOUS
  <2>2. /\ Append(s, e) \in Seq(S) /\ Len(Append(s, e)) = n + 1
        /\ \A k \in 1 .. n : Append(s, e)[k] = s[k]
        /\ Append(s, e)[n + 1] = e
    BY <2>1, Appended
  <2>3. \A k \in 1 .. n + 1 : (k < n + 1 => k \in 1 .. n) /\ (k < n + 1 \/ k = n + 1)
    BY <2>1
  <2> QED BY <2>1, <2>2, <2>3 DEF With
<1>4. ASSUME s # <<>>
      PROVE  Tail(s) \in Seq(S) /\ Without(s, 1, Tail(s)) /\ 1 \in 1 .. Len(s)
  <2>1. PICK n \in Nat : n = Len(s)
    OBVIOUS
  <2>2. /\ Tail(s) \in Seq(S) /\ Len(Tail(s)) = n - 1 /\ n >= 1
        /\ \A k \in 1 .. n - 1 : Tail(s)[k] = s[k + 1]
    BY <1>4, <2>1, Beheaded
  <2>3. \A k \in 1 .. n - 1 : ~(k < 1)
    OBVIOUS
  <2> QED BY <2>1, <2>2, <2>3 DEF Without
<1> QED BY <1>1, <1>2, <1>3, <1>4

-----------------------------------------------------------------------------
(* Rows and buffers. *)

LEMMA RowsKnown ==
  ASSUME cfg \in Configurations
  PROVE  /\ \A d \in Datasets : Held(d) \in Nat
         /\ \A r \in Rows : /\ r[1] \in Datasets /\ r[2] \in 1 .. Held(r[1])
                            /\ r = <<r[1], r[2]>>
                            /\ Row(r).tokens \in 1 .. MaxTokens /\ Row(r).images \in 0 .. MaxImages
         /\ \A d \in Datasets : \A i \in 1 .. Held(d) : <<d, i>> \in Rows
<1>1. /\ cfg.rows \in [Datasets -> Seq([tokens : 1 .. MaxTokens, images : 0 .. MaxImages])]
  BY PackedAssumption
<1>2. \A d \in Datasets : Held(d) \in Nat
  BY <1>1 DEF Held
<1>3. ASSUME NEW r \in Rows
      PROVE  /\ r[1] \in Datasets /\ r[2] \in 1 .. Held(r[1]) /\ r = <<r[1], r[2]>>
             /\ Row(r).tokens \in 1 .. MaxTokens /\ Row(r).images \in 0 .. MaxImages
  <2>1. PICK d \in Datasets : r \in {d} \X (1 .. Held(d))
    BY DEF Rows
  <2>2. r[1] = d /\ r[2] \in 1 .. Held(d) /\ r = <<r[1], r[2]>>
    BY <2>1
  <2>3. cfg.rows[d][r[2]] \in [tokens : 1 .. MaxTokens, images : 0 .. MaxImages]
    <3> DEFINE s == cfg.rows[d]
               T == [tokens : 1 .. MaxTokens, images : 0 .. MaxImages]
    <3>1. s \in Seq(T)
      BY <1>1
    <3>2. r[2] \in 1 .. Len(s)
      BY <2>1 DEF Held
    <3> HIDE DEF s, T
    <3>3. s[r[2]] \in T
      BY <3>1, <3>2
    <3> QED BY <3>3 DEF s, T
  <2> QED BY <2>2, <2>3 DEF Row
<1>4. ASSUME NEW d \in Datasets, NEW i \in 1 .. Held(d) PROVE <<d, i>> \in Rows
  <2>1. <<d, i>> \in {d} \X (1 .. Held(d))
    OBVIOUS
  <2> QED BY <2>1 DEF Rows
<1> QED BY <1>2, <1>3, <1>4

\* The rows of the shard depend on the configuration only.
LEMMA RowsStay ==
  ASSUME cfg' = cfg
  PROVE  Rows' = Rows /\ Buffer' = Buffer /\ \A d : Held(d)' = Held(d)
<1>1. \A d : Held(d)' = Held(d)
  BY DEF Held
<1>2. Rows' = Rows
  BY <1>1 DEF Rows
<1> QED BY <1>1, <1>2 DEF Buffer

\* Removing a buffer leaves the others in order.
LEMMA SortedWithout ==
  ASSUME NEW s \in Seq(Buffer), NEW t \in Seq(Buffer), NEW i \in 1 .. Len(s), Without(s, i, t),
         Sorted(s)
  PROVE  Sorted(t)
<1>1. /\ \A k \in DOMAIN t : \E j \in DOMAIN s :
           j # i /\ t[k] = s[j] /\ j = IF k < i THEN k ELSE k + 1
  BY FoundWithout
<1>2. ASSUME NEW k \in DOMAIN t, NEW l \in DOMAIN t, k < l PROVE t[l].images <= t[k].images
  <2>1. PICK j \in DOMAIN s : t[k] = s[j] /\ j = IF k < i THEN k ELSE k + 1
    BY <1>1
  <2>2. PICK m \in DOMAIN s : t[l] = s[m] /\ m = IF l < i THEN l ELSE l + 1
    BY <1>1
  <2>3. k \in Nat /\ l \in Nat /\ i \in Nat
    OBVIOUS
  <2>4. j < m
    BY <1>2, <2>1, <2>2, <2>3
  <2> QED BY <2>1, <2>2, <2>4 DEF Sorted
<1> QED BY <1>2 DEF Sorted

(* A buffer goes before the first with fewer images.                       *)
LEMMA InsertSteps ==
  ASSUME NEW s \in Seq(Buffer), NEW b \in Buffer, Sorted(s)
  PROVE  /\ \E p \in 1 .. Len(s) + 1 : Insert(s, b) = InsertAt(s, p, b)
         /\ Sorted(Insert(s, b))
<1> DEFINE fewer == {i \in DOMAIN s : s[i].images < b.images}
           p == IF fewer = {} THEN Len(s) + 1 ELSE Lowest(fewer)
           t == InsertAt(s, p, b)
<1>1. PICK n \in Nat : n = Len(s)
  OBVIOUS
<1>2. DOMAIN s = 1 .. n /\ \A i \in 1 .. n : s[i].images \in Nat
  <2>1. DOMAIN s = 1 .. n
    BY <1>1
  <2>2. ASSUME NEW i \in 1 .. n PROVE s[i].images \in Nat
    <3>1. s[i] \in Buffer
      BY <1>1
    <3> QED BY <3>1 DEF Buffer
  <2> QED BY <2>1, <2>2
<1>3. b.images \in Nat
  BY DEF Buffer
<1>4. /\ p \in 1 .. n + 1
      /\ \A i \in 1 .. n : i < p => b.images <= s[i].images
      /\ \A i \in 1 .. n : p <= i => s[i].images <= b.images
  <2>1. CASE fewer = {}
    <3>1. p = n + 1
      BY <1>1, <2>1
    <3>2. \A i \in 1 .. n : ~(s[i].images < b.images)
      BY <1>2, <2>1
    <3> QED BY <1>2, <1>3, <3>1, <3>2
  <2>2. CASE fewer # {}
    <3>1. fewer \in SUBSET Nat /\ p = Lowest(fewer)
      BY <1>2, <2>2
    <3>2. p \in fewer /\ \A j \in fewer : p <= j
      BY <2>2, <3>1, LowestIsLeast
    <3>3. p \in 1 .. n /\ s[p].images < b.images
      BY <1>2, <3>2
    <3> HIDE DEF p
    <3>4. ASSUME NEW i \in 1 .. n, i < p PROVE b.images <= s[i].images
      <4>1. i \notin fewer
        <5>1. ~(p <= i)
          BY <3>3, <3>4
        <5> QED BY <3>2, <5>1
      <4>2. ~(s[i].images < b.images)
        BY <1>2, <4>1
      <4> QED BY <1>2, <1>3, <4>2
    <3> HIDE DEF fewer
    <3>5. ASSUME NEW i \in 1 .. n, p <= i PROVE s[i].images <= b.images
      <4>1. s[p].images \in Nat /\ s[i].images \in Nat
        BY <1>2, <3>3
      <4>2. CASE i = p
        BY <1>3, <3>3, <4>1, <4>2
      <4>3. CASE p < i
        <5>1. s[i].images <= s[p].images
          BY <1>2, <3>3, <4>3 DEF Sorted
        <5> QED BY <1>3, <3>3, <4>1, <5>1
      <4> QED BY <3>3, <3>5, <4>2, <4>3
    <3> QED BY <3>3, <3>4, <3>5
  <2> QED BY <2>1, <2>2
<1>5. Insert(s, b) = t
  BY DEF Insert
<1> HIDE DEF p
<1>6. t \in Seq(Buffer) /\ With(s, p, b, t)
  BY <1>1, <1>4, Changes
<1> HIDE DEF t, fewer
<1>7. DOMAIN t = 1 .. n + 1
      /\ \A k \in 1 .. n + 1 : t[k] = IF k < p THEN s[k] ELSE IF k = p THEN b ELSE s[k - 1]
  BY <1>1, <1>6 DEF With
<1>8. ASSUME NEW k \in 1 .. n + 1, NEW l \in 1 .. n + 1, k < l PROVE t[l].images <= t[k].images
  <2>1. CASE l < p
    <3>1. k \in 1 .. n /\ l \in 1 .. n /\ t[k] = s[k] /\ t[l] = s[l]
      BY <1>4, <1>7, <1>8, <2>1
    <3> QED BY <1>2, <1>8, <3>1 DEF Sorted
  <2>2. CASE l = p
    <3>1. k \in 1 .. n /\ t[k] = s[k] /\ t[l] = b /\ k < p
      BY <1>4, <1>7, <1>8, <2>2
    <3> QED BY <1>4, <3>1
  <2>3. CASE p < l
    <3>1. l - 1 \in 1 .. n /\ p <= l - 1 /\ t[l] = s[l - 1]
      BY <1>4, <1>7, <2>3
    <3>2. CASE k < p
      <4>1. k \in 1 .. n /\ t[k] = s[k] /\ k < l - 1
        BY <1>4, <1>7, <2>3, <3>2
      <4> QED BY <1>2, <3>1, <4>1 DEF Sorted
    <3>3. CASE k = p
      BY <1>4, <1>7, <3>1, <3>3
    <3>4. CASE p < k
      <4>1. k - 1 \in 1 .. n /\ t[k] = s[k - 1] /\ k - 1 < l - 1
        BY <1>4, <1>7, <1>8, <3>4
      <4> QED BY <1>2, <3>1, <4>1 DEF Sorted
    <3> QED BY <1>4, <3>2, <3>3, <3>4
  <2> QED BY <1>4, <2>1, <2>2, <2>3
<1>9. Sorted(t)
  BY <1>7, <1>8 DEF Sorted
<1> QED BY <1>1, <1>4, <1>5, <1>9 DEF t

-----------------------------------------------------------------------------
(* The buffer a row joins, and what merging does. *)

LEMMA Found ==
  ASSUME Types, NEW r \in Rows
  PROVE  /\ FindBuffer(r) \in 0 .. Len(buffers)
         /\ FindBuffer(r) # 0 => HasSlots(buffers[FindBuffer(r)], r)
<1> DEFINE tightest ==
             {i \in Fitting(r) : \A j \in Fitting(r) : buffers[i].tokens >= buffers[j].tokens}
<1>1. /\ Fitting(r) \subseteq DOMAIN buffers /\ Overflowing(r) \subseteq DOMAIN buffers
      /\ \A i \in Fitting(r) \union Overflowing(r) : HasSlots(buffers[i], r)
  BY DEF Fitting, Overflowing
<1>2. DOMAIN buffers = 1 .. Len(buffers) /\ Len(buffers) \in Nat
  BY DEF Types
<1>3. CASE tightest # {}
  <2>1. tightest \in SUBSET Nat /\ tightest \subseteq Fitting(r)
    BY <1>1, <1>2
  <2>2. Lowest(tightest) \in tightest
    BY <1>3, <2>1, LowestIsLeast
  <2>3. FindBuffer(r) = Lowest(tightest)
    BY <1>3 DEF FindBuffer
  <2> HIDE DEF tightest
  <2>4. FindBuffer(r) \in Fitting(r)
    BY <2>1, <2>2, <2>3
  <2>5. FindBuffer(r) \in 1 .. Len(buffers)
    BY <1>1, <1>2, <2>4
  <2> QED BY <1>1, <1>2, <2>4, <2>5
<1>4. CASE tightest = {} /\ Overflowing(r) # {}
  <2>1. Overflowing(r) \in SUBSET Nat
    BY <1>1, <1>2
  <2>2. Lowest(Overflowing(r)) \in Overflowing(r)
    BY <1>4, <2>1, LowestIsLeast
  <2>3. FindBuffer(r) = Lowest(Overflowing(r))
    BY <1>4 DEF FindBuffer
  <2> QED BY <1>1, <1>2, <2>2, <2>3
<1>5. CASE tightest = {} /\ Overflowing(r) = {}
  <2>1. FindBuffer(r) = 0
    BY <1>5 DEF FindBuffer
  <2> QED BY <1>2, <2>1
<1> QED BY <1>3, <1>4, <1>5

(* A buffer that is not empty of room takes the row; every other row stays  *)
(* where it is.                                                             *)
LEMMA MergeSteps ==
  ASSUME Types, Budget, NEW r \in Rows, Merge(r)
  PROVE  /\ stage' \in {"pack", "failed"}
         /\ buffers' \in Seq(Buffer) /\ full' \in Seq(Buffer)
         /\ \A i \in DOMAIN buffers' : Within(buffers'[i])
         /\ \A i \in DOMAIN full' : Within(full'[i])
         /\ Sorted(buffers')
         /\ stage' = "pack" =>
              \A x : /\ x # r => (Kept(buffers', full', x) <=> Kept(buffers, full, x))
                     /\ x # r /\ KeptOnce(buffers, full, x) => KeptOnce(buffers', full', x)
                     /\ x = r /\ ~Kept(buffers, full, x) =>
                          KeptOnce(buffers', full', x) /\ Kept(buffers', full', x)
<1> DEFINE i == FindBuffer(r)
           rest == IF i = 0 THEN buffers ELSE RemoveAt(buffers, i)
           merged ==
             IF i = 0
             THEN [rows |-> {r}, tokens |-> Row(r).tokens, images |-> Row(r).images, age |-> 0]
             ELSE [buffers[i] EXCEPT !.rows = @ \union {r}, !.tokens = @ + Row(r).tokens,
                                     !.images = @ + Row(r).images]
<1>1. buffers \in Seq(Buffer) /\ full \in Seq(Buffer) /\ DOMAIN buffers = 1 .. Len(buffers)
  BY DEF Types
<1>2. i \in 0 .. Len(buffers) /\ (i # 0 => HasSlots(buffers[i], r))
  BY Found
<1>3. Row(r).tokens \in Nat /\ Row(r).images \in Nat /\ Row(r).images <= MaxImages
  <2>1. Row(r).tokens \in 1 .. MaxTokens /\ Row(r).images \in 0 .. MaxImages
    BY RowsKnown DEF Types
  <2>2. MaxTokens \in Nat /\ MaxImages \in Nat
    BY PackedAssumption
  <2> QED BY <2>1, <2>2
<1>4. /\ stage' = IF merged.tokens > MaxTokens THEN "failed" ELSE "pack"
      /\ merged.tokens > MaxTokens => buffers' = rest /\ full' = full
      /\ merged.tokens = MaxTokens => full' = Append(full, merged) /\ buffers' = rest
      /\ ~(merged.tokens > MaxTokens) /\ merged.tokens # MaxTokens =>
           buffers' = Insert(rest, merged) /\ full' = full
  <2>1. MaxTokens \in Nat
    BY PackedAssumption
  <2> QED BY <2>1 DEF Merge
<1> HIDE DEF i
<1>5. i # 0 => /\ i \in 1 .. Len(buffers) /\ buffers[i] \in Buffer
               /\ rest \in Seq(Buffer) /\ Without(buffers, i, rest)
  BY <1>1, <1>2, Changes
<1>6. rest \in Seq(Buffer) /\ Sorted(rest)
  <2>1. Sorted(buffers)
    BY DEF Budget
  <2>2. CASE i # 0
    BY <1>1, <1>5, <2>1, <2>2, SortedWithout
  <2> QED BY <1>1, <2>1, <2>2
<1>7. \A k \in DOMAIN rest : Within(rest[k])
  <2>1. CASE i # 0
    <3> HIDE DEF rest
    <3>1. \A k \in DOMAIN rest : \E j \in DOMAIN buffers :
            j # i /\ rest[k] = buffers[j] /\ j = IF k < i THEN k ELSE k + 1
      BY <1>1, <1>5, <2>1, FoundWithout
    <3> QED BY <3>1 DEF Budget
  <2>2. CASE i = 0
    BY <2>2 DEF Budget
  <2> QED BY <2>1, <2>2
<1>8. /\ merged \in Buffer
      /\ merged.images <= MaxImages
      /\ merged.rows = (IF i = 0 THEN {} ELSE buffers[i].rows) \union {r}
  <2>1. CASE i = 0
    BY <1>3, <2>1 DEF Buffer
  <2>2. CASE i # 0
    <3>1. buffers[i] \in [rows : SUBSET Rows, tokens : Nat, images : Nat, age : Nat]
      BY <1>5, <2>2 DEF Buffer
    <3>2. buffers[i].images + Row(r).images <= MaxImages
      BY <1>2, <2>2 DEF HasSlots
    <3>3. merged = [buffers[i] EXCEPT !.rows = @ \union {r}, !.tokens = @ + Row(r).tokens,
                                      !.images = @ + Row(r).images]
      BY <2>2
    <3> HIDE DEF merged
    <3>4. merged = [rows |-> buffers[i].rows \union {r}, tokens |-> buffers[i].tokens + Row(r).tokens,
                    images |-> buffers[i].images + Row(r).images, age |-> buffers[i].age]
      BY <3>1, <3>3
    <3>5. /\ buffers[i].rows \union {r} \in SUBSET Rows
          /\ buffers[i].tokens + Row(r).tokens \in Nat
          /\ buffers[i].images + Row(r).images \in Nat /\ buffers[i].age \in Nat
      BY <1>3, <3>1
    <3>6. merged \in Buffer
      BY <3>4, <3>5 DEF Buffer
    <3> QED BY <2>2, <3>2, <3>4, <3>6
  <2> QED BY <2>1, <2>2
<1> HIDE DEF merged
<1>9. ASSUME NEW x, x # r
       PROVE  /\ Has(buffers, x) <=> Has(rest, x) \/ x \in merged.rows
              /\ Once(buffers, x) => Once(rest, x) /\ ~(Has(rest, x) /\ x \in merged.rows)
  <2>1. CASE i = 0
    BY <1>8, <1>9, <2>1
  <2>2. CASE i # 0
    <3>1. /\ Once(buffers, x) => Once(rest, x)
          /\ Has(rest, x) => Has(buffers, x)
          /\ Has(buffers, x) /\ x \notin buffers[i].rows => Has(rest, x)
          /\ Once(buffers, x) /\ x \in buffers[i].rows => ~Has(rest, x)
      BY <1>1, <1>5, <2>2, PlacesWithout
    <3>2. x \in merged.rows <=> x \in buffers[i].rows
      BY <1>8, <1>9, <2>2
    <3>3. x \in buffers[i].rows => Has(buffers, x)
      BY <1>1, <1>5, <2>2 DEF Has
    <3> QED BY <3>1, <3>2, <3>3
  <2> QED BY <2>1, <2>2
<1>10. /\ r \in merged.rows
       /\ ~Has(buffers, r) => ~Has(rest, r) /\ Once(rest, r)
  <2>1. r \in merged.rows
    BY <1>8
  <2>2. ~Has(buffers, r) => ~Has(rest, r)
    <3>1. CASE i # 0
      BY <1>1, <1>5, <3>1, PlacesWithout
    <3> QED BY <3>1
  <2>3. ~Has(rest, r) => Once(rest, r)
    BY DEF Has, Once
  <2> QED BY <2>1, <2>2, <2>3
<1> HIDE DEF rest
<1>11. CASE merged.tokens > MaxTokens
  BY <1>1, <1>4, <1>6, <1>7, <1>11 DEF Budget
<1>12. CASE merged.tokens = MaxTokens
  <2>1. full' = Append(full, merged) /\ buffers' = rest /\ stage' = "pack"
    <3>1. ~(merged.tokens > MaxTokens)
      BY <1>12, PackedAssumption
    <3> QED BY <1>4, <1>12, <3>1
  <2>2. full' \in Seq(Buffer) /\ With(full, Len(full) + 1, merged, full')
    BY <1>1, <1>8, <2>1, Changes
  <2>3. Len(full) + 1 \in 1 .. Len(full) + 1
    BY <1>1
  <2>4. ASSUME NEW x
        PROVE  /\ Has(full', x) <=> Has(full, x) \/ x \in merged.rows
               /\ Once(full, x) /\ ~(Has(full, x) /\ x \in merged.rows) => Once(full', x)
    BY <1>1, <2>2, <2>3, PlacesWith
  <2>5. Within(merged)
    BY <1>8, <1>12, PackedAssumption DEF Within
  <2>6. \A k \in DOMAIN full' : Within(full'[k])
    <3>1. ASSUME NEW k \in DOMAIN full' PROVE full'[k] = merged \/ \E j \in DOMAIN full : full'[k] = full[j]
      <4>1. PICK n \in Nat : n = Len(full)
        BY <1>1
      <4>2. k \in 1 .. n + 1 /\ DOMAIN full = 1 .. n
        BY <1>1, <2>2, <4>1 DEF With
      <4>3. full'[k] = IF k < n + 1 THEN full[k] ELSE merged
        BY <2>2, <4>1, <4>2 DEF With
      <4> QED BY <4>2, <4>3
    <3> QED BY <2>5, <3>1 DEF Budget
  <2>7. ASSUME NEW x
        PROVE  /\ x # r => (Kept(buffers', full', x) <=> Kept(buffers, full, x))
               /\ x # r /\ KeptOnce(buffers, full, x) => KeptOnce(buffers', full', x)
               /\ x = r /\ ~Kept(buffers, full, x) =>
                    KeptOnce(buffers', full', x) /\ Kept(buffers', full', x)
    <3>1. x # r => (Kept(buffers', full', x) <=> Kept(buffers, full, x))
      BY <1>9, <2>1, <2>4 DEF Kept
    <3>2. x # r /\ KeptOnce(buffers, full, x) => KeptOnce(buffers', full', x)
      BY <1>9, <2>1, <2>4 DEF KeptOnce
    <3>3. x = r /\ ~Kept(buffers, full, x) => KeptOnce(buffers', full', x) /\ Kept(buffers', full', x)
      <4>1. ~Has(full, r) => Once(full, r)
        BY DEF Has, Once
      <4> QED BY <1>10, <2>1, <2>4, <4>1 DEF KeptOnce, Kept
    <3> QED BY <3>1, <3>2, <3>3
  <2> QED BY <1>6, <1>7, <2>1, <2>2, <2>6, <2>7
<1>13. CASE ~(merged.tokens > MaxTokens) /\ merged.tokens # MaxTokens
  <2>1. buffers' = Insert(rest, merged) /\ full' = full /\ stage' = "pack"
    BY <1>4, <1>13
  <2>2. PICK p \in 1 .. Len(rest) + 1 : Insert(rest, merged) = InsertAt(rest, p, merged)
    BY <1>6, <1>8, InsertSteps
  <2>3. Sorted(buffers')
    BY <1>6, <1>8, <2>1, InsertSteps
  <2>4. buffers' \in Seq(Buffer) /\ With(rest, p, merged, buffers')
    BY <1>6, <1>8, <2>1, <2>2, Changes
  <2>5. ASSUME NEW x
        PROVE  /\ Has(buffers', x) <=> Has(rest, x) \/ x \in merged.rows
               /\ Once(rest, x) /\ ~(Has(rest, x) /\ x \in merged.rows) => Once(buffers', x)
    BY <1>6, <2>2, <2>4, PlacesWith
  <2>6. Within(merged)
    <3>1. merged.tokens \in Nat
      BY <1>8 DEF Buffer
    <3> QED BY <1>8, <1>13, <3>1, PackedAssumption DEF Within
  <2>7. \A k \in DOMAIN buffers' : Within(buffers'[k])
    <3>1. ASSUME NEW k \in DOMAIN buffers'
          PROVE  buffers'[k] = merged \/ \E j \in DOMAIN rest : buffers'[k] = rest[j]
      <4>1. PICK n \in Nat : n = Len(rest)
        BY <1>6
      <4>2. k \in 1 .. n + 1 /\ DOMAIN rest = 1 .. n /\ p \in 1 .. n + 1
        BY <1>6, <2>2, <2>4, <4>1 DEF With
      <4>3. buffers'[k] = IF k < p THEN rest[k] ELSE IF k = p THEN merged ELSE rest[k - 1]
        BY <2>4, <4>1, <4>2 DEF With
      <4>4. CASE k < p
        <5>1. k \in 1 .. n
          BY <4>2, <4>4
        <5> QED BY <4>2, <4>3, <4>4, <5>1
      <4>5. CASE p < k
        <5>1. k - 1 \in 1 .. n /\ ~(k < p) /\ k # p
          BY <4>2, <4>5
        <5> QED BY <4>2, <4>3, <5>1
      <4> QED BY <4>2, <4>3, <4>4, <4>5
    <3> QED BY <1>7, <2>6, <3>1
  <2>8. ASSUME NEW x
        PROVE  /\ x # r => (Kept(buffers', full', x) <=> Kept(buffers, full, x))
               /\ x # r /\ KeptOnce(buffers, full, x) => KeptOnce(buffers', full', x)
               /\ x = r /\ ~Kept(buffers, full, x) =>
                    KeptOnce(buffers', full', x) /\ Kept(buffers', full', x)
    <3>1. x # r => (Kept(buffers', full', x) <=> Kept(buffers, full, x))
      BY <1>9, <2>1, <2>5 DEF Kept
    <3>2. x # r /\ KeptOnce(buffers, full, x) => KeptOnce(buffers', full', x)
      BY <1>9, <2>1, <2>5 DEF KeptOnce
    <3>3. x = r /\ ~Kept(buffers, full, x) => KeptOnce(buffers', full', x) /\ Kept(buffers', full', x)
      <4>1. ~Has(full, r) => Once(full, r)
        BY DEF Has, Once
      <4> QED BY <1>10, <2>1, <2>5, <4>1 DEF KeptOnce, Kept
    <3> QED BY <3>1, <3>2, <3>3
  <2> QED BY <2>1, <2>3, <2>4, <2>7, <2>8, <1>1 DEF Budget
<1> QED BY <1>11, <1>12, <1>13

-----------------------------------------------------------------------------
(* Which buffer is yielded. *)

LEMMA LargestExists ==
  ASSUME Types, Budget, NEW S \in SUBSET (DOMAIN buffers), S # {}
  PROVE  Largest(S) \subseteq S /\ Largest(S) # {}
<1> DEFINE f == [x \in S |-> buffers[x].tokens]
<1>1. \A x \in S : buffers[x].tokens \in Nat /\ buffers[x].tokens <= MaxTokens
  <2>1. ASSUME NEW x \in DOMAIN buffers PROVE buffers[x].tokens \in Nat
    <3>1. buffers[x] \in Buffer
      BY DEF Types
    <3> QED BY <3>1 DEF Buffer
  <2> QED BY <2>1 DEF Budget, Within
<1>2. f \in [S -> Nat] /\ MaxTokens \in Nat /\ \A x \in S : f[x] <= MaxTokens
  BY <1>1, PackedAssumption
<1> HIDE DEF f
<1>3. PICK x \in S : \A y \in S : f[y] <= f[x]
  BY <1>2, HasGreatest
<1>4. \A y \in S : buffers[x].tokens >= buffers[y].tokens
  BY <1>1, <1>3 DEF f
<1> QED BY <1>4 DEF Largest

\* Due is a position, and when it is zero no buffer is crowded out or stale.
LEMMA DueSteps ==
  ASSUME Types, Budget
  PROVE  /\ Due \in 0 .. Len(buffers)
         /\ Due = 0 /\ buffers # <<>> =>
              /\ ~Crowded(1) /\ Len(buffers) <= MaxBuffers
              /\ \A i \in DOMAIN buffers : ~IsStale(i)
<1> DEFINE near == {i \in DOMAIN buffers : NearlyFull(i)}
           stale == {i \in DOMAIN buffers : IsStale(i)}
<1>1. DOMAIN buffers = 1 .. Len(buffers) /\ Len(buffers) \in Nat
  BY DEF Types
<1>2. ASSUME NEW S \in SUBSET (DOMAIN buffers), S # {}
      PROVE  Lowest(Largest(S)) \in DOMAIN buffers /\ Highest(Largest(S)) \in DOMAIN buffers
  <2>1. Largest(S) \subseteq S /\ Largest(S) # {}
    BY <1>2, LargestExists
  <2>2. Largest(S) \in SUBSET Nat /\ Largest(S) \in SUBSET (1 .. Len(buffers))
    BY <1>1, <2>1
  <2>3. Lowest(Largest(S)) \in Largest(S)
    BY <2>1, <2>2, LowestIsLeast
  <2>4. Highest(Largest(S)) \in Largest(S)
    BY <1>1, <2>1, <2>2, HighestIsGreatest
  <2> QED BY <2>1, <2>3, <2>4
<1>3. near \in SUBSET (DOMAIN buffers) /\ stale \in SUBSET (DOMAIN buffers)
  OBVIOUS
<1>4. Due = IF buffers = <<>> THEN 0
            ELSE IF Crowded(1) THEN 1
            ELSE IF near # {} THEN Lowest(Largest(near))
            ELSE IF stale # {} THEN Highest(Largest(stale))
            ELSE IF Len(buffers) > MaxBuffers THEN Lowest(Largest(DOMAIN buffers)) ELSE 0
  BY DEF Due
<1>5. MaxBuffers \in Nat
  BY PackedAssumption
<1>6. buffers # <<>> => 1 \in DOMAIN buffers /\ DOMAIN buffers # {}
  <2>1. buffers \in Seq(Buffer)
    BY DEF Types
  <2>2. buffers # <<>> => Len(buffers) >= 1
    BY <2>1, Beheaded
  <2> QED BY <1>1, <2>2
<1>7. stale = {} => \A i \in DOMAIN buffers : ~IsStale(i)
  OBVIOUS
<1> HIDE DEF near, stale
<1>8. near # {} => Lowest(Largest(near)) \in 1 .. Len(buffers)
  BY <1>1, <1>2, <1>3
<1>9. stale # {} => Highest(Largest(stale)) \in 1 .. Len(buffers)
  BY <1>1, <1>2, <1>3
<1>10. buffers # <<>> => Lowest(Largest(DOMAIN buffers)) \in 1 .. Len(buffers)
  BY <1>1, <1>2, <1>6
<1>11. Due \in 0 .. Len(buffers)
  BY <1>1, <1>4, <1>6, <1>8, <1>9, <1>10
<1>12. ASSUME Due = 0, buffers # <<>>
       PROVE  ~Crowded(1) /\ Len(buffers) <= MaxBuffers /\ stale = {}
  BY <1>1, <1>4, <1>5, <1>6, <1>8, <1>9, <1>10, <1>12
<1> QED BY <1>7, <1>11, <1>12

(* When no buffer is due none has every image: the first has the most.      *)
LEMMA NoneCrowded ==
  ASSUME Types, Budget, buffers # <<>>, ~Crowded(1)
  PROVE  \A i \in DOMAIN buffers : ~Crowded(i)
<1>1. \A i \in DOMAIN buffers : buffers[i].images \in Nat /\ buffers[i].images <= MaxImages
  <2>1. ASSUME NEW x \in DOMAIN buffers PROVE buffers[x].images \in Nat
    <3>1. buffers[x] \in Buffer
      BY DEF Types
    <3> QED BY <3>1 DEF Buffer
  <2> QED BY <2>1 DEF Budget, Within
<1>2. DOMAIN buffers = 1 .. Len(buffers) /\ 1 \in DOMAIN buffers
  BY DEF Types
<1>3. ASSUME NEW i \in DOMAIN buffers PROVE buffers[i].images # MaxImages
  <2>1. i = 1 \/ 1 < i
    BY <1>2
  <2>2. buffers[i].images <= buffers[1].images
    BY <1>1, <1>2, <2>1 DEF Budget, Sorted
  <2>3. buffers[1].images # MaxImages
    BY DEF Crowded
  <2>4. MaxImages \in Nat
    BY PackedAssumption
  <2> QED BY <1>1, <1>2, <2>2, <2>3, <2>4
<1> QED BY <1>3 DEF Crowded

-----------------------------------------------------------------------------
(* Yielding a buffer. *)

LEMMA YieldSteps ==
  ASSUME IInv, NEW b \in Buffer, Yield(b), Within(b), stage' = stage,
         \A x : KeptOnce(buffers, full, x) =>
                  /\ KeptOnce(buffers', full', x)
                  /\ x \in b.rows => Kept(buffers, full, x) /\ ~Kept(buffers', full', x)
                  /\ x \notin b.rows => (Kept(buffers, full, x) <=> Kept(buffers', full', x))
  PROVE  /\ cfg' = cfg /\ Within(last') /\ last' \in [tokens : Nat, images : Nat]
         /\ delivered' \in [Rows -> Nat] /\ Account'
<1>1. /\ UNCHANGED <<cfg, epoch, read, positive, consumed>>
      /\ last' = [tokens |-> b.tokens, images |-> b.images]
      /\ delivered' = [r \in Rows |-> IF r \in b.rows /\ ~cfg.replacement
                                      THEN delivered[r] + 1 ELSE delivered[r]]
  BY DEF Yield, HandOver
<1>2. Rows' = Rows /\ \A d : Held(d)' = Held(d)
  BY <1>1, RowsStay
<1>3. last' \in [tokens : Nat, images : Nat] /\ Within(last')
  BY <1>1 DEF Buffer, Within
<1>4. delivered \in [Rows -> Nat]
  BY DEF IInv, Types
<1>5. delivered' \in [Rows -> Nat]
  BY <1>1, <1>4
<1>6. ASSUME Followed' PROVE Exhausted' /\ \A r \in Rows : Placed(r)'
  <2>1. Followed /\ ~cfg.replacement
    BY <1>1, <1>6 DEF Followed
  <2>2. Exhausted /\ \A r \in Rows : Placed(r)
    BY <2>1 DEF IInv, Account
  <2>3. Exhausted'
    BY <1>1, <1>2, <2>2 DEF Exhausted, Spent, Counted
  <2>4. ASSUME NEW r \in Rows PROVE Placed(r)'
    <3>1. Placed(r) /\ KeptOnce(buffers, full, r)
      BY <2>2 DEF Placed
    <3>2. /\ KeptOnce(buffers', full', r)
          /\ r \in b.rows => Kept(buffers, full, r) /\ ~Kept(buffers', full', r)
          /\ r \notin b.rows => (Kept(buffers, full, r) <=> Kept(buffers', full', r))
      BY <3>1
    <3>3. delivered'[r] = IF r \in b.rows THEN delivered[r] + 1 ELSE delivered[r]
      BY <1>1, <2>1
    <3>4. delivered[r] \in Nat
      BY <1>4
    <3>5. read[r[1]] \in Nat /\ r[2] \in Nat
      BY RowsKnown DEF IInv, Types
    <3>6. read' = read
      BY <1>1
    <3> QED BY <3>1, <3>2, <3>3, <3>4, <3>5, <3>6 DEF Placed
  <2> QED BY <2>3, <2>4
<1>7. Account'
  BY <1>2, <1>6 DEF Account
<1> QED BY <1>1, <1>3, <1>5, <1>7

(* A buffer leaves its list: the other rows stay where they are.            *)
LEMMA LeavesOnce ==
  ASSUME NEW s \in Seq(Buffer), NEW t \in Seq(Buffer), NEW i \in 1 .. Len(s), Without(s, i, t),
         NEW o, NEW x
  PROVE  /\ Once(s, x) /\ Once(o, x) /\ ~(Has(s, x) /\ Has(o, x)) =>
              /\ Once(t, x) /\ ~(Has(t, x) /\ Has(o, x))
              /\ x \in s[i].rows => (Has(s, x) \/ Has(o, x)) /\ ~(Has(t, x) \/ Has(o, x))
              /\ x \notin s[i].rows => ((Has(s, x) \/ Has(o, x)) <=> (Has(t, x) \/ Has(o, x)))
<1>1. /\ Once(s, x) => Once(t, x)
      /\ Has(t, x) => Has(s, x)
      /\ Has(s, x) /\ x \notin s[i].rows => Has(t, x)
      /\ Once(s, x) /\ x \in s[i].rows => ~Has(t, x)
  BY PlacesWithout
<1>2. x \in s[i].rows => Has(s, x)
  BY DEF Has
<1> QED BY <1>1, <1>2

\* Yielding one of the buffers moves its rows to the delivered ones.
LEMMA YieldFromBuffers ==
  ASSUME IInv, NEW i \in 1 .. Len(buffers), Yield(buffers[i]), Without(buffers, i, buffers'),
         buffers' \in Seq(Buffer), full' = full, stage' = stage
  PROVE  /\ cfg' = cfg /\ Within(last') /\ last' \in [tokens : Nat, images : Nat]
         /\ delivered' \in [Rows -> Nat] /\ Account'
         /\ \A k \in DOMAIN buffers' : \E j \in DOMAIN buffers : buffers'[k] = buffers[j]
         /\ Sorted(buffers')
<1>1. buffers \in Seq(Buffer) /\ buffers[i] \in Buffer
  BY DEF IInv, Types
<1>2. Within(buffers[i]) /\ Sorted(buffers)
  BY <1>1 DEF IInv, Budget
<1>3. ASSUME NEW x, KeptOnce(buffers, full, x)
      PROVE  /\ KeptOnce(buffers', full', x)
             /\ x \in buffers[i].rows => Kept(buffers, full, x) /\ ~Kept(buffers', full', x)
             /\ x \notin buffers[i].rows => (Kept(buffers, full, x) <=> Kept(buffers', full', x))
  <2>1. /\ Once(buffers, x) /\ Once(full, x) /\ ~(Has(buffers, x) /\ Has(full, x)) =>
              /\ Once(buffers', x) /\ ~(Has(buffers', x) /\ Has(full, x))
              /\ x \in buffers[i].rows =>
                   (Has(buffers, x) \/ Has(full, x)) /\ ~(Has(buffers', x) \/ Has(full, x))
              /\ x \notin buffers[i].rows =>
                   ((Has(buffers, x) \/ Has(full, x)) <=> (Has(buffers', x) \/ Has(full, x)))
    BY <1>1, LeavesOnce
  <2> QED BY <1>3, <2>1 DEF KeptOnce, Kept
<1>4. /\ cfg' = cfg /\ Within(last') /\ last' \in [tokens : Nat, images : Nat]
      /\ delivered' \in [Rows -> Nat] /\ Account'
  BY <1>1, <1>2, <1>3, YieldSteps
<1>5. \A k \in DOMAIN buffers' : \E j \in DOMAIN buffers :
        j # i /\ buffers'[k] = buffers[j] /\ j = IF k < i THEN k ELSE k + 1
  BY <1>1, FoundWithout
<1>6. Sorted(buffers')
  BY <1>1, <1>2, SortedWithout
<1> QED BY <1>4, <1>5, <1>6

-----------------------------------------------------------------------------
(* Steps. *)

LEMMA AdjustedSteps ==
  ASSUME IInv
  PROVE  /\ Adjusted \subseteq positive /\ Adjusted \subseteq Datasets
         /\ Followed => \A d \in Datasets \ Adjusted : Spent(d)
<1> DEFINE left == {d \in positive : consumed[d] < cfg.estimate[d]}
<1>1. Adjusted = left \/ Adjusted = positive
  BY DEF Adjusted
<1>2. ASSUME Followed, NEW d \in Datasets, d \notin Adjusted PROVE Spent(d)
  <2>1. Exhausted
    BY <1>2 DEF IInv, Account
  <2>2. CASE d \notin positive
    BY <2>1, <2>2 DEF Exhausted
  <2>3. CASE d \in positive
    <3>1. ~(consumed[d] < cfg.estimate[d])
      BY <1>1, <1>2, <2>3
    <3>2. consumed[d] <= cfg.estimate[d]
      BY <2>1 DEF Exhausted
    <3>3. consumed[d] \in Nat /\ cfg.estimate[d] \in Nat
      BY PackedAssumption DEF IInv, Types
    <3> QED BY <3>1, <3>2, <3>3 DEF Spent
  <2> QED BY <2>2, <2>3
<1>3. positive \subseteq Datasets
  BY DEF IInv, Types
<1> QED BY <1>1, <1>2, <1>3

(* A row is read: the next one of its shard, unless replacement starts the  *)
(* shard again.                                                             *)
LEMMA TakeSteps ==
  ASSUME IInv, NEW d \in Adjusted, Take(d), UNCHANGED <<cfg, epoch>>, stage' # "end"
  PROVE  /\ d \in Datasets /\ <<d, NextData(d)>> \in Rows
         /\ read' \in [Datasets -> Nat] /\ \A e \in Datasets : read'[e] <= Held(e)
         /\ consumed' \in [Datasets -> Nat] /\ positive' \subseteq Datasets
         /\ Followed => /\ NextData(d) = read[d] + 1 /\ Exhausted'
                        /\ read' = [read EXCEPT ![d] = read[d] + 1]
<1>1. d \in Datasets /\ d \in positive
  BY AdjustedSteps
<1>2. /\ read \in [Datasets -> Nat] /\ consumed \in [Datasets -> Nat]
      /\ \A e \in Datasets : read[e] <= Held(e) /\ Held(e) \in Nat
      /\ \A e \in Datasets : cfg.estimate[e] \in Nat
  BY RowsKnown, PackedAssumption DEF IInv, Types
<1>3. /\ NextData(d) # 0
      /\ read' = [read EXCEPT ![d] = NextData(d)]
      /\ consumed' = [consumed EXCEPT ![d] = IF @ < cfg.estimate[d] THEN @ + 1 ELSE @]
      /\ positive' = Adjusted
  BY DEF Take
<1>4. NextData(d) \in 1 .. Held(d) /\ (~cfg.replacement => NextData(d) = read[d] + 1)
  BY <1>1, <1>2, <1>3 DEF NextData
<1>5. <<d, NextData(d)>> \in Rows
  BY <1>1, <1>4, RowsKnown DEF IInv, Types
<1>6. read' \in [Datasets -> Nat] /\ \A e \in Datasets : read'[e] <= Held(e)
  BY <1>1, <1>2, <1>3, <1>4
<1>7. consumed' \in [Datasets -> Nat] /\ positive' \subseteq Datasets
  BY <1>1, <1>2, <1>3, AdjustedSteps
<1>8. Rows' = Rows /\ \A e : Held(e)' = Held(e)
  BY RowsStay
<1>9. ASSUME Followed PROVE NextData(d) = read[d] + 1 /\ Exhausted'
  <2>1. NextData(d) = read[d] + 1 /\ Exhausted
    BY <1>4, <1>9 DEF IInv, Account, Followed
  <2>2. ASSUME NEW e \in Datasets
        PROVE  /\ consumed'[e] <= cfg'.estimate[e]
               /\ epoch' = 1 => Counted(e)'
    <3>1. /\ consumed[e] <= cfg.estimate[e] /\ (epoch = 1 => Counted(e))
          /\ consumed[e] \in Nat /\ read[e] \in Nat /\ cfg.estimate[e] \in Nat
      BY <1>2, <2>1 DEF Exhausted
    <3>2. /\ consumed'[e] = IF e = d /\ consumed[e] < cfg.estimate[e] THEN consumed[e] + 1 ELSE consumed[e]
          /\ read'[e] = IF e = d THEN read[e] + 1 ELSE read[e]
      BY <1>1, <1>2, <1>3, <2>1
    <3> QED BY <3>1, <3>2 DEF Counted
  <2>3. ASSUME NEW e \in Datasets, e \notin positive' PROVE Spent(e)'
    <3>1. e # d /\ Spent(e)
      BY <1>3, <1>9, <2>3, AdjustedSteps
    <3>2. consumed'[e] = consumed[e] /\ read'[e] = read[e]
      BY <1>2, <1>3, <3>1
    <3> QED BY <1>8, <3>1, <3>2 DEF Spent
  <2> QED BY <2>1, <2>2, <2>3 DEF Exhausted
<1> QED BY <1>1, <1>3, <1>5, <1>6, <1>7, <1>9

\* The weights' clock.
LEMMA TickSteps ==
  ASSUME IInv, Tick
  PROVE  clock' \in Nat
<1>1. clock \in Nat /\ Interval \in Nat \ {0}
  BY PackedAssumption DEF IInv, Types
<1> QED BY <1>1 DEF Tick

(* What reading one row says of the other rows: they are read or not, as    *)
(* before.                                                                  *)
LEMMA OthersRead ==
  ASSUME IInv, NEW d \in Datasets, read' = [read EXCEPT ![d] = read[d] + 1],
         NEW x \in Rows, x # <<d, read[d] + 1>>
  PROVE  (read'[x[1]] < x[2] <=> read[x[1]] < x[2]) /\ (x[2] <= read'[x[1]] <=> x[2] <= read[x[1]])
<1>1. x[1] \in Datasets /\ x[2] \in Nat /\ x = <<x[1], x[2]>> /\ read \in [Datasets -> Nat]
  BY RowsKnown DEF IInv, Types
<1>2. CASE x[1] = d
  <2>1. x[2] # read[d] + 1 /\ read'[x[1]] = read[d] + 1 /\ read[d] \in Nat
    BY <1>1, <1>2
  <2> QED BY <1>1, <1>2, <2>1
<1>3. CASE x[1] # d
  BY <1>1, <1>3
<1> QED BY <1>2, <1>3

\* Choosing a dataset reads a row into one buffer.
LEMMA ChooseSteps ==
  ASSUME IInv, Choose
  PROVE  IInv'
<1>1. /\ stage = "choose" /\ Tick /\ UNCHANGED <<cfg, epoch, last, delivered>>
  BY DEF Choose
<1>2. PICK d \in Adjusted : Take(d) /\ Merge(<<d, NextData(d)>>)
  BY DEF Choose
<1> DEFINE r == <<d, NextData(d)>>
<1>3. stage' # "end"
  BY <1>2 DEF Merge
<1>4. /\ d \in Datasets /\ r \in Rows
      /\ read' \in [Datasets -> Nat] /\ \A e \in Datasets : read'[e] <= Held(e)
      /\ consumed' \in [Datasets -> Nat] /\ positive' \subseteq Datasets
      /\ Followed => /\ NextData(d) = read[d] + 1 /\ Exhausted'
                     /\ read' = [read EXCEPT ![d] = read[d] + 1]
  BY <1>1, <1>2, <1>3, TakeSteps
<1>5. /\ stage' \in {"pack", "failed"}
      /\ buffers' \in Seq(Buffer) /\ full' \in Seq(Buffer)
      /\ \A k \in DOMAIN buffers' : Within(buffers'[k])
      /\ \A k \in DOMAIN full' : Within(full'[k])
      /\ Sorted(buffers')
      /\ stage' = "pack" =>
           \A x : /\ x # r => (Kept(buffers', full', x) <=> Kept(buffers, full, x))
                  /\ x # r /\ KeptOnce(buffers, full, x) => KeptOnce(buffers', full', x)
                  /\ x = r /\ ~Kept(buffers, full, x) =>
                       KeptOnce(buffers', full', x) /\ Kept(buffers', full', x)
  BY <1>2, <1>4, MergeSteps DEF IInv
<1>6. Rows' = Rows /\ Buffer' = Buffer /\ \A e : Held(e)' = Held(e)
  BY <1>1, RowsStay
<1>7. Types'
  BY <1>1, <1>4, <1>5, <1>6, TickSteps DEF IInv, Types
<1>8. Budget'
  BY <1>1, <1>5 DEF IInv, Budget, Within
<1> HIDE DEF r
<1>9. ASSUME Followed' PROVE Exhausted' /\ \A x \in Rows : Placed(x)'
  <2>1. Followed /\ stage' = "pack"
    BY <1>1, <1>5, <1>9 DEF Followed
  <2>2. \A x \in Rows : Placed(x)
    BY <2>1 DEF IInv, Account
  <2>3. ASSUME NEW x \in Rows PROVE Placed(x)'
    <3>1. Placed(x) /\ delivered' = delivered
      BY <1>1, <2>2
    <3>2. CASE x = r
      <4>1. x[1] = d /\ x[2] = read[d] + 1 /\ read'[d] = read[d] + 1 /\ read[d] \in Nat
        BY <1>4, <2>1, <3>2 DEF r, IInv, Types
      <4>2. delivered[x] = 0 /\ ~Kept(buffers, full, x)
        BY <3>1, <4>1 DEF Placed
      <4>3. KeptOnce(buffers', full', x) /\ Kept(buffers', full', x)
        BY <1>5, <2>1, <3>2, <4>2
      <4> QED BY <3>1, <4>1, <4>2, <4>3 DEF Placed
    <3>3. CASE x # r
      <4>1. /\ KeptOnce(buffers', full', x)
            /\ Kept(buffers', full', x) <=> Kept(buffers, full, x)
        BY <1>5, <2>1, <3>1, <3>3 DEF Placed
      <4>2. (read'[x[1]] < x[2] <=> read[x[1]] < x[2]) /\ (x[2] <= read'[x[1]] <=> x[2] <= read[x[1]])
        BY <1>4, <2>1, <3>3, OthersRead DEF r
      <4> QED BY <3>1, <4>1, <4>2 DEF Placed
    <3> QED BY <3>2, <3>3
  <2> QED BY <1>4, <2>1, <2>3
<1>10. Account'
  BY <1>6, <1>9 DEF Account
<1> QED BY <1>7, <1>8, <1>10 DEF IInv

(* Buffers an iteration older: their ages are all that changes.             *)
Aged(s, t) ==
  /\ t \in Seq(Buffer) /\ Len(t) = Len(s) /\ DOMAIN t = DOMAIN s
  /\ \A i \in DOMAIN s : /\ t[i].rows = s[i].rows /\ t[i].tokens = s[i].tokens
                         /\ t[i].images = s[i].images /\ s[i].age \in Nat
                         /\ t[i].age = IF s[i].age > Stale THEN s[i].age ELSE s[i].age + 1
  /\ Sorted(s) => Sorted(t)
  /\ \A x : (Has(t, x) <=> Has(s, x)) /\ (Once(s, x) => Once(t, x))

LEMMA OlderSteps ==
  ASSUME NEW s \in Seq(Buffer)
  PROVE  Aged(s, Older(s))
<1> DEFINE t == Older(s)
<1>1. PICK n \in Nat : n = Len(s)
  OBVIOUS
<1>2. DOMAIN s = 1 .. n /\ \A i \in 1 .. n : s[i] \in Buffer
  BY <1>1
<1>3. t = [i \in 1 .. n |-> [s[i] EXCEPT !.age = IF @ > Stale THEN @ ELSE @ + 1]]
  BY <1>2 DEF Older
<1> HIDE DEF t
<1>4. ASSUME NEW i \in 1 .. n
      PROVE  /\ t[i] \in Buffer
             /\ t[i].rows = s[i].rows /\ t[i].tokens = s[i].tokens
             /\ t[i].images = s[i].images /\ s[i].age \in Nat
             /\ t[i].age = IF s[i].age > Stale THEN s[i].age ELSE s[i].age + 1
  <2>1. s[i] \in Buffer
    BY <1>2
  <2> DEFINE a == IF s[i].age > Stale THEN s[i].age ELSE s[i].age + 1
  <2>2. t[i] = [s[i] EXCEPT !.age = a]
    BY <1>3
  <2>3. s[i].age \in Nat /\ a \in Nat
    BY <2>1 DEF Buffer
  <2> HIDE DEF a
  <2>4. /\ t[i] \in Buffer /\ t[i].age = a
        /\ t[i].rows = s[i].rows /\ t[i].tokens = s[i].tokens /\ t[i].images = s[i].images
    BY <2>1, <2>2, <2>3 DEF Buffer
  <2> QED BY <2>3, <2>4 DEF a
<1>5. t \in Seq(Buffer) /\ DOMAIN t = 1 .. n /\ Len(t) = n
  <2>1. t \in [1 .. n -> Buffer]
    BY <1>3, <1>4
  <2> QED BY <2>1
<1>6. Sorted(s) => Sorted(t)
  BY <1>2, <1>4, <1>5 DEF Sorted
<1>7. \A x : (Has(t, x) <=> Has(s, x)) /\ (Once(s, x) => Once(t, x))
  BY <1>2, <1>4, <1>5 DEF Has, Once
<1> QED BY <1>1, <1>2, <1>4, <1>5, <1>6, <1>7 DEF Aged, t

\* A packed row is read and delivered in one step; the buffers only age.
LEMMA PassOnSteps ==
  ASSUME IInv, PassOn
  PROVE  IInv'
<1>1. /\ stage = "choose" /\ Tick /\ buffers' = Older(buffers)
      /\ UNCHANGED <<cfg, stage, epoch, full>>
  BY DEF PassOn
<1>2. PICK d \in Adjusted \intersect cfg.packed :
        LET r == <<d, NextData(d)>>
        IN  Take(d) /\ HandOver([rows |-> {r}, tokens |-> Row(r).tokens, images |-> Row(r).images])
  BY DEF PassOn
<1> DEFINE r == <<d, NextData(d)>>
<1>3. /\ Take(d) /\ last' = [tokens |-> Row(r).tokens, images |-> Row(r).images]
      /\ delivered' = [x \in Rows |-> IF x = r /\ ~cfg.replacement THEN delivered[x] + 1 ELSE delivered[x]]
  BY <1>2 DEF HandOver
<1>4. /\ d \in Datasets /\ r \in Rows
      /\ read' \in [Datasets -> Nat] /\ \A e \in Datasets : read'[e] <= Held(e)
      /\ consumed' \in [Datasets -> Nat] /\ positive' \subseteq Datasets
      /\ Followed => /\ NextData(d) = read[d] + 1 /\ Exhausted'
                     /\ read' = [read EXCEPT ![d] = read[d] + 1]
  BY <1>1, <1>2, <1>3, TakeSteps
<1>5. Aged(buffers, buffers') /\ Sorted(buffers)
  BY <1>1, OlderSteps DEF IInv, Types, Budget
<1>6. Rows' = Rows /\ Buffer' = Buffer /\ \A e : Held(e)' = Held(e)
  BY <1>1, RowsStay
<1>7. last' \in [tokens : Nat, images : Nat] /\ Within(last')
  <2>1. Row(r).tokens \in 1 .. MaxTokens /\ Row(r).images \in 0 .. MaxImages
    BY <1>4, RowsKnown DEF IInv, Types
  <2>2. MaxTokens \in Nat /\ MaxImages \in Nat
    BY PackedAssumption
  <2> HIDE DEF r
  <2> QED BY <1>3, <2>1, <2>2 DEF Within
<1>8. delivered \in [Rows -> Nat] /\ delivered' \in [Rows -> Nat]
  BY <1>3 DEF IInv, Types
<1>9. Types'
  BY <1>1, <1>4, <1>5, <1>6, <1>7, <1>8, TickSteps DEF IInv, Types, Aged
<1>10. Idle'
  <2>1. Idle /\ cfg.packed # {}
    BY <1>1, <1>2 DEF IInv, Budget
  <2> QED BY <1>1, <1>5, <2>1 DEF Idle, Crowded, Aged
<1>11. Budget'
  BY <1>1, <1>5, <1>7, <1>10 DEF IInv, Budget, Within, Aged
<1> HIDE DEF r
<1>12. ASSUME Followed' PROVE Exhausted' /\ \A x \in Rows : Placed(x)'
  <2>1. Followed /\ ~cfg.replacement
    BY <1>1, <1>12 DEF Followed
  <2>2. \A x \in Rows : Placed(x)
    BY <2>1 DEF IInv, Account
  <2>3. ASSUME NEW x \in Rows PROVE Placed(x)'
    <3>1. Placed(x) /\ delivered'[x] = IF x = r THEN delivered[x] + 1 ELSE delivered[x]
      BY <1>3, <2>1, <2>2
    <3>2. /\ KeptOnce(buffers', full', x)
          /\ Kept(buffers', full', x) <=> Kept(buffers, full, x)
      BY <1>1, <1>5, <3>1 DEF Kept, KeptOnce, Aged, Placed
    <3>3. CASE x = r
      <4>1. x[1] = d /\ x[2] = read[d] + 1 /\ read'[d] = read[d] + 1 /\ read[d] \in Nat
        BY <1>4, <2>1, <3>3 DEF r, IInv, Types
      <4>2. delivered[x] = 0 /\ ~Kept(buffers, full, x)
        BY <3>1, <4>1 DEF Placed
      <4> QED BY <3>1, <3>2, <3>3, <4>1, <4>2 DEF Placed
    <3>4. CASE x # r
      <4>1. (read'[x[1]] < x[2] <=> read[x[1]] < x[2]) /\ (x[2] <= read'[x[1]] <=> x[2] <= read[x[1]])
        BY <1>4, <2>1, <3>4, OthersRead DEF r
      <4> QED BY <3>1, <3>2, <3>4, <4>1 DEF Placed
    <3> QED BY <3>3, <3>4
  <2> QED BY <1>4, <2>1, <2>3
<1>13. Account'
  BY <1>6, <1>12 DEF Account
<1> QED BY <1>9, <1>11, <1>13 DEF IInv

(* Nothing is read: a dataset that is read to its end loses its weight.     *)
LEMMA ExhaustSteps ==
  ASSUME IInv, Exhaust
  PROVE  IInv'
<1>1. /\ stage = "choose" /\ Tick
      /\ UNCHANGED <<cfg, stage, epoch, read, consumed, buffers, full, last, delivered>>
  BY DEF Exhaust
<1>2. PICK d \in Adjusted : NextData(d) = 0 /\ positive' = WeightsAfter(d)
  BY DEF Exhaust
<1>3. Rows' = Rows /\ Buffer' = Buffer /\ \A e : Held(e)' = Held(e)
  BY <1>1, RowsStay
<1>4. d \in Datasets /\ positive' \subseteq Datasets
  BY <1>2, AdjustedSteps DEF WeightsAfter
<1>5. Types'
  BY <1>1, <1>3, <1>4, TickSteps DEF IInv, Types
<1>6. Budget'
  BY <1>1 DEF IInv, Budget, Within, Idle, Crowded
<1>7. ASSUME Followed' PROVE Exhausted' /\ \A x \in Rows : Placed(x)'
  <2>1. Followed /\ ~cfg.replacement
    BY <1>1, <1>7 DEF Followed
  <2>2. Exhausted /\ \A x \in Rows : Placed(x)
    BY <2>1 DEF IInv, Account
  <2>3. Spent(d)
    <3>1. read[d] \in Nat /\ Held(d) \in Nat /\ read[d] <= Held(d)
      BY <1>4, RowsKnown DEF IInv, Types
    <3> QED BY <1>2, <3>1 DEF NextData, Spent
  <2>4. \A e \in Datasets \ positive' : Spent(e)
    BY <1>2, <2>1, <2>3, AdjustedSteps DEF WeightsAfter
  <2>5. Exhausted'
    BY <1>1, <1>3, <2>2, <2>4 DEF Exhausted, Spent, Counted
  <2>6. ASSUME NEW x \in Rows PROVE Placed(x)'
    BY <1>1, <2>2 DEF Placed
  <2> QED BY <2>5, <2>6
<1>8. Account'
  BY <1>3, <1>7 DEF Account
<1> QED BY <1>5, <1>6, <1>8 DEF IInv

\* Yielding the first full buffer.
LEMMA YieldFullSteps ==
  ASSUME IInv, YieldFull
  PROVE  IInv'
<1>1. /\ stage = "pack" /\ full # <<>> /\ Yield(Head(full)) /\ full' = Tail(full)
      /\ UNCHANGED <<stage, buffers>>
  BY DEF YieldFull
<1>2. full \in Seq(Buffer) /\ buffers \in Seq(Buffer)
  BY DEF IInv, Types
<1>3. Head(full) = full[1] /\ full[1] \in Buffer /\ 1 \in DOMAIN full
  BY <1>1, <1>2, Beheaded
<1>4. full' \in Seq(Buffer) /\ Without(full, 1, full') /\ 1 \in 1 .. Len(full)
  BY <1>1, <1>2, Changes
<1>5. Within(full[1])
  BY <1>3 DEF IInv, Budget
<1>6. ASSUME NEW x, KeptOnce(buffers, full, x)
      PROVE  /\ KeptOnce(buffers', full', x)
             /\ x \in full[1].rows => Kept(buffers, full, x) /\ ~Kept(buffers', full', x)
             /\ x \notin full[1].rows => (Kept(buffers, full, x) <=> Kept(buffers', full', x))
  <2>1. /\ Once(full, x) /\ Once(buffers, x) /\ ~(Has(full, x) /\ Has(buffers, x)) =>
              /\ Once(full', x) /\ ~(Has(full', x) /\ Has(buffers, x))
              /\ x \in full[1].rows =>
                   (Has(full, x) \/ Has(buffers, x)) /\ ~(Has(full', x) \/ Has(buffers, x))
              /\ x \notin full[1].rows =>
                   ((Has(full, x) \/ Has(buffers, x)) <=> (Has(full', x) \/ Has(buffers, x)))
    BY <1>2, <1>4, LeavesOnce
  <2> QED BY <1>1, <1>6, <2>1 DEF KeptOnce, Kept
<1>7. /\ cfg' = cfg /\ Within(last') /\ last' \in [tokens : Nat, images : Nat]
      /\ delivered' \in [Rows -> Nat] /\ Account'
  <2>1. Yield(full[1]) /\ stage' = stage
    BY <1>1, <1>3
  <2> QED BY <1>3, <1>5, <1>6, <2>1, YieldSteps
<1>8. UNCHANGED <<epoch, read, positive, consumed, clock>>
  BY <1>1 DEF Yield
<1>9. Rows' = Rows /\ Buffer' = Buffer /\ \A e : Held(e)' = Held(e)
  BY <1>7, RowsStay
<1>10. Types'
  BY <1>1, <1>2, <1>4, <1>7, <1>8, <1>9 DEF IInv, Types
<1>11. \A k \in DOMAIN full' : Within(full'[k])
  <2>1. \A k \in DOMAIN full' : \E j \in DOMAIN full :
          j # 1 /\ full'[k] = full[j] /\ j = IF k < 1 THEN k ELSE k + 1
    BY <1>2, <1>4, FoundWithout
  <2> QED BY <2>1 DEF IInv, Budget
<1>12. Budget'
  BY <1>1, <1>7, <1>11 DEF IInv, Budget
<1> QED BY <1>7, <1>10, <1>12 DEF IInv

\* Yielding the buffer that is due.
LEMMA YieldBufferSteps ==
  ASSUME IInv, YieldBuffer
  PROVE  IInv'
<1> DEFINE i == Due
<1>1. /\ stage = "pack" /\ i # 0 /\ Yield(buffers[i]) /\ buffers' = RemoveAt(buffers, i)
      /\ UNCHANGED <<stage, full>>
  BY DEF YieldBuffer
<1>2. i \in 1 .. Len(buffers) /\ buffers \in Seq(Buffer)
  <2>1. i \in 0 .. Len(buffers)
    BY DueSteps DEF IInv
  <2> QED BY <1>1, <2>1 DEF IInv, Types
<1> HIDE DEF i
<1>3. buffers' \in Seq(Buffer) /\ Without(buffers, i, buffers')
  BY <1>1, <1>2, Changes
<1>4. /\ cfg' = cfg /\ Within(last') /\ last' \in [tokens : Nat, images : Nat]
      /\ delivered' \in [Rows -> Nat] /\ Account'
      /\ \A k \in DOMAIN buffers' : \E j \in DOMAIN buffers : buffers'[k] = buffers[j]
      /\ Sorted(buffers')
  BY <1>1, <1>2, <1>3, YieldFromBuffers
<1>5. UNCHANGED <<epoch, read, positive, consumed, clock>>
  BY <1>1 DEF Yield
<1>6. Rows' = Rows /\ Buffer' = Buffer /\ \A e : Held(e)' = Held(e)
  BY <1>4, RowsStay
<1>7. Types'
  BY <1>1, <1>3, <1>4, <1>5, <1>6 DEF IInv, Types
<1>8. Budget'
  BY <1>1, <1>4 DEF IInv, Budget
<1> QED BY <1>4, <1>7, <1>8 DEF IInv

\* Draining the buffers when no dataset has weight.
LEMMA DrainSteps ==
  ASSUME IInv, Drain
  PROVE  IInv'
<1>1. /\ stage = "choose" /\ buffers # <<>> /\ Yield(Head(buffers)) /\ buffers' = Tail(buffers)
      /\ UNCHANGED <<stage, full>>
  BY DEF Drain
<1>2. buffers \in Seq(Buffer)
  BY DEF IInv, Types
<1>3. buffers' \in Seq(Buffer) /\ Without(buffers, 1, buffers') /\ 1 \in 1 .. Len(buffers)
  BY <1>1, <1>2, Changes
<1>4. Head(buffers) = buffers[1]
  BY <1>1, <1>2, Beheaded
<1>5. /\ cfg' = cfg /\ Within(last') /\ last' \in [tokens : Nat, images : Nat]
      /\ delivered' \in [Rows -> Nat] /\ Account'
      /\ \A k \in DOMAIN buffers' : \E j \in DOMAIN buffers : buffers'[k] = buffers[j]
      /\ Sorted(buffers')
  <2>1. Yield(buffers[1])
    BY <1>1, <1>4
  <2> QED BY <1>1, <1>3, <2>1, YieldFromBuffers
<1>6. UNCHANGED <<epoch, read, positive, consumed, clock>>
  BY <1>1 DEF Yield
<1>7. Rows' = Rows /\ Buffer' = Buffer /\ \A e : Held(e)' = Held(e)
  BY <1>5, RowsStay
<1>8. Types'
  BY <1>1, <1>3, <1>5, <1>6, <1>7 DEF IInv, Types
<1>9. Idle'
  <2>1. Idle
    BY <1>1 DEF IInv, Budget
  <2>2. Len(buffers') <= MaxBuffers
    <3>1. Len(buffers') = Len(buffers) - 1 /\ Len(buffers) \in Nat /\ Len(buffers) <= MaxBuffers
      BY <1>2, <1>3, <2>1 DEF Without, Idle
    <3>2. MaxBuffers \in Nat
      BY PackedAssumption
    <3> QED BY <3>1, <3>2
  <2>3. \A k \in DOMAIN buffers' :
          buffers'[k].images # MaxImages /\ (cfg.packed = {} => buffers'[k].age <= Stale)
    BY <1>5, <2>1 DEF Idle, Crowded
  <2> QED BY <1>1, <1>5, <2>1, <2>2, <2>3 DEF Idle, Crowded
<1>10. Budget'
  BY <1>1, <1>5, <1>9 DEF IInv, Budget
<1> QED BY <1>5, <1>8, <1>10 DEF IInv

\* Closing an iteration only ages the buffers.
LEMMA NextIterationSteps ==
  ASSUME IInv, NextIteration
  PROVE  IInv'
<1>1. /\ stage = "pack" /\ full = <<>> /\ Due = 0 /\ stage' = "choose" /\ buffers' = Older(buffers)
      /\ UNCHANGED <<cfg, epoch, read, positive, consumed, clock, full, last, delivered>>
  BY DEF NextIteration
<1>2. Aged(buffers, buffers') /\ buffers \in Seq(Buffer) /\ Sorted(buffers)
  BY <1>1, OlderSteps DEF IInv, Types, Budget
<1>3. Rows' = Rows /\ Buffer' = Buffer /\ \A e : Held(e)' = Held(e)
  BY <1>1, RowsStay
<1>4. Types'
  BY <1>1, <1>2, <1>3 DEF IInv, Types, Aged
<1>5. Idle'
  <2>1. ASSUME buffers # <<>>
        PROVE /\ Len(buffers) <= MaxBuffers
              /\ \A i \in DOMAIN buffers : ~Crowded(i) /\ ~IsStale(i)
    <3>1. ~Crowded(1) /\ Len(buffers) <= MaxBuffers /\ \A i \in DOMAIN buffers : ~IsStale(i)
      BY <1>1, <2>1, DueSteps DEF IInv
    <3>2. \A i \in DOMAIN buffers : ~Crowded(i)
      BY <2>1, <3>1, NoneCrowded DEF IInv
    <3> QED BY <3>1, <3>2
  <2>2. Len(buffers') <= MaxBuffers
    <3>1. buffers = <<>> => Len(buffers) = 0
      OBVIOUS
    <3>2. MaxBuffers \in Nat
      BY PackedAssumption
    <3> QED BY <1>2, <2>1, <3>1, <3>2 DEF Aged
  <2>3. ASSUME NEW i \in DOMAIN buffers PROVE buffers'[i].images # MaxImages /\ buffers'[i].age <= Stale
    <3>1. buffers # <<>>
      BY <2>3
    <3>2. buffers[i].images # MaxImages /\ ~(buffers[i].age >= Stale)
      BY <2>1, <3>1 DEF Crowded, IsStale
    <3>3. Stale \in Nat
      BY PackedAssumption
    <3>4. buffers[i].age \in Nat
      BY <1>2 DEF Aged
    <3> QED BY <1>2, <3>2, <3>3, <3>4 DEF Aged
  <2> QED BY <1>1, <1>2, <2>2, <2>3 DEF Idle, Crowded, Aged
<1>6. Budget'
  BY <1>1, <1>2, <1>5 DEF IInv, Budget, Within, Aged
<1>7. ASSUME Followed' PROVE Exhausted' /\ \A x \in Rows : Placed(x)'
  <2>1. Followed
    BY <1>1, <1>7 DEF Followed
  <2>2. Exhausted /\ \A x \in Rows : Placed(x)
    BY <2>1 DEF IInv, Account
  <2>3. Exhausted'
    BY <1>1, <1>3, <2>2 DEF Exhausted, Spent, Counted
  <2>4. ASSUME NEW x \in Rows PROVE Placed(x)'
    <3>1. full' = full /\ delivered' = delivered /\ read' = read
      BY <1>1
    <3>2. /\ Kept(buffers', full', x) <=> Kept(buffers, full, x)
          /\ KeptOnce(buffers, full, x) => KeptOnce(buffers', full', x)
      BY <1>2, <3>1 DEF Kept, KeptOnce, Aged
    <3> QED BY <2>2, <3>1, <3>2 DEF Placed
  <2> QED BY <2>3, <2>4
<1>8. Account'
  BY <1>3, <1>7 DEF Account
<1> QED BY <1>4, <1>6, <1>8 DEF IInv

\* An epoch ends when its buffers are empty.
LEMMA EndEpochSteps ==
  ASSUME IInv, EndEpoch
  PROVE  IInv'
<1>1. /\ stage = "choose" /\ positive = {} /\ buffers = <<>> /\ stage' = "end"
      /\ UNCHANGED <<cfg, epoch, read, positive, consumed, clock, buffers, full, last, delivered>>
  BY DEF EndEpoch
<1>2. Rows' = Rows /\ Buffer' = Buffer /\ \A e : Held(e)' = Held(e)
  BY <1>1, RowsStay
<1>3. Types'
  BY <1>1, <1>2 DEF IInv, Types
<1>4. Budget'
  BY <1>1 DEF IInv, Budget, Idle, Crowded, Within
<1>5. ASSUME Followed' PROVE Exhausted' /\ \A x \in Rows : Placed(x)'
  <2>1. Exhausted /\ \A x \in Rows : Placed(x)
    BY <1>1, <1>5 DEF IInv, Account, Followed
  <2>2. Exhausted'
    BY <1>1, <1>2, <2>1 DEF Exhausted, Spent, Counted
  <2>3. \A x \in Rows : Placed(x)'
    BY <1>1, <2>1 DEF Placed
  <2> QED BY <2>2, <2>3
<1>6. Account'
  BY <1>2, <1>5 DEF Account
<1> QED BY <1>3, <1>4, <1>6 DEF IInv

\* A new epoch starts with every row unread.
LEMMA IterateSteps ==
  ASSUME IInv, Iterate
  PROVE  IInv'
<1>1. /\ stage = "end" /\ epoch' = epoch + 1 /\ stage' = "choose" /\ positive' = Datasets /\ clock' = 0
      /\ read' = [d \in Datasets |-> 0] /\ delivered' = [r \in Rows |-> 0]
      /\ UNCHANGED <<cfg, consumed, buffers, full, last>>
  BY DEF Iterate
<1>2. Rows' = Rows /\ Buffer' = Buffer /\ \A e : Held(e)' = Held(e)
  BY <1>1, RowsStay
<1>3. \A d \in Datasets : Held(d) \in Nat
  BY RowsKnown DEF IInv, Types
<1>4. epoch \in Nat \ {0} /\ epoch' \in Nat \ {0} /\ epoch' # 1
  BY <1>1 DEF IInv, Types
<1>5. Types'
  BY <1>1, <1>2, <1>3, <1>4 DEF IInv, Types
<1>6. Budget'
  BY <1>1 DEF IInv, Budget, Idle, Crowded, Within
<1>7. ASSUME Followed' PROVE Exhausted' /\ \A x \in Rows : Placed(x)'
  <2>1. Exhausted /\ buffers = <<>> /\ full = <<>>
    BY <1>1, <1>7 DEF IInv, Account, Followed, Budget, Idle
  <2>2. Exhausted'
    BY <1>1, <1>4, <2>1 DEF Exhausted
  <2>3. ASSUME NEW x \in Rows PROVE Placed(x)'
    <3>1. x[1] \in Datasets /\ x[2] \in Nat /\ x[2] >= 1
      BY RowsKnown DEF IInv, Types
    <3>2. read'[x[1]] = 0 /\ delivered'[x] = 0
      BY <1>1, <3>1
    <3>3. DOMAIN buffers' = {} /\ DOMAIN full' = {}
      BY <1>1, <2>1
    <3>4. ~Kept(buffers', full', x) /\ KeptOnce(buffers', full', x)
      BY <3>3 DEF Kept, KeptOnce, Has, Once
    <3> QED BY <3>1, <3>2, <3>4 DEF Placed
  <2> QED BY <2>2, <2>3
<1>8. Account'
  BY <1>2, <1>7 DEF Account
<1> QED BY <1>5, <1>6, <1>8 DEF IInv

\* The invariant holds before the first row is read.
LEMMA InitHolds ==
  ASSUME Init
  PROVE  IInv
<1>1. Types
  BY RowsKnown DEF Init, Types
<1>2. DOMAIN buffers = {} /\ DOMAIN full = {} /\ Len(buffers) = 0
  BY DEF Init
<1>3. Budget
  BY <1>2, PackedAssumption DEF Init, Budget, Idle, Within, Sorted
<1>4. \A x \in Rows : x[2] \in Nat /\ x[2] >= 1 /\ x[1] \in Datasets
  BY RowsKnown DEF Init
<1>5. \A d \in Datasets : cfg.estimate[d] \in Nat \ {0}
  BY PackedAssumption DEF Init
<1>6. Account
  BY <1>2, <1>4, <1>5 DEF Init, Account, Exhausted, Counted, Placed, Kept, KeptOnce, Has, Once
<1> QED BY <1>1, <1>3, <1>6 DEF IInv

\* A stuttering step changes nothing.
LEMMA StutterSteps ==
  ASSUME IInv, UNCHANGED vars
  PROVE  IInv'
<1>1. UNCHANGED <<cfg, stage, epoch, read, positive, consumed, clock, buffers, full, last, delivered>>
  BY DEF vars
<1>2. Rows' = Rows /\ Buffer' = Buffer /\ \A e : Held(e)' = Held(e)
  BY <1>1, RowsStay
<1>3. Types'
  BY <1>1, <1>2 DEF IInv, Types
<1>4. Budget'
  BY <1>1 DEF IInv, Budget, Idle, Crowded, Within
<1>5. Account'
  BY <1>1, <1>2 DEF IInv, Account, Followed, Exhausted, Spent, Counted, Placed
<1> QED BY <1>3, <1>4, <1>5 DEF IInv

-----------------------------------------------------------------------------
(* The theorems. *)

(* The inductive invariant holds in every state of every stream.            *)
THEOREM StreamInvariant == Spec => []IInv
<1>1. Init => IInv
  BY InitHolds
<1>2. IInv /\ [Next]_vars => IInv'
  BY ChooseSteps, PassOnSteps, ExhaustSteps, YieldFullSteps, YieldBufferSteps, NextIterationSteps,
     DrainSteps, EndEpochSteps, IterateSteps, StutterSteps DEF Next
<1> QED BY <1>1, <1>2, PTL DEF Spec

(* As many buffers hold a row as it has copies: none or one.                *)
LEMMA CopiesCounted ==
  ASSUME NEW r, KeptOnce(buffers, full, r)
  PROVE  Copies(r) = IF Kept(buffers, full, r) THEN 1 ELSE 0
<1> DEFINE A == {i \in DOMAIN buffers : r \in buffers[i].rows}
           B == {i \in DOMAIN full : r \in full[i].rows}
<1>1. (Has(buffers, r) => \E i : A = {i}) /\ (~Has(buffers, r) => A = {})
  BY DEF KeptOnce, Once, Has
<1>2. (Has(full, r) => \E i : B = {i}) /\ (~Has(full, r) => B = {})
  BY DEF KeptOnce, Once, Has
<1>3. Copies(r) = Cardinality(A) + Cardinality(B)
  BY DEF Copies
<1> HIDE DEF A, B
<1>4. Cardinality(A) = IF Has(buffers, r) THEN 1 ELSE 0
  BY <1>1, FS_EmptySet, FS_Singleton
<1>5. Cardinality(B) = IF Has(full, r) THEN 1 ELSE 0
  BY <1>2, FS_EmptySet, FS_Singleton
<1> QED BY <1>3, <1>4, <1>5 DEF Kept, KeptOnce

(* Packs and buffers keep their budgets; a finite epoch yields what it      *)
(* reads once, whatever is merged, evicted and yielded in between, and      *)
(* stops at the end of each shard or of its estimate                        *)
(* (PackedDataset.__iter__).                                                *)
THEOREM StreamPacksExact == Spec => []PacksExact
<1>1. ASSUME IInv PROVE PacksExact
  <2>1. WithinBudget
    BY <1>1 DEF IInv, Budget, Idle, WithinBudget
  <2>2. ASSUME ~cfg.replacement, stage # "failed"
        PROVE  Exhausted /\ \A r \in Rows : Placed(r)
    BY <1>1, <2>2 DEF IInv, Account, Followed
  <2>3. ASSUME ~cfg.replacement, stage # "failed", NEW r \in Rows
        PROVE  /\ delivered[r] + Copies(r) = IF r[2] <= read[r[1]] THEN 1 ELSE 0
               /\ stage = "end" /\ epoch = 1 /\ r[2] <= cfg.estimate[r[1]] => delivered[r] = 1
    <3>1. Exhausted /\ Placed(r)
      BY <2>2, <2>3
    <3>2. /\ r[1] \in Datasets /\ r[2] \in 1 .. Held(r[1])
          /\ read[r[1]] \in Nat /\ Held(r[1]) \in Nat
      BY <1>1, RowsKnown DEF IInv, Types
    <3>3. Copies(r) = IF Kept(buffers, full, r) THEN 1 ELSE 0
      BY <3>1, CopiesCounted DEF Placed
    <3>4. delivered[r] + Copies(r) = IF r[2] <= read[r[1]] THEN 1 ELSE 0
      BY <3>1, <3>2, <3>3 DEF Placed
    <3>5. ASSUME stage = "end", epoch = 1, r[2] <= cfg.estimate[r[1]] PROVE delivered[r] = 1
      <4>1. Spent(r[1]) /\ Counted(r[1])
        BY <3>1, <3>2, <3>5 DEF Exhausted
      <4>2. cfg.estimate[r[1]] \in Nat
        BY <1>1, <3>2, PackedAssumption DEF IInv, Types
      <4>3. r[2] <= read[r[1]]
        BY <3>2, <3>5, <4>1, <4>2 DEF Spent, Counted
      <4>4. buffers = <<>> /\ full = <<>>
        BY <1>1, <3>5 DEF IInv, Budget, Idle
      <4>5. ~Kept(buffers, full, r)
        BY <4>4 DEF Kept, Has
      <4> QED BY <3>1, <4>3, <4>5 DEF Placed
    <3> QED BY <3>4, <3>5
  <2>4. ASSUME ~cfg.replacement, stage = "end", NEW d \in Datasets
        PROVE  read[d] = Held(d) \/ consumed[d] = cfg.estimate[d]
    BY <2>2, <2>4 DEF Exhausted, Spent
  <2> QED BY <2>1, <2>3, <2>4 DEF PacksExact, EpochExact
<1> QED BY <1>1, StreamInvariant, PTL
=============================================================================
