---------------------------- MODULE SftRunProofs ----------------------------
(***************************************************************************)
(* Proofs about SftRun, for any number of ranks, rows, batch sizes,        *)
(* budgets, launches and power losses.                                     *)
(*                                                                         *)
(* The argument is about histories.  Every update of a history starts at a *)
(* batch boundary and is at most a whole batch (Regular), so only a budget *)
(* cuts one short, and the run that is cut short cannot be continued: two  *)
(* histories with the same batch start their updates at the same samples   *)
(* (SameStarts), and two of the same length and end are equal.  That is    *)
(* why a recovery generation that agrees with a checkpoint on its counters *)
(* is the optimizer of those very weights.                                 *)
(***************************************************************************)
EXTENDS SftRun, FiniteSetTheorems, TLAPS

Clocks == [samples_per_epoch : {Rows}, max_samples : Nat \ {0},
           consumed : Nat, updates : Nat, last : Nat]
Histories == Seq(Nat \X Nat)
Names == Nat \union {None}
Directories ==
  [clock : Clocks, batch : Nat \ {0}, state : Histories, shards : SUBSET Ranks,
   target : Names, of : Names, readable : BOOLEAN, synced : BOOLEAN]
Runs == [batch : Nat \ {0}, max : Nat \ {0}, start : Nat, from : Names, recovery : Names,
         mode : [saving : BOOLEAN, validating : BOOLEAN]]
Store(directories) ==
  DOMAIN directories \subseteq Nat /\ directories \in [DOMAIN directories -> Directories]

Types ==
  /\ pc \in Points /\ outcome \in Outcomes
  /\ run \in Runs /\ run.batch \in BatchSizes \union {1}
  /\ clock \in Clocks /\ target \in Names /\ old \in Names
  /\ model \in Histories /\ adam \in Histories
  /\ Store(models) /\ Store(generations)
  /\ staged \in [{"model", "recovery"} -> {staged["model"], staged["recovery"]}]
  /\ Store(staged["model"]) /\ Store(staged["recovery"])
  /\ pointer \in Names /\ launches \in Nat /\ losses \in Nat

\* The batch at a boundary that no budget cuts.
Whole(batch, start) == Least(batch, (start \div Rows + 1) * Rows - start)

\* A gapless pass over samples 0 .. end - 1 in batches, only cut short by budgets.
Regular(history, batch, end) ==
  /\ history = <<>> => end = 0
  /\ history # <<>> => history[1][1] = 0
  /\ \A i \in DOMAIN history :
       /\ 1 <= history[i][2] /\ history[i][2] <= Whole(batch, history[i][1])
       /\ Boundary(Rows, batch, history[i][1])
       /\ history[i][1] + history[i][2] = IF i = Len(history) THEN end ELSE history[i + 1][1]

SameStarts(one, other) ==
  \A i \in DOMAIN one : i \in DOMAIN other => one[i][1] = other[i][1]

\* What a committed model checkpoint is, readable or not.
Sealed(n, d) ==
  /\ d.shards = Ranks
  /\ Verified(d.clock, d.target)
  /\ n = CheckpointName(d.clock)
  /\ d.clock.updates = Len(d.state)
  /\ Regular(d.state, d.batch, d.clock.consumed)

Committed ==
  /\ \A n \in DOMAIN models : Sealed(n, models[n])
  /\ \A m, n \in DOMAIN models :
       models[m].batch = models[n].batch => SameStarts(models[m].state, models[n].state)

\* What a recovery generation is, also one whose shards are being removed.
Paired(n, g) ==
  /\ n = g.clock.consumed
  /\ g.of \in DOMAIN models
  /\ models[g.of].clock = g.clock /\ models[g.of].batch = g.batch
  /\ IsSuffixOf(g.state, models[g.of].state)

Recoverable ==
  /\ \A n \in DOMAIN generations : Paired(n, generations[n])
  /\ pointer # None => pointer \in DOMAIN generations /\ generations[pointer].shards = Ranks

\* A committed checkpoint holds the first update that reached t.
Covered(t) ==
  \E n \in DOMAIN models :
    /\ models[n].clock.consumed - models[n].clock.last < t /\ t <= models[n].clock.consumed
    /\ IsPrefixOf(models[n].state, model)

Sealing == {"stage", "shards", "commit"}
Recovering == {"recover", "recovery shards", "recovery commit", "point"}

InMemory ==
  pc \notin {"down", "setup"} =>
    /\ clock.max_samples = run.max /\ clock.updates = Len(model)
    /\ Regular(model, run.batch, clock.consumed)
    /\ Boundary(Rows, run.batch, run.start) =>
         Done(clock) \/ Boundary(Rows, run.batch, clock.consumed)
    /\ IsSuffixOf(adam, model)
    /\ \A n \in DOMAIN models :
         models[n].batch = run.batch => SameStarts(model, models[n].state)
    /\ \A t \in Targets(Rows, run.max) :
         run.start < t /\ t <= clock.consumed => (pc \in Sealing /\ t = target) \/ Covered(t)

\* A directory that holds what the job has in memory.
Holds(d, state) == d.clock = clock /\ d.batch = run.batch /\ d.state = state

InSave ==
  /\ pc = "setup" => /\ run.from # None => run.from \in DOMAIN models
                     /\ run.from = None => run.recovery = None /\ run.start = 0
                     /\ run.recovery # None => run.recovery \in DOMAIN generations
  /\ pc \in Sealing => Verified(clock, target)
  /\ pc \in {"shards", "commit"} =>
       /\ Name \in DOMAIN staged["model"] /\ Name \notin DOMAIN models
       /\ Holds(staged["model"][Name], model)
  /\ pc = "commit" => /\ staged["model"][Name].shards = Ranks
                      /\ staged["model"][Name].target = target
  /\ pc \in Recovering => Name \in DOMAIN models /\ Holds(models[Name], model)
  /\ pc \in {"recovery shards", "recovery commit"} =>
       /\ Generation \in DOMAIN staged["recovery"]
       /\ Holds(staged["recovery"][Generation], adam)
  /\ pc = "recovery commit" => /\ staged["recovery"][Generation].shards = Ranks
                               /\ staged["recovery"][Generation].of = Name
  /\ pc = "point" => Generation \in DOMAIN generations /\ generations[Generation].shards = Ranks
  /\ pc = "retire" => old # pointer

\* Batches of at most a quarter epoch and a budget that ends at a quarter.
NoCrossing ==
  run.batch <= Rows \div CheckpointsPerEpoch /\ EndsAtQuarter(run.max) => outcome # "crossing"

\* The inductive invariant.
IInv == Types /\ Committed /\ Recoverable /\ InMemory /\ InSave /\ NoCrossing

-----------------------------------------------------------------------------
\* Arithmetic of epochs and batches

\* Division by d counts the whole d in x and leaves the rest.
LEMMA Division ==
  ASSUME NEW d \in Nat \ {0}, NEW x \in Nat
  PROVE  \E q \in Nat, r \in 0 .. d - 1 : x \div d = q /\ x % d = r /\ x = q * d + r
<1>1. x \div d \in Nat /\ x % d \in 0 .. d - 1
  OBVIOUS
<1>2. PICK q \in Nat : x \div d = q
  BY <1>1
<1>3. PICK r \in 0 .. d - 1 : x % d = r
  BY <1>1
<1>4. x = q * d + r
  BY <1>2, <1>3
<1> QED  BY <1>2, <1>3, <1>4

\* And it is the only such number.
LEMMA DivisionValue ==
  ASSUME NEW d \in Nat \ {0}, NEW x \in Nat, NEW q \in Nat, NEW r \in 0 .. d - 1, x = q * d + r
  PROVE  x \div d = q /\ x % d = r
<1>1. x % d = r
  OBVIOUS
<1>2. x \div d = q
  OBVIOUS
<1> QED  BY <1>1, <1>2

\* A whole batch is neither empty nor larger than the batch, and ends in its epoch.
LEMMA WholeBatch ==
  ASSUME NEW batch \in Nat \ {0}, NEW start \in Nat
  PROVE  /\ Whole(batch, start) \in Nat \ {0} /\ Whole(batch, start) <= batch
         /\ Whole(batch, start) = batch \/ Whole(batch, start) = Rows - (start % Rows)
         /\ Whole(batch, start) <= Rows - (start % Rows)
<1>1. Rows \in Nat \ {0}
  BY ConstantsAssumption DEF CheckpointsPerEpoch
<1>2. PICK q \in Nat, r \in 0 .. Rows - 1 :
        start \div Rows = q /\ start % Rows = r /\ start = q * Rows + r
  BY <1>1, Division
<1>3. (q + 1) * Rows - start = Rows - r
  BY <1>1, <1>2
<1>4. Whole(batch, start) = Least(batch, Rows - r)
  BY <1>2, <1>3 DEF Whole
<1>5. Whole(batch, start) \in {batch, Rows - r} /\ Whole(batch, start) <= batch
      /\ Whole(batch, start) <= Rows - r
  BY <1>1, <1>4 DEF Least
<1>6. start % Rows = r /\ r \in 0 .. Rows - 1
  BY <1>2
<1>7. Whole(batch, start) \in Nat \ {0}
  BY <1>1, <1>5, <1>6
<1> QED  BY <1>1, <1>5, <1>6, <1>7

\* Where the next batch starts.
LEMMA WithinEpoch ==
  ASSUME NEW batch \in Nat \ {0}, NEW start \in Nat, NEW count \in 1 .. Whole(batch, start)
  PROVE  /\ start \div Rows = (start + count - 1) \div Rows
         /\ count < Rows - (start % Rows) => (start + count) % Rows = (start % Rows) + count
         /\ count = Rows - (start % Rows) => (start + count) % Rows = 0
<1>1. Rows \in Nat \ {0}
  BY ConstantsAssumption DEF CheckpointsPerEpoch
<1>2. PICK q \in Nat, r \in 0 .. Rows - 1 :
        start \div Rows = q /\ start % Rows = r /\ start = q * Rows + r
  BY <1>1, Division
<1>a. Whole(batch, start) \in Nat /\ Whole(batch, start) <= Rows - (start % Rows)
  BY WholeBatch
<1>3. count \in 1 .. Rows - r
  BY <1>a, <1>1, <1>2
<1>4. start + count - 1 = q * Rows + (r + count - 1) /\ r + count - 1 \in 0 .. Rows - 1
      /\ start + count - 1 \in Nat
  BY <1>1, <1>2, <1>3
<1>5. (start + count - 1) \div Rows = q
  BY <1>4, <1>1, <1>2, DivisionValue
<1>6. ASSUME count < Rows - r
      PROVE  (start + count) % Rows = r + count
  <2>1. start + count = q * Rows + (r + count) /\ r + count \in 0 .. Rows - 1
        /\ start + count \in Nat
    BY <1>1, <1>2, <1>3, <1>6
  <2>2. PICK x \in Nat, s \in 0 .. Rows - 1 : x = start + count /\ s = r + count
    BY <2>1
  <2>3. x = q * Rows + s
    BY <2>1, <2>2
  <2>4. q \in Nat /\ s \in 0 .. Rows - 1 /\ x \in Nat
    BY <1>2, <2>2
  <2>5. x % Rows = s
    BY <2>3, <2>4, <1>1, DivisionValue
  <2> QED  BY <2>2, <2>5
<1>7. ASSUME count = Rows - r
      PROVE  (start + count) % Rows = 0
  <2>1. PICK p \in Nat : p = q + 1
    OBVIOUS
  <2>2. start + count = p * Rows + 0 /\ 0 \in 0 .. Rows - 1 /\ start + count \in Nat
    BY <1>1, <1>2, <1>3, <1>7, <2>1
  <2>3. PICK x \in Nat : x = start + count
    BY <2>2
  <2> QED  BY <2>2, <2>3, <1>1, DivisionValue
<1> QED  BY <1>1, <1>2, <1>5, <1>6, <1>7

\* After a whole batch the next one starts at a boundary; after a part of one it cannot.
LEMMA NextBoundary ==
  ASSUME NEW batch \in Nat \ {0}, NEW start \in Nat, NEW count \in 1 .. Whole(batch, start),
         Boundary(Rows, batch, start)
  PROVE  Boundary(Rows, batch, start + count) <=> count = Whole(batch, start)
<1>1. Rows \in Nat \ {0} /\ start % Rows \in Nat
  BY ConstantsAssumption DEF CheckpointsPerEpoch
<1>2. PICK r \in Nat : r = start % Rows
  BY <1>1
<1>a. PICK p \in Nat, z \in 0 .. batch - 1 :
        r \div batch = p /\ r % batch = z /\ r = p * batch + z
  BY <1>1, <1>2, Division
<1>b. z = 0
  BY <1>a, <1>2 DEF Boundary
<1>3. r = p * batch + 0
  BY <1>a, <1>b
<1>4. /\ Whole(batch, start) \in Nat \ {0} /\ Whole(batch, start) <= batch
      /\ Whole(batch, start) = batch \/ Whole(batch, start) = Rows - r
      /\ Whole(batch, start) <= Rows - r
  BY <1>1, <1>2, WholeBatch
<1>5. /\ count < Rows - r => (start + count) % Rows = r + count
      /\ count = Rows - r => (start + count) % Rows = 0
  <2>1. /\ count < Rows - (start % Rows) => (start + count) % Rows = (start % Rows) + count
        /\ count = Rows - (start % Rows) => (start + count) % Rows = 0
    BY WithinEpoch
  <2>2. start % Rows = r
    BY <1>2
  <2> QED  BY <2>1, <2>2
<1>6. 0 % batch = 0
  OBVIOUS
<1>7. ASSUME count < batch
      PROVE  (r + count) % batch # 0
  <2>1. r + count = p * batch + count /\ count \in 0 .. batch - 1 /\ r + count \in Nat
    BY <1>3, <1>7, <1>4
  <2>2. (r + count) % batch = count
    BY <2>1, DivisionValue
  <2> QED  BY <2>2, <1>4
<1>8. ASSUME count = batch
      PROVE  (r + count) % batch = 0
  <2>1. PICK s \in Nat : s = p + 1
    OBVIOUS
  <2>2. r + count = s * batch + 0 /\ 0 \in 0 .. batch - 1 /\ r + count \in Nat
    BY <1>3, <1>8, <2>1
  <2> QED  BY <2>2, DivisionValue
<1> QED  BY <1>1, <1>2, <1>4, <1>5, <1>6, <1>7, <1>8 DEF Boundary

-----------------------------------------------------------------------------
\* Histories

LEMMA HistoryEntry ==
  ASSUME NEW history \in Histories, NEW i \in DOMAIN history
  PROVE  /\ history[i][1] \in Nat /\ history[i][2] \in Nat
         /\ history[i] = <<history[i][1], history[i][2]>>
BY DEF Histories

\* The next batch keeps a history regular.
LEMMA AppendRegular ==
  ASSUME NEW batch \in Nat \ {0}, NEW end \in Nat, NEW history \in Histories,
         Regular(history, batch, end), Boundary(Rows, batch, end),
         NEW count \in 1 .. Whole(batch, end), Whole(batch, end) \in Nat
  PROVE  /\ Append(history, <<end, count>>) \in Histories
         /\ Regular(Append(history, <<end, count>>), batch, end + count)
<1> DEFINE n == Len(history)
           longer == Append(history, <<end, count>>)
<1>1. longer \in Histories /\ n \in Nat /\ Len(longer) = n + 1 /\ DOMAIN longer = 1 .. n + 1
  BY DEF Histories
<1>2. longer[n + 1] = <<end, count>> /\ \A i \in 1 .. n : longer[i] = history[i]
  BY DEF Histories
<1>3. DOMAIN history = 1 .. n /\ (history = <<>> <=> n = 0)
  BY DEF Histories
<1>4. longer # <<>> /\ longer[1][1] = 0
  <2>1. CASE n = 0
    BY <2>1, <1>1, <1>2, <1>3 DEF Regular
  <2>2. CASE n # 0
    BY <2>2, <1>1, <1>2, <1>3 DEF Regular
  <2> QED  BY <2>1, <2>2
<1> HIDE DEF longer
<1>5. ASSUME NEW i \in 1 .. n + 1
      PROVE  /\ 1 <= longer[i][2] /\ longer[i][2] <= Whole(batch, longer[i][1])
             /\ Boundary(Rows, batch, longer[i][1])
             /\ longer[i][1] + longer[i][2] = IF i = n + 1 THEN end + count ELSE longer[i + 1][1]
  <2>1. CASE i = n + 1
    BY <2>1, <1>2
  <2>2. CASE i \in 1 .. n
    <3>1. longer[i] = history[i] /\ i # n + 1
      BY <2>2, <1>1, <1>2
    <3>2. /\ 1 <= history[i][2] /\ history[i][2] <= Whole(batch, history[i][1])
          /\ Boundary(Rows, batch, history[i][1])
          /\ history[i][1] + history[i][2] = IF i = n THEN end ELSE history[i + 1][1]
      BY <2>2, <1>3 DEF Regular
    <3>3. longer[i + 1][1] = IF i = n THEN end ELSE history[i + 1][1]
      BY <2>2, <1>1, <1>2
    <3> QED  BY <3>1, <3>2, <3>3
  <2> QED  BY <2>1, <2>2, <1>1
<1>6. Regular(longer, batch, end + count)
  BY <1>1, <1>4, <1>5 DEF Regular
<1> QED  BY <1>1, <1>6 DEF longer

\* Of two regular histories with the same starts, the longer one starts its next update
\* where the shorter one ends, when that is a boundary.
LEMMA NextStart ==
  ASSUME NEW batch \in Nat \ {0}, NEW end \in Nat, NEW later \in Nat,
         NEW one \in Histories, NEW other \in Histories,
         Regular(one, batch, end), Regular(other, batch, later), SameStarts(one, other),
         Boundary(Rows, batch, end), Len(one) < Len(other)
  PROVE  other[Len(one) + 1][1] = end
<1>1. Len(one) \in Nat /\ DOMAIN one = 1 .. Len(one) /\ (one = <<>> <=> Len(one) = 0)
      /\ Len(other) \in Nat /\ DOMAIN other = 1 .. Len(other)
      /\ (other = <<>> <=> Len(other) = 0)
  BY DEF Histories
<1>2. PICK n \in Nat, m \in Nat : n = Len(one) /\ m = Len(other) /\ n < m
  BY <1>1
<1>3. CASE n = 0
  <2>1. one = <<>> /\ other # <<>>
    BY <1>1, <1>2, <1>3
  <2> QED  BY <2>1, <1>2, <1>3 DEF Regular
<1>4. CASE n # 0
  <2>0. n \in 1 .. n /\ n \in 1 .. m /\ n + 1 \in 1 .. m /\ n # m
    BY <1>2, <1>4
  <2>1. n \in DOMAIN one /\ n \in DOMAIN other /\ n + 1 \in DOMAIN other
    BY <1>1, <1>2, <2>0
  <2>2. PICK start \in Nat : start = one[n][1] /\ start = other[n][1]
    BY <2>1, HistoryEntry DEF SameStarts
  <2>3. Whole(batch, start) \in Nat
    BY WholeBatch
  <2>4. one[n][2] \in 1 .. Whole(batch, start) /\ Boundary(Rows, batch, start)
        /\ start + one[n][2] = end
    <3>1. one[n][2] \in Nat
      BY <2>1, HistoryEntry
    <3>2. /\ 1 <= one[n][2] /\ one[n][2] <= Whole(batch, one[n][1])
          /\ Boundary(Rows, batch, one[n][1]) /\ one[n][1] + one[n][2] = end
      BY <2>1, <1>2 DEF Regular
    <3> QED  BY <3>1, <3>2, <2>2, <2>3
  <2>5. other[n][2] \in 1 .. Whole(batch, start) /\ start + other[n][2] = other[n + 1][1]
        /\ Boundary(Rows, batch, other[n + 1][1])
    <3>1. other[n][2] \in Nat
      BY <2>1, HistoryEntry
    <3>2. /\ 1 <= other[n][2] /\ other[n][2] <= Whole(batch, other[n][1])
          /\ other[n][1] + other[n][2] = other[n + 1][1]
          /\ Boundary(Rows, batch, other[n + 1][1])
      BY <2>0, <2>1, <1>2 DEF Regular
    <3> QED  BY <3>1, <3>2, <2>2, <2>3
  <2>7. one[n][2] = Whole(batch, start)
    BY <2>4, NextBoundary
  <2>8. other[n][2] = Whole(batch, start)
    <3>1. Boundary(Rows, batch, start + other[n][2])
      BY <2>5
    <3> QED  BY <2>4, <2>5, <3>1, NextBoundary
  <2> QED  BY <1>2, <2>4, <2>5, <2>7, <2>8
<1> QED  BY <1>3, <1>4

LEMMA AppendSameStarts ==
  ASSUME NEW batch \in Nat \ {0}, NEW end \in Nat, NEW later \in Nat, NEW count \in Nat,
         NEW one \in Histories, NEW other \in Histories,
         Regular(one, batch, end), Regular(other, batch, later), SameStarts(one, other),
         Boundary(Rows, batch, end)
  PROVE  SameStarts(Append(one, <<end, count>>), other)
<1>1. Len(one) \in Nat /\ DOMAIN one = 1 .. Len(one) /\ DOMAIN other = 1 .. Len(other)
      /\ Len(other) \in Nat
  BY DEF Histories
<1>2. /\ DOMAIN Append(one, <<end, count>>) = 1 .. Len(one) + 1
      /\ Append(one, <<end, count>>)[Len(one) + 1] = <<end, count>>
      /\ \A i \in 1 .. Len(one) : Append(one, <<end, count>>)[i] = one[i]
  BY DEF Histories
<1>3. Len(one) < Len(other) => other[Len(one) + 1][1] = end
  BY NextStart
<1> QED  BY <1>1, <1>2, <1>3 DEF SameStarts

\* Regular histories with the same starts, length and end went through the same updates.
LEMMA EqualHistories ==
  ASSUME NEW batch, NEW end \in Nat, NEW one \in Histories, NEW other \in Histories,
         Regular(one, batch, end), Regular(other, batch, end), SameStarts(one, other),
         Len(one) = Len(other)
  PROVE  one = other
<1>1. Len(one) \in Nat /\ DOMAIN one = 1 .. Len(one) /\ DOMAIN other = 1 .. Len(one)
  BY DEF Histories
<1>2. ASSUME NEW i \in 1 .. Len(one)
      PROVE  one[i] = other[i]
  <2>1. /\ one[i][1] \in Nat /\ one[i][2] \in Nat /\ one[i] = <<one[i][1], one[i][2]>>
        /\ other[i][1] \in Nat /\ other[i][2] \in Nat /\ other[i] = <<other[i][1], other[i][2]>>
    BY <1>1, HistoryEntry
  <2>2. one[i][1] = other[i][1]
    BY <1>1 DEF SameStarts
  <2>3. one[i][1] + one[i][2] = IF i = Len(one) THEN end ELSE one[i + 1][1]
    BY <1>1 DEF Regular
  <2>4. other[i][1] + other[i][2] = IF i = Len(one) THEN end ELSE other[i + 1][1]
    BY <1>1 DEF Regular
  <2>5. i # Len(one) => one[i + 1][1] = other[i + 1][1]
    <3> SUFFICES ASSUME i # Len(one)
                 PROVE  one[i + 1][1] = other[i + 1][1]
      OBVIOUS
    <3>0. PICK n \in Nat : n = Len(one)
      BY <1>1
    <3>1. i + 1 \in 1 .. Len(one)
      BY <3>0
    <3> QED  BY <3>1, <1>1 DEF SameStarts
  <2>6. one[i][2] = other[i][2]
    BY <2>1, <2>2, <2>3, <2>4, <2>5
  <2> QED  BY <2>1, <2>2, <2>6
<1>3. one = [i \in 1 .. Len(one) |-> one[i]] /\ other = [i \in 1 .. Len(one) |-> other[i]]
  BY <1>1 DEF Histories
<1> QED  BY <1>2, <1>3

\* The same update keeps a suffix a suffix, and any update keeps a prefix a prefix.
LEMMA AppendSuffix ==
  ASSUME NEW short \in Histories, NEW long \in Histories, NEW update \in Nat \X Nat,
         IsSuffixOf(short, long)
  PROVE  IsSuffixOf(Append(short, update), Append(long, update))
<1> DEFINE m == Len(short)
           n == Len(long)
           s == Append(short, update)
           l == Append(long, update)
<1>0. m \in Nat /\ n \in Nat /\ DOMAIN short = 1 .. m
  BY DEF Histories
<1>1. m \in Nat /\ n \in Nat /\ m <= n /\ DOMAIN short = 1 .. m
      /\ \A i \in 1 .. m : short[i] = long[n - m + i]
  BY <1>0 DEF IsSuffixOf
<1>2. /\ Len(s) = m + 1 /\ DOMAIN s = 1 .. m + 1
      /\ s[m + 1] = update /\ \A i \in 1 .. m : s[i] = short[i]
  BY DEF Histories
<1>3. Len(l) = n + 1 /\ l[n + 1] = update /\ \A i \in 1 .. n : l[i] = long[i]
  BY DEF Histories
<1> HIDE DEF m, n, s, l
<1>4. ASSUME NEW i \in 1 .. m + 1
      PROVE  s[i] = l[(n + 1) - (m + 1) + i]
  <2>1. CASE i = m + 1
    <3>1. (n + 1) - (m + 1) + i = n + 1
      BY <2>1, <1>1
    <3> QED  BY <3>1, <2>1, <1>2, <1>3
  <2>2. CASE i \in 1 .. m
    <3>1. (n + 1) - (m + 1) + i = n - m + i /\ n - m + i \in 1 .. n
      BY <2>2, <1>1
    <3> QED  BY <3>1, <2>2, <1>1, <1>2, <1>3
  <2> QED  BY <2>1, <2>2, <1>1
<1>5. IsSuffixOf(s, l)
  BY <1>1, <1>2, <1>3, <1>4 DEF IsSuffixOf
<1> QED  BY <1>5 DEF s, l

LEMMA AppendPrefix ==
  ASSUME NEW short \in Histories, NEW long \in Histories, NEW update \in Nat \X Nat,
         IsPrefixOf(short, long)
  PROVE  IsPrefixOf(short, Append(long, update))
<1>1. Len(short) \in Nat /\ Len(long) \in Nat /\ DOMAIN short = 1 .. Len(short)
  BY DEF Histories
<1>2. /\ Len(Append(long, update)) = Len(long) + 1
      /\ \A i \in 1 .. Len(long) : Append(long, update)[i] = long[i]
  BY DEF Histories
<1> QED  BY <1>1, <1>2 DEF IsPrefixOf

-----------------------------------------------------------------------------
\* Checkpoint targets

LEMMA TargetForm ==
  ASSUME NEW n, NEW max, NEW t \in Targets(n, max)
  PROVE  \/ t = max
         \/ /\ t <= max
            /\ \E epoch \in 0 .. CeilDiv(max, n) - 1, part \in 1 .. CheckpointsPerEpoch :
                 t = epoch * n + CeilDiv(part * n, CheckpointsPerEpoch)
BY DEF Targets

LEMMA TargetsAreCounts ==
  ASSUME NEW max \in Nat
  PROVE  Targets(Rows, max) \subseteq Int
<1>1. Rows \in Nat \ {0}
  BY ConstantsAssumption DEF CheckpointsPerEpoch
<1>2. ASSUME NEW epoch \in Int, NEW part \in 1 .. CheckpointsPerEpoch
      PROVE  epoch * Rows + CeilDiv(part * Rows, CheckpointsPerEpoch) \in Int
  <2>1. PICK m \in Int : m = part * Rows
    BY <1>1 DEF CheckpointsPerEpoch
  <2>2. CeilDiv(m, CheckpointsPerEpoch) \in Int
    BY DEF CeilDiv, CheckpointsPerEpoch
  <2> QED  BY <2>1, <2>2, <1>1
<1>3. CeilDiv(max, Rows) - 1 \in Int
  <2>1. PICK x \in Nat : x = max + Rows - 1
    BY <1>1
  <2>2. x \div Rows \in Int
    BY <1>1
  <2> QED  BY <2>1, <2>2 DEF CeilDiv
<1>4. ASSUME NEW t \in Targets(Rows, max)
      PROVE  t \in Int
  <2>1. CASE t = max
    BY <2>1
  <2>2. CASE \E epoch \in 0 .. CeilDiv(max, Rows) - 1, part \in 1 .. CheckpointsPerEpoch :
               t = epoch * Rows + CeilDiv(part * Rows, CheckpointsPerEpoch)
    BY <2>2, <1>2, <1>3
  <2> QED  BY <2>1, <2>2, TargetForm
<1> QED  BY <1>4

LEMMA CrossedBounds ==
  ASSUME NEW c, c.samples_per_epoch = Rows, c.max_samples \in Nat, c.consumed \in Nat,
         NEW samples \in Nat
  PROVE  /\ Crossed(c, samples) \subseteq c.consumed + 1 .. c.consumed + samples
         /\ IsFiniteSet(Crossed(c, samples))
<1>1. Targets(c.samples_per_epoch, c.max_samples) \subseteq Int
  BY TargetsAreCounts
<1>3. Crossed(c, samples) \subseteq c.consumed + 1 .. c.consumed + samples
  BY <1>1 DEF Crossed
<1>4. IsFiniteSet(c.consumed + 1 .. c.consumed + samples)
  BY FS_Interval
<1> QED  BY <1>3, <1>4, FS_Subset

\* An update that is accepted crosses one target or none.
LEMMA CrossedOnce ==
  ASSUME NEW c \in Clocks, NEW samples \in Nat, Acceptable(c, samples),
         NEW t \in Crossed(c, samples)
  PROVE  Crossed(c, samples) = {t}
<1>1. IsFiniteSet(Crossed(c, samples)) /\ Cardinality(Crossed(c, samples)) <= 1
  BY CrossedBounds DEF Acceptable, Clocks
<1>2. ASSUME NEW u \in Crossed(c, samples), u # t
      PROVE  FALSE
  <2>1. {t, u} \subseteq Crossed(c, samples)
    OBVIOUS
  <2>2. IsFiniteSet({t}) /\ Cardinality({t}) = 1
    BY FS_Singleton
  <2>3. Cardinality({t} \union {u}) = Cardinality({t}) + 1
    BY <2>2, <1>2, FS_AddElement
  <2>4. {t} \union {u} = {t, u}
    OBVIOUS
  <2>5. Cardinality({t, u}) = 2
    BY <2>2, <2>3, <2>4
  <2>6. Cardinality({t, u}) <= Cardinality(Crossed(c, samples))
    BY <2>1, <1>1, FS_Subset
  <2>7. Cardinality(Crossed(c, samples)) \in Nat
    BY <1>1, FS_CardinalityType
  <2> QED  BY <1>1, <2>5, <2>6, <2>7
<1> QED  BY <1>2

\* The clock after the update passes its own check.
LEMMA AdvancedVerified ==
  ASSUME NEW c \in Clocks, NEW samples \in Nat, Acceptable(c, samples)
  PROVE  /\ Advanced(c, samples) \in Clocks
         /\ \A t \in Crossed(c, samples) : Verified(Advanced(c, samples), t)
<1> DEFINE a == Advanced(c, samples)
           previous == [a EXCEPT !.consumed = @ - a.last, !.updates = @ - 1]
<1>0. a = [c EXCEPT !.consumed = c.consumed + samples, !.updates = c.updates + 1, !.last = samples]
  BY DEF Advanced
<1>1. /\ a \in Clocks /\ a.samples_per_epoch = c.samples_per_epoch /\ a.max_samples = c.max_samples
      /\ a.consumed = c.consumed + samples /\ a.updates = c.updates + 1 /\ a.last = samples
      /\ c.updates \in Nat /\ c.consumed \in Nat
  <2> HIDE DEF a
  <2>1. PICK m \in Nat \ {0}, k \in Nat, u \in Nat, l \in Nat :
          c = [samples_per_epoch |-> Rows, max_samples |-> m, consumed |-> k,
               updates |-> u, last |-> l]
    BY DEF Clocks
  <2>2. a = [samples_per_epoch |-> Rows, max_samples |-> m,
             consumed |-> k + samples, updates |-> u + 1, last |-> samples]
    BY <1>0, <2>1
  <2>3. a \in Clocks
    BY <2>1, <2>2 DEF Clocks
  <2> QED  BY <2>1, <2>2, <2>3
<1>2. previous.samples_per_epoch = c.samples_per_epoch /\ previous.max_samples = c.max_samples
      /\ previous.consumed = c.consumed
  BY <1>1 DEF Clocks
<1> HIDE DEF a, previous
<1>3. Crossed(previous, samples) = Crossed(c, samples)
  BY <1>2 DEF Crossed
<1>4. Acceptable(previous, samples)
  BY <1>2, <1>3 DEF Acceptable, Done
<1>5. samples >= 1
  BY DEF Acceptable
<1>6. ASSUME NEW t \in Crossed(c, samples)
      PROVE  Verified(a, t)
  <2>1. Crossed(previous, samples) = {t}
    BY <1>3, CrossedOnce
  <2> QED  BY <2>1, <1>1, <1>2, <1>4, <1>5 DEF Verified, previous
<1> QED  BY <1>1, <1>6 DEF a

\* The target a clock was checked with lies in its last update.
LEMMA VerifiedTarget ==
  ASSUME NEW c \in Clocks, NEW t, Verified(c, t)
  PROVE  /\ t \in Nat /\ c.consumed >= 1 /\ c.last >= 1 /\ c.last <= c.consumed
         /\ c.consumed - c.last < t /\ t <= c.consumed
<1> DEFINE previous == [c EXCEPT !.consumed = @ - c.last, !.updates = @ - 1]
<1>1. /\ c.consumed \in Nat /\ c.last \in Nat /\ c.last >= 1
      /\ previous.consumed = c.consumed - c.last
      /\ previous.consumed >= 0
  BY DEF Verified, Clocks
<1>2. t \in Crossed(previous, c.last)
  BY DEF Verified
<1>3. previous.consumed < t /\ t <= previous.consumed + c.last /\ t \in Int
  <2>1. previous.samples_per_epoch = Rows /\ previous.max_samples \in Nat
        /\ previous.consumed \in Nat
    BY <1>1 DEF Clocks
  <2> HIDE DEF previous
  <2>2. t \in previous.consumed + 1 .. previous.consumed + c.last
    BY <2>1, <1>1, <1>2, CrossedBounds
  <2> QED  BY <2>1, <2>2, <1>1
<1> QED  BY <1>1, <1>3

\* The quarters of an epoch lie at least a quarter of its rows apart.
LEMMA QuarterGap ==
  ASSUME NEW p \in 1 .. CheckpointsPerEpoch
  PROVE  /\ CeilDiv(p * Rows, CheckpointsPerEpoch) \in 1 .. Rows
         /\ \A o \in 1 .. CheckpointsPerEpoch : o < p =>
              CeilDiv(p * Rows, CheckpointsPerEpoch) - CeilDiv(o * Rows, CheckpointsPerEpoch)
                >= Rows \div CheckpointsPerEpoch
<1>1. Rows \in Nat /\ Rows >= 4 /\ p \in {1, 2, 3, 4}
  BY ConstantsAssumption DEF CheckpointsPerEpoch
<1> DEFINE q1 == (Rows + 3) \div 4
           q2 == (2 * Rows + 3) \div 4
           q3 == (3 * Rows + 3) \div 4
           q4 == (4 * Rows + 3) \div 4
           quarter == Rows \div 4
<1>2. q1 \in 1 .. Rows /\ q2 \in 1 .. Rows /\ q3 \in 1 .. Rows /\ q4 = Rows
  BY <1>1
<1>3. q2 - q1 >= quarter /\ q3 - q2 >= quarter /\ q4 - q3 >= quarter /\ quarter \in Nat
  BY <1>1
<1>4. /\ CeilDiv(1 * Rows, 4) = q1 /\ CeilDiv(2 * Rows, 4) = q2
      /\ CeilDiv(3 * Rows, 4) = q3 /\ CeilDiv(4 * Rows, 4) = q4
  BY <1>1 DEF CeilDiv
<1> HIDE DEF q1, q2, q3, q4
<1>5. CeilDiv(p * Rows, 4) \in 1 .. Rows
  BY <1>1, <1>2, <1>4
<1>6. ASSUME NEW o \in {1, 2, 3, 4}, o < p
      PROVE  CeilDiv(p * Rows, 4) - CeilDiv(o * Rows, 4) >= quarter
  <2> HIDE DEF quarter
  <2> QED  BY <1>1, <1>2, <1>3, <1>4, <1>6
<1> QED  BY <1>5, <1>6 DEF CheckpointsPerEpoch

\* With a budget that ends at a quarter all targets are quarters of epochs.
LEMMA QuarterForm ==
  ASSUME NEW max \in Nat, EndsAtQuarter(max), NEW t \in Targets(Rows, max)
  PROVE  \E epoch \in Int, part \in 1 .. CheckpointsPerEpoch :
           t = epoch * Rows + CeilDiv(part * Rows, CheckpointsPerEpoch)
<1>1. Rows \in Nat \ {0}
  BY ConstantsAssumption DEF CheckpointsPerEpoch
<1>2. ASSUME t = max
      PROVE  \E epoch \in Int, part \in 1 .. CheckpointsPerEpoch :
               t = epoch * Rows + CeilDiv(part * Rows, CheckpointsPerEpoch)
  <2>1. PICK part \in 1 .. CheckpointsPerEpoch :
          (max - CeilDiv(part * Rows, CheckpointsPerEpoch)) % Rows = 0
    BY DEF EndsAtQuarter
  <2>2. PICK place \in Int : place = CeilDiv(part * Rows, CheckpointsPerEpoch)
    BY QuarterGap
  <2>3. PICK x \in Int : x = max - place
    OBVIOUS
  <2>4. x \div Rows \in Int /\ x % Rows = 0
    BY <2>1, <2>2, <2>3, <1>1
  <2>5. PICK epoch \in Int : x \div Rows = epoch
    BY <2>4
  <2>6. x = epoch * Rows + 0
    BY <2>4, <2>5, <1>1
  <2>7. t = epoch * Rows + CeilDiv(part * Rows, CheckpointsPerEpoch)
    <3>1. PICK y \in Int : y = epoch * Rows
      BY <1>1
    <3> QED  BY <3>1, <2>2, <2>3, <2>6, <1>2
  <2> QED  BY <2>7
<1>3. CeilDiv(max, Rows) - 1 \in Int
  <2>1. PICK x \in Nat : x = max + Rows - 1
    BY <1>1
  <2>2. x \div Rows \in Int
    BY <1>1
  <2> QED  BY <2>1, <2>2 DEF CeilDiv
<1>4. ASSUME \E epoch \in 0 .. CeilDiv(max, Rows) - 1, part \in 1 .. CheckpointsPerEpoch :
               t = epoch * Rows + CeilDiv(part * Rows, CheckpointsPerEpoch)
      PROVE  \E epoch \in Int, part \in 1 .. CheckpointsPerEpoch :
               t = epoch * Rows + CeilDiv(part * Rows, CheckpointsPerEpoch)
  <2>1. 0 .. CeilDiv(max, Rows) - 1 \subseteq Int
    BY <1>3
  <2> QED  BY <2>1, <1>4
<1> QED  BY <1>2, <1>4, TargetForm

\* An epoch's rows: a number between two multiples of Rows has one of them below it.
LEMMA SameEpoch ==
  ASSUME NEW q \in Int, NEW e \in Int, NEW place \in 1 .. Rows,
         q * Rows < e * Rows + place, e * Rows + place <= (q + 1) * Rows
  PROVE  e = q
<1>1. Rows \in Nat \ {0}
  BY ConstantsAssumption DEF CheckpointsPerEpoch
<1>2. CASE e < q
  <2>1. (e + 1) * Rows <= q * Rows
    BY <1>1, <1>2
  <2> QED  BY <1>1, <2>1
<1>3. CASE e > q
  <2>1. (q + 1) * Rows <= e * Rows
    BY <1>1, <1>3
  <2> QED  BY <1>1, <2>1
<1> QED  BY <1>2, <1>3

\* A batch of at most a quarter of the rows then never crosses two targets.
LEMMA QuarterPerBatch ==
  ASSUME NEW max \in Nat, EndsAtQuarter(max),
         NEW batch \in Nat \ {0}, batch <= Rows \div CheckpointsPerEpoch,
         NEW consumed \in Nat, NEW count \in 1 .. Whole(batch, consumed),
         NEW t \in Targets(Rows, max), NEW u \in Targets(Rows, max),
         consumed < t, t < u, u <= consumed + count
  PROVE  FALSE
<1>1. Rows \in Nat \ {0}
  BY ConstantsAssumption DEF CheckpointsPerEpoch
<1>2. PICK q \in Nat, r \in 0 .. Rows - 1 :
        consumed \div Rows = q /\ consumed % Rows = r /\ consumed = q * Rows + r
  BY <1>1, Division
<1>3. /\ Whole(batch, consumed) \in Nat /\ Whole(batch, consumed) <= batch
      /\ Whole(batch, consumed) <= Rows - (consumed % Rows)
  BY WholeBatch
<1>4. count \in Nat /\ count <= batch /\ count <= Rows - r
  BY <1>1, <1>2, <1>3
<1>5. PICK d \in Int, o \in 1 .. CheckpointsPerEpoch :
        t = d * Rows + CeilDiv(o * Rows, CheckpointsPerEpoch)
  BY QuarterForm
<1>6. PICK e \in Int, p \in 1 .. CheckpointsPerEpoch :
        u = e * Rows + CeilDiv(p * Rows, CheckpointsPerEpoch)
  BY QuarterForm
<1>7. PICK a \in 1 .. Rows : a = CeilDiv(o * Rows, CheckpointsPerEpoch)
  BY QuarterGap
<1>8. PICK b \in 1 .. Rows : b = CeilDiv(p * Rows, CheckpointsPerEpoch)
  BY QuarterGap
<1>9. PICK start \in Int : start = q * Rows /\ (q + 1) * Rows = start + Rows
  BY <1>1, <1>2
<1>10. t \in Int /\ u \in Int /\ t = d * Rows + a /\ u = e * Rows + b
  BY <1>1, <1>5, <1>6, <1>7, <1>8
<1>11. consumed = start + r /\ start < t /\ u <= start + Rows /\ t <= start + Rows /\ start < u
  BY <1>1, <1>2, <1>4, <1>9, <1>10
<1>12. d = q /\ e = q
  BY <1>9, <1>10, <1>11, <1>2, SameEpoch
<1>13. t = start + a /\ u = start + b
  BY <1>9, <1>10, <1>12
<1>14. a < b /\ b - a < count
  BY <1>4, <1>11, <1>13, <1>1, <1>2
<1>15. o < p
  <2>1. o # p
    BY <1>14, <1>7, <1>8
  <2>2. p < o => a - b >= Rows \div CheckpointsPerEpoch
    BY <1>7, <1>8, QuarterGap
  <2>3. Rows \div CheckpointsPerEpoch \in Nat
    BY <1>1 DEF CheckpointsPerEpoch
  <2>4. ~(p < o)
    BY <2>2, <2>3, <1>14
  <2>5. o \in Int /\ p \in Int
    BY DEF CheckpointsPerEpoch
  <2> QED  BY <2>1, <2>4, <2>5
<1>16. b - a >= Rows \div CheckpointsPerEpoch
  BY <1>15, <1>7, <1>8, QuarterGap
<1>17. Rows \div CheckpointsPerEpoch \in Nat
  BY <1>1 DEF CheckpointsPerEpoch
<1> QED  BY <1>4, <1>14, <1>16, <1>17

-----------------------------------------------------------------------------
\* What the steps leave alone

LEMMA StoresStay ==
  ASSUME Committed, Recoverable, UNCHANGED <<models, generations, pointer>>
  PROVE  Committed' /\ Recoverable'
BY DEF Committed, Recoverable, Paired

LEMMA MemoryStays ==
  ASSUME InMemory, pc \notin {"down", "setup"},
         UNCHANGED <<run, clock, target, model, adam, models>>,
         pc' # "setup", pc \in Sealing => pc' \in Sealing
  PROVE  InMemory'
BY DEF InMemory, Covered

\* A job that ends keeps no memory.
LEMMA JobEnds ==
  ASSUME IInv, pc' = "down", outcome' \in Outcomes, Forgotten, run' \in {run, NoRun},
         UNCHANGED <<models, generations, staged, pointer>>, launches' \in Nat, losses' \in Nat
  PROVE  Types' /\ Committed' /\ Recoverable' /\ InMemory' /\ InSave'
<1>1. NewClock(Rows, 1) \in Clocks
  BY ConstantsAssumption DEF NewClock, Clocks
<1>2. NoRun \in Runs /\ NoRun.batch = 1
  BY DEF NoRun, Runs, Names
<1>3. <<>> \in Histories
  BY DEF Histories
<1>4. Types'
  BY <1>1, <1>2, <1>3 DEF IInv, Types, Forgotten, Store, Points, Names
<1>5. Committed' /\ Recoverable'
  BY StoresStay DEF IInv
<1>6. InMemory'
  BY DEF InMemory
<1>7. InSave'
  BY DEF InSave, Sealing, Recovering
<1> QED  BY <1>4, <1>5, <1>6, <1>7

LEMMA StopKeepsIInv ==
  ASSUME IInv, NEW why \in Outcomes \ {"crossing"}, Stop(why),
         UNCHANGED <<files, launches, losses>>,
         run' \in {run, NoRun}
  PROVE  IInv'
<1>1. launches' \in Nat /\ losses' \in Nat
  BY DEF IInv, Types
<1>2. Types' /\ Committed' /\ Recoverable' /\ InMemory' /\ InSave'
  BY <1>1, JobEnds DEF Stop, files
<1>3. NoCrossing'
  BY DEF NoCrossing, Stop
<1> QED  BY <1>2, <1>3 DEF IInv

-----------------------------------------------------------------------------
\* Init and the steps

LEMMA InitIInv == Init => IInv
<1> SUFFICES ASSUME Init  PROVE IInv
  OBVIOUS
<1>1. NewClock(Rows, 1) \in Clocks
  BY ConstantsAssumption DEF NewClock, Clocks
<1>2. NoRun \in Runs /\ NoRun.batch = 1
  BY DEF NoRun, Runs, Names
<1>3. <<>> \in Histories
  BY DEF Histories
<1>4. DOMAIN <<>> = {} /\ Store(<<>>)
  BY DEF Store
<1>5. staged = [kind \in {"model", "recovery"} |-> <<>>]
  BY DEF Init
<1>6. staged["model"] = <<>> /\ staged["recovery"] = <<>>
  BY <1>5
<1>7. staged \in [{"model", "recovery"} -> {staged["model"], staged["recovery"]}]
  BY <1>5, <1>6
<1>8. Types
  BY <1>1, <1>2, <1>3, <1>4, <1>6, <1>7 DEF Init, Types, Points, Outcomes, Names
<1>9. Committed /\ Recoverable
  BY <1>4 DEF Init, Committed, Recoverable
<1>10. InMemory /\ InSave /\ NoCrossing
  BY DEF Init, InMemory, InSave, Sealing, Recovering, NoCrossing
<1> QED  BY <1>8, <1>9, <1>10 DEF IInv

LEMMA LaunchKeepsIInv == IInv /\ Launch => IInv'
<1> SUFFICES ASSUME IInv, Launch  PROVE IInv'
  OBVIOUS
<1>1. PICK batch \in BatchSizes, max \in Budgets, mode \in Modes :
        \/ run' = [NoRun EXCEPT !.batch = batch, !.max = max, !.mode = mode]
        \/ \E from \in DOMAIN models, recovery \in DOMAIN generations \union {None} :
             run' = [batch |-> batch, max |-> max, start |-> models[from].clock.consumed,
                     from |-> from, recovery |-> recovery, mode |-> mode]
  BY DEF Launch
<1>2. batch \in Nat \ {0} /\ max \in Nat \ {0} /\ mode \in [saving : BOOLEAN, validating : BOOLEAN]
  BY <1>1, ConstantsAssumption
<1>3. /\ run' \in Runs /\ run'.batch \in BatchSizes
      /\ run'.from # None => run'.from \in DOMAIN models
      /\ run'.from = None => run'.recovery = None /\ run'.start = 0
      /\ run'.recovery # None => run'.recovery \in DOMAIN generations
  <2>1. CASE run' = [NoRun EXCEPT !.batch = batch, !.max = max, !.mode = mode]
    <3>1. run' = [batch |-> batch, max |-> max, start |-> 0, from |-> None, recovery |-> None,
                  mode |-> mode]
      BY <2>1 DEF NoRun
    <3> QED  BY <3>1, <1>1, <1>2 DEF Runs, Names
  <2>2. ASSUME NEW from \in DOMAIN models, NEW recovery \in DOMAIN generations \union {None},
               run' = [batch |-> batch, max |-> max, start |-> models[from].clock.consumed,
                       from |-> from, recovery |-> recovery, mode |-> mode]
        PROVE  /\ run' \in Runs /\ run'.batch \in BatchSizes
               /\ run'.from # None => run'.from \in DOMAIN models
               /\ run'.from = None => run'.recovery = None /\ run'.start = 0
               /\ run'.recovery # None => run'.recovery \in DOMAIN generations
    <3>1. models[from] \in Directories /\ DOMAIN models \subseteq Nat
            /\ DOMAIN generations \subseteq Nat
      BY DEF IInv, Types, Store
    <3>2. models[from].clock.consumed \in Nat
      BY <3>1 DEF Directories, Clocks
    <3>3. from \in Nat /\ from # None /\ recovery \in Names
      BY <3>1, ConstantsAssumption DEF Names
    <3> QED  BY <3>2, <3>3, <2>2, <1>1, <1>2 DEF Runs, Names
  <2> QED  BY <1>1, <2>1, <2>2
<1>4. Types'
  BY <1>3 DEF IInv, Types, Launch, memory, files, Store, Points, Outcomes
<1>5. Committed' /\ Recoverable'
  BY StoresStay DEF IInv, Launch, files
<1>6. InMemory' /\ NoCrossing'
  BY DEF Launch, InMemory, NoCrossing
<1>7. InSave'
  BY <1>3 DEF Launch, files, InSave, Sealing, Recovering
<1> QED  BY <1>4, <1>5, <1>6, <1>7 DEF IInv

LEMMA ValidateKeepsIInv == IInv /\ Validate => IInv'
<1> SUFFICES ASSUME IInv, Validate  PROVE IInv'
  OBVIOUS
<1>1. CASE ValidationCoverage = 0 .. HeldOut - 1
  <2>1. pc = "validate" /\ pc' = "train"
          /\ UNCHANGED <<outcome, run, memory, files, launches, losses>>
    BY <1>1 DEF Validate, Continue, Goto
  <2>2. Types'
    BY <2>1 DEF IInv, Types, memory, files, Store, Points
  <2>3. Committed' /\ Recoverable'
    BY <2>1, StoresStay DEF IInv, files
  <2>4. InMemory'
    BY <2>1, MemoryStays DEF IInv, memory, files, Sealing
  <2>5. InSave' /\ NoCrossing'
    BY <2>1 DEF IInv, InSave, NoCrossing, Sealing, Recovering
  <2> QED  BY <2>2, <2>3, <2>4, <2>5 DEF IInv
<1>2. CASE ValidationCoverage # 0 .. HeldOut - 1
  BY <1>2, StopKeepsIInv DEF Validate, Outcomes
<1> QED  BY <1>1, <1>2

LEMMA FinishKeepsIInv == IInv /\ Finish => IInv'
BY StopKeepsIInv DEF Finish, Outcomes

LEMMA CrashKeepsIInv == IInv /\ Crash => IInv'
BY StopKeepsIInv DEF Crash, Outcomes

\* The trainer's batch is whole unless it ends the budget.
LEMMA ExpectedBatch ==
  ASSUME NEW c \in Clocks, NEW batch \in Nat \ {0}, ~Done(c)
  PROVE  /\ ExpectedSamples(c, batch) \in 1 .. Whole(batch, c.consumed)
         /\ \/ ExpectedSamples(c, batch) = Whole(batch, c.consumed)
            \/ c.consumed + ExpectedSamples(c, batch) = c.max_samples
<1>1. Rows \in Nat \ {0} /\ c.samples_per_epoch = Rows /\ c.consumed \in Nat
        /\ c.max_samples \in Nat
      /\ c.consumed < c.max_samples
  BY ConstantsAssumption DEF CheckpointsPerEpoch, Clocks, Done
<1>2. PICK q \in Nat, r \in 0 .. Rows - 1 :
        c.consumed \div Rows = q /\ c.consumed % Rows = r /\ c.consumed = q * Rows + r
  BY <1>1, Division
<1>3. PICK rest \in Nat \ {0} : (q + 1) * Rows - c.consumed = rest
  <2>1. (q + 1) * Rows - c.consumed = Rows - r
    BY <1>1, <1>2
  <2>2. Rows - r \in Nat \ {0}
    BY <1>1, <1>2
  <2> QED  BY <2>1, <2>2
<1>4. Whole(batch, c.consumed) = Least(batch, rest)
  BY <1>2, <1>3 DEF Whole
<1>5. ExpectedSamples(c, batch) = Least(batch, Least(c.max_samples - c.consumed, rest))
  BY <1>1, <1>2, <1>3 DEF ExpectedSamples
<1>6. PICK left \in Nat \ {0} : left = c.max_samples - c.consumed
  BY <1>1
<1>7. /\ Least(batch, Least(left, rest)) \in 1 .. Least(batch, rest)
      /\ Least(batch, Least(left, rest)) = Least(batch, rest)
           \/ Least(batch, Least(left, rest)) = left
  BY DEF Least
<1> QED  BY <1>1, <1>4, <1>5, <1>6, <1>7

LEMMA SetupKeepsIInv == IInv /\ Setup => IInv'
<1> SUFFICES ASSUME IInv, Setup  PROVE IInv'
  OBVIOUS
<1> DEFINE fresh == run.from = None
           admitted == /\ fresh \/ Admitted(run.from)
                       /\ run.recovery # None => Loadable(run.recovery, Restored(run.from))
                       /\ run.batch >= Cardinality(Ranks)
<1>1. CASE ~admitted
  <2>1. Stop("refused") /\ UNCHANGED <<run, files, launches, losses>>
    BY <1>1 DEF Setup
  <2> QED  BY <2>1, StopKeepsIInv DEF Outcomes
<1>2. CASE admitted
  <2>1. /\ clock' = IF fresh THEN NewClock(Rows, run.max) ELSE Restored(run.from)
        /\ model' = IF fresh THEN <<>> ELSE models[run.from].state
        /\ adam' = IF run.recovery = None THEN <<>> ELSE generations[run.recovery].state
        /\ target' = None /\ old' = None
        /\ pc' \in {"validate", "train"}
        /\ UNCHANGED <<outcome, run, files, launches, losses>>
    BY <1>2 DEF Setup, Goto
  <2>2. /\ run \in Runs
        /\ run.from # None => run.from \in DOMAIN models
        /\ run.from = None => run.recovery = None /\ run.start = 0
        /\ run.recovery # None => run.recovery \in DOMAIN generations
    BY DEF IInv, Types, InSave, Setup
  <2>3. /\ \A n \in DOMAIN models : models[n] \in Directories /\ Sealed(n, models[n])
        /\ \A n \in DOMAIN generations : generations[n] \in Directories /\ Paired(n, generations[n])
    BY DEF IInv, Types, Store, Committed, Recoverable
  <2>4. /\ clock' \in Clocks /\ model' \in Histories /\ clock'.max_samples = run.max
        /\ clock'.consumed = run.start /\ clock'.updates = Len(model')
        /\ Regular(model', run.batch, clock'.consumed)
        /\ \A n \in DOMAIN models :
             models[n].batch = run.batch => SameStarts(model', models[n].state)
    <3>1. CASE fresh
      <4>1. clock' = NewClock(Rows, run.max) /\ model' = <<>> /\ run.max \in Nat \ {0}
              /\ run.start = 0
        BY <3>1, <2>1, <2>2 DEF Runs
      <4>2. clock' \in Clocks /\ clock'.max_samples = run.max /\ clock'.consumed = 0
              /\ clock'.updates = 0
        BY <4>1, ConstantsAssumption DEF NewClock, Clocks
      <4>3. <<>> \in Histories /\ DOMAIN <<>> = {} /\ Len(<<>>) = 0
        BY DEF Histories
      <4> QED  BY <4>1, <4>2, <4>3 DEF Regular, SameStarts
    <3>2. CASE ~fresh
      <4> DEFINE m == models[run.from]
      <4>1. m \in Directories /\ Sealed(run.from, m) /\ Admitted(run.from)
              /\ run.from \in DOMAIN models
        BY <3>2, <1>2, <2>2, <2>3
      <4>2. m.batch = run.batch /\ m.clock.consumed = run.start /\ run.max \in Nat \ {0}
        BY <4>1, <2>2 DEF Admitted, Runs
      <4>3. clock' = [m.clock EXCEPT !.max_samples = run.max] /\ model' = m.state
        BY <3>2, <2>1 DEF Restored
      <4>4. m.clock \in Clocks /\ m.state \in Histories
        BY <4>1 DEF Directories
      <4>5. clock' \in Clocks /\ clock'.max_samples = run.max /\ clock'.consumed = m.clock.consumed
            /\ clock'.updates = m.clock.updates
        <5> HIDE DEF m
        <5> QED  BY <4>2, <4>3, <4>4 DEF Clocks
      <4>6. m.clock.updates = Len(m.state) /\ Regular(m.state, m.batch, m.clock.consumed)
        BY <4>1 DEF Sealed
      <4>7. \A n \in DOMAIN models :
              models[n].batch = run.batch => SameStarts(m.state, models[n].state)
        BY <4>1, <4>2 DEF IInv, Committed
      <4> QED  BY <4>2, <4>3, <4>4, <4>5, <4>6, <4>7
    <3> QED  BY <3>1, <3>2
  <2>5. adam' \in Histories /\ IsSuffixOf(adam', model')
    <3>1. CASE run.recovery = None
      <4>1. adam' = <<>> /\ <<>> \in Histories /\ Len(<<>>) = 0 /\ DOMAIN <<>> = {}
        BY <3>1, <2>1 DEF Histories
      <4>2. Len(model') \in Nat
        BY <2>4 DEF Histories
      <4> QED  BY <4>1, <4>2 DEF IsSuffixOf
    <3>2. CASE run.recovery # None
      <4> DEFINE g == generations[run.recovery]
                 o == models[g.of]
                 m == models[run.from]
      <4>1. g \in Directories /\ Paired(run.recovery, g)
              /\ Loadable(run.recovery, Restored(run.from))
            /\ adam' = g.state /\ ~fresh
        BY <3>2, <1>2, <2>1, <2>2, <2>3
      <4>2. g.of \in DOMAIN models /\ o.clock = g.clock /\ o.batch = g.batch
            /\ IsSuffixOf(g.state, o.state)
        BY <4>1 DEF Paired
      <4>3. g.batch = run.batch /\ SameProgress(g.clock, Restored(run.from))
        BY <4>1 DEF Loadable
      <4>4. g.clock.consumed = Restored(run.from).consumed
              /\ g.clock.updates = Restored(run.from).updates
        BY <4>3 DEF SameProgress
      <4>5. run.from \in DOMAIN models /\ m \in Directories /\ m.clock \in Clocks
            /\ Sealed(run.from, m) /\ Admitted(run.from) /\ model' = m.state
        BY <4>1, <2>1, <2>2, <2>3, <1>2 DEF Directories
      <4>6. Restored(run.from).consumed = m.clock.consumed
              /\ Restored(run.from).updates = m.clock.updates
        BY <4>5 DEF Restored, Clocks
      <4>7. o \in Directories /\ Sealed(g.of, o) /\ m.batch = run.batch
        BY <4>2, <4>5, <2>3 DEF Admitted
      <4>8. SameStarts(o.state, m.state)
        BY <4>2, <4>3, <4>5, <4>7 DEF IInv, Committed
      <4>9. o.state \in Histories /\ m.state \in Histories /\ m.clock.consumed \in Nat
        BY <4>5, <4>7 DEF Directories, Clocks
      <4>10. /\ Regular(o.state, m.batch, m.clock.consumed)
             /\ Regular(m.state, m.batch, m.clock.consumed)
             /\ Len(o.state) = Len(m.state)
        BY <4>2, <4>3, <4>4, <4>5, <4>6, <4>7 DEF Sealed
      <4>11. o.state = m.state
        <5> HIDE DEF o, m
        <5> QED  BY <4>8, <4>9, <4>10, EqualHistories
      <4>12. g.state \in Histories
        BY <4>1 DEF Directories
      <4> QED  BY <4>1, <4>2, <4>5, <4>11, <4>12
    <3> QED  BY <3>1, <3>2
  <2>6. Types'
    BY <2>1, <2>4, <2>5 DEF IInv, Types, files, Store, Points, Names
  <2>7. Committed' /\ Recoverable'
    BY <2>1, StoresStay DEF IInv, files
  <2>8. InMemory'
    <3>1. ASSUME NEW t \in Targets(Rows, run.max), run.start < t, t <= clock'.consumed
          PROVE  FALSE
      <4>1. t \in Int /\ run.start \in Nat
        BY <2>2, TargetsAreCounts DEF Runs
      <4> QED  BY <4>1, <3>1, <2>4
    <3> QED  BY <2>1, <2>4, <2>5, <3>1 DEF InMemory, files
  <2>9. InSave' /\ NoCrossing'
    BY <2>1 DEF IInv, InSave, NoCrossing, Sealing, Recovering
  <2> QED  BY <2>6, <2>7, <2>8, <2>9 DEF IInv
<1> QED  BY <1>1, <1>2

\* Why an update may be rejected: it crosses two targets.
LEMMA RejectedBatch ==
  ASSUME NEW c \in Clocks, NEW samples \in Nat \ {0}, ~Done(c), ~Acceptable(c, samples)
  PROVE  \E t, u \in Crossed(c, samples) : t < u
<1>1. /\ IsFiniteSet(Crossed(c, samples))
      /\ Crossed(c, samples) \subseteq c.consumed + 1 .. c.consumed + samples
  BY CrossedBounds DEF Clocks
<1>2. ~(Cardinality(Crossed(c, samples)) <= 1)
  BY DEF Acceptable
<1>3. Crossed(c, samples) # {}
  BY <1>2, FS_EmptySet
<1>4. PICK t \in Crossed(c, samples) : TRUE
  BY <1>3
<1>5. Crossed(c, samples) # {t}
  <2>1. Cardinality({t}) = 1
    BY FS_Singleton
  <2> QED  BY <2>1, <1>2
<1>6. PICK u \in Crossed(c, samples) : u # t
  BY <1>4, <1>5
<1>7. t \in Int /\ u \in Int
  BY <1>1
<1> QED  BY <1>4, <1>6, <1>7

LEMMA TrainKeepsIInv == IInv /\ Train => IInv'
<1> SUFFICES ASSUME IInv, Train  PROVE IInv'
  OBVIOUS
<1>1. /\ pc = "train" /\ ~Done(clock) /\ UNCHANGED <<run, files, launches, losses>>
      /\ clock \in Clocks /\ clock.max_samples = run.max /\ clock.consumed \in Nat
      /\ run \in Runs /\ run.batch \in Nat \ {0} /\ run.max \in Nat /\ clock.max_samples \in Nat
      /\ clock.samples_per_epoch = Rows
  BY DEF IInv, Types, InMemory, Train, Runs, Clocks
<1>2. PICK count : count = Window[2] /\ Window = <<clock.consumed, count>>
      /\ count = ExpectedSamples(clock, run.batch)
  BY DEF Window
<1>3. /\ count \in 1 .. Whole(run.batch, clock.consumed)
      /\ count = Whole(run.batch, clock.consumed) \/ clock.consumed + count = run.max
  BY <1>1, <1>2, ExpectedBatch
<1>4. count \in Nat \ {0} /\ Whole(run.batch, clock.consumed) \in Nat
  <2>1. Whole(run.batch, clock.consumed) \in Nat
    BY <1>1, WholeBatch
  <2> QED  BY <2>1, <1>3
<1>5. CASE ~Boundary(Rows, run.batch, run.start)
  <2>1. Stop("boundary")
    BY <1>5 DEF Train
  <2> QED  BY <2>1, <1>1, StopKeepsIInv DEF Outcomes
<1>6. CASE Boundary(Rows, run.batch, run.start) /\ ~Acceptable(clock, count)
  <2>1. Stop("crossing")
    BY <1>2, <1>6 DEF Train
  <2>2. Types' /\ Committed' /\ Recoverable' /\ InMemory' /\ InSave'
    <3>1. launches' \in Nat /\ losses' \in Nat
      BY <1>1 DEF IInv, Types
    <3> QED  BY <2>1, <3>1, <1>1, JobEnds DEF Stop, files, Outcomes
  <2>3. ASSUME run.batch <= Rows \div CheckpointsPerEpoch, EndsAtQuarter(run.max)
        PROVE  FALSE
    <3>1. PICK t, u \in Crossed(clock, count) : t < u
      BY <1>1, <1>4, <1>6, RejectedBatch
    <3>2. /\ t \in Targets(Rows, run.max) /\ u \in Targets(Rows, run.max)
          /\ clock.consumed < t /\ u <= clock.consumed + count
      BY <3>1, <1>1 DEF Crossed
    <3> QED  BY <3>1, <3>2, <2>3, <1>1, <1>3, QuarterPerBatch
  <2>4. NoCrossing'
    BY <2>3, <1>1 DEF NoCrossing
  <2> QED  BY <2>2, <2>4 DEF IInv
<1>7. CASE Boundary(Rows, run.batch, run.start) /\ Acceptable(clock, count)
  <2>1. /\ model' = Append(model, <<clock.consumed, count>>)
        /\ adam' = Append(adam, <<clock.consumed, count>>)
        /\ clock' = Advanced(clock, count) /\ UNCHANGED <<old, outcome>>
        /\ \/ Crossed(clock, count) = {} /\ target' = None /\ pc' = "train"
           \/ target' \in Crossed(clock, count) /\ pc' = "stage"
    BY <1>2, <1>7 DEF Train, Goto
  <2>2. /\ clock' \in Clocks
        /\ \A t \in Crossed(clock, count) : Verified(clock', t)
    BY <2>1, <1>1, <1>4, <1>7, AdvancedVerified
  <2>3. /\ clock'.consumed = clock.consumed + count /\ clock'.updates = clock.updates + 1
        /\ clock'.max_samples = clock.max_samples
    BY <2>1, <1>1 DEF Advanced, Clocks
  <2>4. target' \in Names
    BY <2>1, <2>2, VerifiedTarget DEF Names
  <2>5. /\ model \in Histories /\ adam \in Histories /\ clock.updates = Len(model)
        /\ Regular(model, run.batch, clock.consumed) /\ IsSuffixOf(adam, model)
        /\ Boundary(Rows, run.batch, clock.consumed)
    BY <1>1, <1>7 DEF IInv, Types, InMemory
  <2>6. model' \in Histories /\ Regular(model', run.batch, clock'.consumed)
    BY <2>1, <2>3, <2>5, <1>1, <1>3, <1>4, AppendRegular
  <2>7. <<clock.consumed, count>> \in Nat \X Nat
    BY <1>1, <1>4
  <2>8. adam' \in Histories
    BY <2>1, <2>5, <2>7 DEF Histories
  <2>9. IsSuffixOf(adam', model')
    BY <2>1, <2>5, <2>7, AppendSuffix
  <2>10. Len(model') = Len(model) + 1
    BY <2>1, <2>5 DEF Histories
  <2>11. Done(clock') \/ Boundary(Rows, run.batch, clock'.consumed)
    <3>1. CASE count = Whole(run.batch, clock.consumed)
      BY <3>1, <2>3, <2>5, <1>1, <1>3, NextBoundary
    <3>2. CASE clock.consumed + count = run.max
      BY <3>2, <2>3, <1>1 DEF Done
    <3> QED  BY <3>1, <3>2, <1>3
  <2>12. ASSUME NEW n \in DOMAIN models, models[n].batch = run.batch
         PROVE  SameStarts(model', models[n].state)
    <3>1. models[n] \in Directories /\ Sealed(n, models[n])
      BY DEF IInv, Types, Store, Committed
    <3>2. /\ models[n].state \in Histories /\ models[n].clock.consumed \in Nat
          /\ Regular(models[n].state, run.batch, models[n].clock.consumed)
      BY <3>1, <2>12 DEF Directories, Clocks, Sealed
    <3>3. SameStarts(model, models[n].state)
      BY <2>12, <1>1 DEF IInv, InMemory
    <3> QED  BY <3>2, <3>3, <2>1, <2>5, <1>1, <1>4, AppendSameStarts
  <2>13. ASSUME NEW t \in Targets(Rows, run.max), run.start < t, t <= clock'.consumed
         PROVE  (pc' \in Sealing /\ t = target') \/ Covered(t)'
    <3>1. t \in Int
      BY <1>1, TargetsAreCounts
    <3>2. CASE t <= clock.consumed
      <4>1. Covered(t)
        BY <3>2, <2>13, <1>1 DEF IInv, InMemory, Sealing
      <4>2. PICK n \in DOMAIN models :
              /\ models[n].clock.consumed - models[n].clock.last < t
              /\ t <= models[n].clock.consumed /\ IsPrefixOf(models[n].state, model)
        BY <4>1 DEF Covered
      <4>3. models[n].state \in Histories
        BY DEF IInv, Types, Store, Directories
      <4>4. IsPrefixOf(models[n].state, model')
        BY <4>2, <4>3, <2>1, <2>5, <2>7, AppendPrefix
      <4> QED  BY <4>2, <4>4, <1>1 DEF Covered, files
    <3>3. CASE clock.consumed < t
      <4>1. t \in Crossed(clock, count)
        BY <3>3, <2>13, <2>3, <1>1 DEF Crossed
      <4>2. Crossed(clock, count) = {t}
        BY <4>1, <1>1, <1>4, <1>7, CrossedOnce
      <4> QED  BY <4>1, <4>2, <2>1 DEF Sealing
    <3> QED  BY <3>1, <3>2, <3>3, <1>1
  <2>14. Types'
    BY <2>1, <2>2, <2>4, <2>6, <2>8, <1>1 DEF IInv, Types, files, Store, Points
  <2>15. Committed' /\ Recoverable'
    BY <1>1, StoresStay DEF IInv, files
  <2>16. InMemory'
    BY <1>1, <2>1, <2>3, <2>5, <2>6, <2>9, <2>10, <2>11, <2>12, <2>13 DEF InMemory, files
  <2>17. InSave'
    BY <2>1, <2>2 DEF InSave, Sealing, Recovering
  <2>18. NoCrossing'
    BY <2>1, <1>1 DEF IInv, NoCrossing
  <2> QED  BY <2>14, <2>15, <2>16, <2>17, <2>18 DEF IInv
<1> QED  BY <1>5, <1>6, <1>7

-----------------------------------------------------------------------------
\* The save of a checkpoint

\* What Stage, Shard, seals and Unstage do to the staging directories.
LEMMA StageStore ==
  ASSUME Types, NEW kind \in {"model", "recovery"}, NEW files_, Store(files_),
         staged' = [staged EXCEPT ![kind] = files_]
  PROVE  /\ staged' \in [{"model", "recovery"} -> {staged'["model"], staged'["recovery"]}]
         /\ Store(staged'["model"]) /\ Store(staged'["recovery"])
         /\ staged'[kind] = files_
<1>1. staged \in [{"model", "recovery"} -> {staged["model"], staged["recovery"]}]
      /\ Store(staged["model"]) /\ Store(staged["recovery"])
  BY DEF Types
<1>2. DOMAIN staged = {"model", "recovery"}
        /\ staged' = [k \in {"model", "recovery"} |-> staged'[k]]
  BY <1>1
<1>3. /\ staged'[kind] = files_
      /\ \A k \in {"model", "recovery"} : k # kind => staged'[k] = staged[k]
  BY <1>1, <1>2
<1> QED  BY <1>1, <1>2, <1>3

LEMMA NamesAreNumbers ==
  ASSUME Types
  PROVE  Name \in Nat /\ Generation \in Nat /\ Generation = clock.consumed
BY DEF Types, Name, CheckpointName, Final, Generation, GenerationName, Clocks

LEMMA NewDirectoryType ==
  ASSUME Types, NEW state \in Histories
  PROVE  /\ NewDirectory(state) \in Directories
         /\ NewDirectory(state).clock = clock /\ NewDirectory(state).batch = run.batch
         /\ NewDirectory(state).state = state
BY DEF Types, NewDirectory, Directories, Names, Runs

LEMMA PrepareModelKeepsIInv == IInv /\ PrepareModel => IInv'
<1> SUFFICES ASSUME IInv, PrepareModel  PROVE IInv'
  OBVIOUS
<1>1. CASE Exists("model", models, Name)
  <2>1. Stop("occupied") /\ UNCHANGED <<run, files, launches, losses>>
    BY <1>1 DEF PrepareModel, files
  <2> QED  BY <2>1, StopKeepsIInv DEF Outcomes
<1>2. CASE ~Exists("model", models, Name)
  <2> DEFINE d == NewDirectory(model)
             filed == Filed(staged["model"], Name, d)
  <2>1. /\ pc = "stage" /\ pc' = "shards"
        /\ UNCHANGED <<outcome, run, memory, models, generations, pointer, launches, losses>>
        /\ staged' = [staged EXCEPT !["model"] = filed]
    BY <1>2 DEF PrepareModel, Stage, Continue, Goto
  <2>2. Types /\ Name \in Nat /\ Store(staged["model"])
    BY NamesAreNumbers DEF IInv, Types
  <2>3. d \in Directories /\ Holds(d, model)
    BY <2>2, NewDirectoryType DEF Types, Holds
  <2> HIDE DEF d
  <2>a. filed = [n \in DOMAIN staged["model"] \union {Name} |->
                  IF n = Name THEN d ELSE staged["model"][n]]
    BY DEF Filed
  <2> HIDE DEF filed
  <2>4. Store(filed) /\ Name \in DOMAIN filed /\ filed[Name] = d
    BY <2>a, <2>2, <2>3 DEF Store
  <2>5. /\ staged' \in [{"model", "recovery"} -> {staged'["model"], staged'["recovery"]}]
        /\ Store(staged'["model"]) /\ Store(staged'["recovery"])
        /\ staged'["model"] = filed
    BY <2>1, <2>2, <2>4, StageStore
  <2>6. Types'
    BY <2>1, <2>2, <2>5 DEF Types, memory, Store, Points
  <2>7. Committed' /\ Recoverable'
    BY <2>1, StoresStay DEF IInv
  <2>8. InMemory'
    BY <2>1, MemoryStays DEF IInv, memory, Sealing
  <2>9. Name' = Name /\ Name \notin DOMAIN models /\ Verified(clock, target)
    BY <2>1, <1>2 DEF memory, Name, Exists, IInv, InSave, Sealing
  <2>10. InSave'
    BY <2>1, <2>3, <2>4, <2>5, <2>9 DEF InSave, memory, Holds, Sealing, Recovering
  <2>11. NoCrossing'
    BY <2>1 DEF IInv, NoCrossing
  <2> QED  BY <2>6, <2>7, <2>8, <2>10, <2>11 DEF IInv
<1> QED  BY <1>1, <1>2

LEMMA WriteModelShardKeepsIInv ==
  ASSUME NEW rank \in Ranks, IInv, WriteModelShard(rank)
  PROVE  IInv'
<1> DEFINE d == staged["model"][Name]
           written == [d EXCEPT !.shards = @ \union {rank}]
           filed == [staged["model"] EXCEPT ![Name] = written]
<1>1. /\ pc = "shards"
      /\ UNCHANGED <<pc, outcome, run, memory, models, generations, pointer, launches, losses>>
      /\ staged' = [staged EXCEPT !["model"] = filed]
  BY DEF WriteModelShard, Shard
<1>2. /\ Types /\ Name \in Nat /\ Store(staged["model"])
      /\ Name \in DOMAIN staged["model"] /\ Name \notin DOMAIN models /\ Holds(d, model)
      /\ Verified(clock, target)
  BY <1>1, NamesAreNumbers DEF IInv, Types, InSave, Sealing
<1>3. d \in Directories
  BY <1>2 DEF Store
<1> HIDE DEF d
<1>4. written \in Directories /\ Holds(written, model)
  BY <1>2, <1>3 DEF Directories, Holds
<1> HIDE DEF written
<1>5. Store(filed) /\ Name \in DOMAIN filed /\ filed[Name] = written
  BY <1>2, <1>4 DEF Store
<1> HIDE DEF filed
<1>6. /\ staged' \in [{"model", "recovery"} -> {staged'["model"], staged'["recovery"]}]
      /\ Store(staged'["model"]) /\ Store(staged'["recovery"])
      /\ staged'["model"] = filed
  BY <1>1, <1>2, <1>5, StageStore
<1>7. Types'
  BY <1>1, <1>2, <1>6 DEF Types, memory, Store
<1>8. Committed' /\ Recoverable'
  BY <1>1, StoresStay DEF IInv
<1>9. InMemory'
  BY <1>1, MemoryStays DEF IInv, memory
<1>10. Name' = Name
  BY <1>1 DEF memory, Name
<1>11. InSave'
  BY <1>1, <1>2, <1>4, <1>5, <1>6, <1>10 DEF InSave, memory, Holds, Sealing, Recovering
<1>12. NoCrossing'
  BY <1>1 DEF IInv, NoCrossing
<1> QED  BY <1>7, <1>8, <1>9, <1>11, <1>12 DEF IInv

LEMMA SealModelKeepsIInv == IInv /\ SealModel => IInv'
<1> SUFFICES ASSUME IInv, SealModel  PROVE IInv'
  OBVIOUS
<1> DEFINE d == staged["model"][Name]
           sealed == [d EXCEPT !.target = target, !.synced = FALSE]
           filed == [staged["model"] EXCEPT ![Name] = sealed]
<1>1. /\ pc = "shards" /\ pc' = "commit"
      /\ UNCHANGED <<outcome, run, memory, models, generations, pointer, launches, losses>>
      /\ d.shards = Ranks
  BY DEF SealModel, Goto, AllSharded, Staged
<1>2. /\ Types /\ Name \in Nat /\ Store(staged["model"])
      /\ Name \in DOMAIN staged["model"] /\ Name \notin DOMAIN models /\ Holds(d, model)
      /\ Verified(clock, target) /\ target \in Names
  BY <1>1, NamesAreNumbers DEF IInv, Types, InSave, Sealing
<1>3. d \in Directories
  BY <1>2 DEF Store
<1>a. staged' = [staged EXCEPT !["model"] = filed]
  <2>1. staged' = [staged EXCEPT !["model"][Name].target = target, !["model"][Name].synced = FALSE]
    BY DEF SealModel
  <2> QED  BY <2>1, <1>2, <1>3 DEF Types, Directories, Store
<1> HIDE DEF d
<1>4. sealed \in Directories /\ Holds(sealed, model) /\ sealed.shards = Ranks
        /\ sealed.target = target
  BY <1>1, <1>2, <1>3 DEF Directories, Holds
<1> HIDE DEF sealed
<1>5. Store(filed) /\ Name \in DOMAIN filed /\ filed[Name] = sealed
  BY <1>2, <1>4 DEF Store
<1> HIDE DEF filed
<1>6. /\ staged' \in [{"model", "recovery"} -> {staged'["model"], staged'["recovery"]}]
      /\ Store(staged'["model"]) /\ Store(staged'["recovery"])
      /\ staged'["model"] = filed
  BY <1>a, <1>2, <1>5, StageStore
<1>7. Types'
  BY <1>1, <1>2, <1>6 DEF Types, memory, Store, Points
<1>8. Committed' /\ Recoverable'
  BY <1>1, StoresStay DEF IInv
<1>9. InMemory'
  BY <1>1, MemoryStays DEF IInv, memory, Sealing
<1>10. Name' = Name
  BY <1>1 DEF memory, Name
<1>11. InSave'
  BY <1>1, <1>2, <1>4, <1>5, <1>6, <1>10 DEF InSave, memory, Holds, Sealing, Recovering
<1>12. NoCrossing'
  BY <1>1 DEF IInv, NoCrossing
<1> QED  BY <1>7, <1>8, <1>9, <1>11, <1>12 DEF IInv

LEMMA SameStartsSymmetric ==
  ASSUME NEW one, NEW other, SameStarts(one, other)
  PROVE  SameStarts(other, one)
BY DEF SameStarts

\* The rename puts the staged checkpoint beside the others.
LEMMA CommitModelKeepsIInv == IInv /\ CommitModel => IInv'
<1> SUFFICES ASSUME IInv, CommitModel  PROVE IInv'
  OBVIOUS
<1> DEFINE d == staged["model"][Name]
           rest == [n \in DOMAIN staged["model"] \ {Name} |-> staged["model"][n]]
<1>1. /\ pc = "commit" /\ pc' \in {"recover", "validate", "train"}
      /\ UNCHANGED <<outcome, run, memory, generations, pointer, launches, losses>>
      /\ models' = Filed(models, Name, d)
      /\ staged' = [staged EXCEPT !["model"] = rest]
  BY DEF CommitModel, Goto, Staged, Unstage
<1>2. /\ Types /\ Name \in Nat /\ Store(staged["model"]) /\ Store(models)
      /\ Name \in DOMAIN staged["model"] /\ Name \notin DOMAIN models /\ Holds(d, model)
      /\ d.shards = Ranks /\ d.target = target /\ Verified(clock, target)
  BY <1>1, NamesAreNumbers DEF IInv, Types, InSave, Sealing
<1>3. d \in Directories /\ Store(rest)
  BY <1>2 DEF Store
<1>4. /\ clock.max_samples = run.max /\ clock.updates = Len(model) /\ clock \in Clocks
      /\ Regular(model, run.batch, clock.consumed)
      /\ \A n \in DOMAIN models :
           models[n].batch = run.batch => SameStarts(model, models[n].state)
  BY <1>1 DEF IInv, InMemory, Types
<1>5. Sealed(Name, d) /\ d.state = model /\ d.batch = run.batch /\ d.clock = clock
  BY <1>2, <1>4 DEF Sealed, Holds, Name
<1> HIDE DEF d, rest
<1>6. /\ Store(models') /\ DOMAIN models' = DOMAIN models \union {Name} /\ models'[Name] = d
      /\ \A n \in DOMAIN models : models'[n] = models[n]
  <2>1. models' = [n \in DOMAIN models \union {Name} |-> IF n = Name THEN d ELSE models[n]]
    BY <1>1 DEF Filed
  <2>2. DOMAIN models' = DOMAIN models \union {Name} /\ models'[Name] = d
        /\ \A n \in DOMAIN models : models'[n] = models[n]
    BY <2>1, <1>2
  <2>3. Store(models')
    BY <2>1, <2>2, <1>2, <1>3 DEF Store
  <2> QED  BY <2>2, <2>3
<1>7. /\ staged' \in [{"model", "recovery"} -> {staged'["model"], staged'["recovery"]}]
      /\ Store(staged'["model"]) /\ Store(staged'["recovery"])
  BY <1>1, <1>2, <1>3, StageStore
<1>8. Types'
  BY <1>1, <1>2, <1>6, <1>7 DEF Types, memory, Points
<1>9. Committed'
  <2>1. \A n \in DOMAIN models' : Sealed(n, models'[n])
    BY <1>5, <1>6 DEF IInv, Committed
  <2>2. ASSUME NEW m \in DOMAIN models', NEW n \in DOMAIN models',
               models'[m].batch = models'[n].batch
        PROVE  SameStarts(models'[m].state, models'[n].state)
    <3>1. CASE m \in DOMAIN models /\ n \in DOMAIN models
      BY <3>1, <2>2, <1>6 DEF IInv, Committed
    <3>2. CASE m = Name /\ n \in DOMAIN models
      BY <3>2, <2>2, <1>4, <1>5, <1>6
    <3>3. CASE m \in DOMAIN models /\ n = Name
      BY <3>3, <2>2, <1>4, <1>5, <1>6, SameStartsSymmetric
    <3>4. CASE m = Name /\ n = Name
      BY <3>4 DEF SameStarts
    <3> QED  BY <3>1, <3>2, <3>3, <3>4, <1>6
  <2> QED  BY <2>1, <2>2 DEF Committed
<1>10. Recoverable'
  BY <1>1, <1>6 DEF IInv, Recoverable, Paired
<1>11. InMemory'
  <2>1. ASSUME NEW n \in DOMAIN models', models'[n].batch = run.batch
        PROVE  SameStarts(model, models'[n].state)
    BY <2>1, <1>4, <1>5, <1>6 DEF SameStarts
  <2>2. ASSUME NEW t \in Targets(Rows, run.max), run.start < t, t <= clock.consumed
        PROVE  Covered(t)'
    <3>1. CASE t = target
      <4>1. clock.consumed - clock.last < t /\ t <= clock.consumed
        BY <3>1, <1>2, <1>4, VerifiedTarget
      <4>2. IsPrefixOf(model, model)
        BY DEF IInv, Types, Histories, IsPrefixOf
      <4> QED  BY <4>1, <4>2, <1>1, <1>5, <1>6 DEF Covered, memory
    <3>2. CASE t # target
      BY <3>2, <2>2, <1>1, <1>6 DEF IInv, InMemory, Covered, memory
    <3> QED  BY <3>1, <3>2
  <2> QED  BY <2>1, <2>2, <1>1 DEF IInv, InMemory, memory
<1>12. Name' = Name
  BY <1>1 DEF memory, Name
<1>13. InSave'
  BY <1>1, <1>5, <1>6, <1>12 DEF InSave, memory, Holds, Sealing, Recovering
<1>14. NoCrossing'
  BY <1>1 DEF IInv, NoCrossing
<1> QED  BY <1>8, <1>9, <1>10, <1>11, <1>13, <1>14 DEF IInv

-----------------------------------------------------------------------------
\* The save of a recovery generation

LEMMA PrepareRecoveryKeepsIInv == IInv /\ PrepareRecovery => IInv'
<1> SUFFICES ASSUME IInv, PrepareRecovery  PROVE IInv'
  OBVIOUS
<1> DEFINE refused == \/ ~Continuable(Name)
                      \/ models[Name].clock # clock
                      \/ Exists("recovery", generations, Generation)
<1>1. CASE refused
  <2>1. Stop("occupied") /\ UNCHANGED <<run, files, launches, losses>>
    BY <1>1 DEF PrepareRecovery, files
  <2> QED  BY <2>1, StopKeepsIInv DEF Outcomes
<1>2. CASE ~refused
  <2> DEFINE d == NewDirectory(adam)
             filed == Filed(staged["recovery"], Generation, d)
  <2>1. /\ pc = "recover" /\ pc' = "recovery shards"
        /\ UNCHANGED <<outcome, run, memory, models, generations, pointer, launches, losses>>
        /\ staged' = [staged EXCEPT !["recovery"] = filed]
    BY <1>2 DEF PrepareRecovery, Stage, Continue, Goto
  <2>2. Types /\ Generation \in Nat /\ Store(staged["recovery"])
    BY NamesAreNumbers DEF IInv, Types
  <2>3. d \in Directories /\ Holds(d, adam)
    BY <2>2, NewDirectoryType DEF Types, Holds
  <2> HIDE DEF d
  <2>a. filed = [n \in DOMAIN staged["recovery"] \union {Generation} |->
                  IF n = Generation THEN d ELSE staged["recovery"][n]]
    BY DEF Filed
  <2> HIDE DEF filed
  <2>4. Store(filed) /\ Generation \in DOMAIN filed /\ filed[Generation] = d
    BY <2>a, <2>2, <2>3 DEF Store
  <2>5. /\ staged' \in [{"model", "recovery"} -> {staged'["model"], staged'["recovery"]}]
        /\ Store(staged'["model"]) /\ Store(staged'["recovery"])
        /\ staged'["recovery"] = filed
    BY <2>1, <2>2, <2>4, StageStore
  <2>6. Types'
    BY <2>1, <2>2, <2>5 DEF Types, memory, Store, Points
  <2>7. Committed' /\ Recoverable'
    BY <2>1, StoresStay DEF IInv
  <2>8. InMemory'
    BY <2>1, MemoryStays DEF IInv, memory, Sealing
  <2>9. Name' = Name /\ Generation' = Generation
        /\ Name \in DOMAIN models /\ Holds(models[Name], model)
    BY <2>1 DEF memory, Name, Generation, IInv, InSave, Recovering
  <2>10. InSave'
    BY <2>1, <2>3, <2>4, <2>5, <2>9 DEF InSave, memory, Holds, Sealing, Recovering
  <2>11. NoCrossing'
    BY <2>1 DEF IInv, NoCrossing
  <2> QED  BY <2>6, <2>7, <2>8, <2>10, <2>11 DEF IInv
<1> QED  BY <1>1, <1>2

LEMMA WriteRecoveryShardKeepsIInv ==
  ASSUME NEW rank \in Ranks, IInv, WriteRecoveryShard(rank)
  PROVE  IInv'
<1> DEFINE d == staged["recovery"][Generation]
           written == [d EXCEPT !.shards = @ \union {rank}]
           filed == [staged["recovery"] EXCEPT ![Generation] = written]
<1>1. /\ pc = "recovery shards"
      /\ UNCHANGED <<pc, outcome, run, memory, models, generations, pointer, launches, losses>>
      /\ staged' = [staged EXCEPT !["recovery"] = filed]
  BY DEF WriteRecoveryShard, Shard
<1>2. /\ Types /\ Generation \in Nat /\ Store(staged["recovery"])
      /\ Generation \in DOMAIN staged["recovery"] /\ Holds(d, adam)
      /\ Name \in DOMAIN models /\ Holds(models[Name], model)
  BY <1>1, NamesAreNumbers DEF IInv, Types, InSave, Recovering
<1>3. d \in Directories
  BY <1>2 DEF Store
<1> HIDE DEF d
<1>4. written \in Directories /\ Holds(written, adam)
  BY <1>2, <1>3 DEF Directories, Holds
<1> HIDE DEF written
<1>5. Store(filed) /\ Generation \in DOMAIN filed /\ filed[Generation] = written
  BY <1>2, <1>4 DEF Store
<1> HIDE DEF filed
<1>6. /\ staged' \in [{"model", "recovery"} -> {staged'["model"], staged'["recovery"]}]
      /\ Store(staged'["model"]) /\ Store(staged'["recovery"])
      /\ staged'["recovery"] = filed
  BY <1>1, <1>2, <1>5, StageStore
<1>7. Types'
  BY <1>1, <1>2, <1>6 DEF Types, memory, Store
<1>8. Committed' /\ Recoverable'
  BY <1>1, StoresStay DEF IInv
<1>9. InMemory'
  BY <1>1, MemoryStays DEF IInv, memory
<1>10. Name' = Name /\ Generation' = Generation
  BY <1>1 DEF memory, Name, Generation
<1>11. InSave'
  BY <1>1, <1>2, <1>4, <1>5, <1>6, <1>10 DEF InSave, memory, Holds, Sealing, Recovering
<1>12. NoCrossing'
  BY <1>1 DEF IInv, NoCrossing
<1> QED  BY <1>7, <1>8, <1>9, <1>11, <1>12 DEF IInv

LEMMA SealRecoveryKeepsIInv == IInv /\ SealRecovery => IInv'
<1> SUFFICES ASSUME IInv, SealRecovery  PROVE IInv'
  OBVIOUS
<1> DEFINE d == staged["recovery"][Generation]
           sealed == [d EXCEPT !.of = Name]
           filed == [staged["recovery"] EXCEPT ![Generation] = sealed]
<1>1. /\ pc = "recovery shards" /\ pc' = "recovery commit"
      /\ UNCHANGED <<outcome, run, memory, models, generations, pointer, launches, losses>>
      /\ d.shards = Ranks
      /\ staged' = [staged EXCEPT !["recovery"] = filed]
  BY DEF SealRecovery, Goto, AllSharded, Staged
<1>2. /\ Types /\ Name \in Nat /\ Generation \in Nat /\ Store(staged["recovery"])
      /\ Generation \in DOMAIN staged["recovery"] /\ Holds(d, adam)
      /\ Name \in DOMAIN models /\ Holds(models[Name], model)
  BY <1>1, NamesAreNumbers DEF IInv, Types, InSave, Recovering
<1>3. d \in Directories
  BY <1>2 DEF Store
<1> HIDE DEF d
<1>4. sealed \in Directories /\ Holds(sealed, adam) /\ sealed.shards = Ranks /\ sealed.of = Name
  BY <1>1, <1>2, <1>3 DEF Directories, Holds, Names
<1> HIDE DEF sealed
<1>5. Store(filed) /\ Generation \in DOMAIN filed /\ filed[Generation] = sealed
  BY <1>2, <1>4 DEF Store
<1> HIDE DEF filed
<1>6. /\ staged' \in [{"model", "recovery"} -> {staged'["model"], staged'["recovery"]}]
      /\ Store(staged'["model"]) /\ Store(staged'["recovery"])
      /\ staged'["recovery"] = filed
  BY <1>1, <1>2, <1>5, StageStore
<1>7. Types'
  BY <1>1, <1>2, <1>6 DEF Types, memory, Store, Points
<1>8. Committed' /\ Recoverable'
  BY <1>1, StoresStay DEF IInv
<1>9. InMemory'
  BY <1>1, MemoryStays DEF IInv, memory, Sealing
<1>10. Name' = Name /\ Generation' = Generation
  BY <1>1 DEF memory, Name, Generation
<1>11. InSave'
  BY <1>1, <1>2, <1>4, <1>5, <1>6, <1>10 DEF InSave, memory, Holds, Sealing, Recovering
<1>12. NoCrossing'
  BY <1>1 DEF IInv, NoCrossing
<1> QED  BY <1>7, <1>8, <1>9, <1>11, <1>12 DEF IInv

LEMMA CommitRecoveryKeepsIInv == IInv /\ CommitRecovery => IInv'
<1> SUFFICES ASSUME IInv, CommitRecovery  PROVE IInv'
  OBVIOUS
<1> DEFINE d == staged["recovery"][Generation]
           rest == [n \in DOMAIN staged["recovery"] \ {Generation} |-> staged["recovery"][n]]
<1>1. /\ pc = "recovery commit" /\ pc' = "point"
      /\ UNCHANGED <<outcome, run, memory, models, pointer, launches, losses>>
      /\ generations' = Filed(generations, Generation, d)
      /\ staged' = [staged EXCEPT !["recovery"] = rest]
  BY DEF CommitRecovery, Goto, Staged, Unstage
<1>2. /\ Types /\ Generation \in Nat /\ Generation = clock.consumed
      /\ Store(staged["recovery"]) /\ Store(generations)
      /\ Generation \in DOMAIN staged["recovery"] /\ Holds(d, adam)
      /\ d.shards = Ranks /\ d.of = Name
      /\ Name \in DOMAIN models /\ Holds(models[Name], model)
  BY <1>1, NamesAreNumbers DEF IInv, Types, InSave, Recovering
<1>3. d \in Directories /\ Store(rest)
  BY <1>2 DEF Store
<1>4. Paired(Generation, d)
  BY <1>1, <1>2 DEF IInv, InMemory, Paired, Holds
<1> HIDE DEF d, rest
<1>5. /\ Store(generations') /\ DOMAIN generations' = DOMAIN generations \union {Generation}
      /\ generations'[Generation] = d
      /\ \A n \in DOMAIN generations \ {Generation} : generations'[n] = generations[n]
  <2>1. generations' = [n \in DOMAIN generations \union {Generation} |->
                          IF n = Generation THEN d ELSE generations[n]]
    BY <1>1 DEF Filed
  <2>2. /\ DOMAIN generations' = DOMAIN generations \union {Generation}
        /\ generations'[Generation] = d
        /\ \A n \in DOMAIN generations \ {Generation} : generations'[n] = generations[n]
    BY <2>1
  <2>3. Store(generations')
    BY <2>1, <2>2, <1>2, <1>3 DEF Store
  <2> QED  BY <2>2, <2>3
<1>6. /\ staged' \in [{"model", "recovery"} -> {staged'["model"], staged'["recovery"]}]
      /\ Store(staged'["model"]) /\ Store(staged'["recovery"])
  BY <1>1, <1>2, <1>3, StageStore
<1>7. Types'
  BY <1>1, <1>2, <1>5, <1>6 DEF Types, memory, Store, Points
<1>8. Committed'
  BY <1>1 DEF IInv, Committed
<1>9. Recoverable'
  <2>1. ASSUME NEW n \in DOMAIN generations'
        PROVE  Paired(n, generations'[n])
    <3>1. CASE n = Generation
      BY <3>1, <1>4, <1>5
    <3>2. CASE n # Generation
      BY <3>2, <1>5 DEF IInv, Recoverable
    <3> QED  BY <3>1, <3>2
  <2>a. \A n, e : Paired(n, e) => Paired(n, e)'
    BY <1>1 DEF Paired
  <2>2. ASSUME pointer # None
        PROVE  pointer \in DOMAIN generations' /\ generations'[pointer].shards = Ranks
    <3>1. pointer \in DOMAIN generations /\ generations[pointer].shards = Ranks
      BY <2>2 DEF IInv, Recoverable
    <3>2. CASE pointer = Generation
      BY <3>2, <1>2, <1>5
    <3>3. CASE pointer # Generation
      BY <3>1, <3>3, <1>5
    <3> QED  BY <3>2, <3>3
  <2> QED  BY <2>1, <2>a, <2>2, <1>1 DEF Recoverable
<1>10. InMemory'
  BY <1>1, MemoryStays DEF IInv, memory, Sealing
<1>11. Name' = Name /\ Generation' = Generation
  BY <1>1 DEF memory, Name, Generation
<1>12. InSave'
  BY <1>1, <1>2, <1>5, <1>11 DEF InSave, memory, Holds, Sealing, Recovering
<1>13. NoCrossing'
  BY <1>1 DEF IInv, NoCrossing
<1> QED  BY <1>7, <1>8, <1>9, <1>10, <1>12, <1>13 DEF IInv

LEMMA PointKeepsIInv == IInv /\ Point => IInv'
<1> SUFFICES ASSUME IInv, Point  PROVE IInv'
  OBVIOUS
<1>1. /\ pc = "point" /\ pc' = "retire" /\ pointer' = Generation
      /\ old' = IF pointer = Generation THEN None ELSE pointer
      /\ UNCHANGED <<outcome, run, clock, target, model, adam, models, generations, staged,
                     launches, losses>>
  BY DEF Point, Goto
<1>2. Generation \in Nat /\ Generation \in Names /\ None \in Names /\ pointer \in Names
      /\ Generation # None
  BY NamesAreNumbers, ConstantsAssumption DEF IInv, Types, Names
<1>3. old' # pointer'
  BY <1>1, <1>2
<1>4. Types'
  BY <1>1, <1>2 DEF IInv, Types, Store, Points
<1>5. Committed'
  BY <1>1 DEF IInv, Committed
<1>6. Recoverable'
  BY <1>1 DEF IInv, InSave, Recoverable, Paired
<1>7. InMemory'
  BY <1>1, MemoryStays DEF IInv, Sealing
<1>8. InSave'
  BY <1>1, <1>3 DEF InSave, Sealing, Recovering
<1>9. NoCrossing'
  BY <1>1 DEF IInv, NoCrossing
<1> QED  BY <1>4, <1>5, <1>6, <1>7, <1>8, <1>9 DEF IInv

\* What is removed piece by piece is not what the pointer names.
LEMMA RetireKeepsIInv == IInv /\ Retire => IInv'
<1> SUFFICES ASSUME IInv, Retire  PROVE IInv'
  OBVIOUS
<1>1. /\ pc = "retire" /\ pc' \in {"retire", "validate", "train"}
      /\ UNCHANGED <<outcome, run, memory, models, staged, pointer, launches, losses>>
  BY DEF Retire, Goto
<1>2. /\ Types /\ Store(generations) /\ old # pointer /\ Recoverable
  BY <1>1 DEF IInv, Types, InSave
<1> DEFINE Kept ==
             /\ Store(generations') /\ DOMAIN generations' \subseteq DOMAIN generations
             /\ \A n \in DOMAIN generations' :
                  /\ generations'[n].clock = generations[n].clock
                  /\ generations'[n].batch = generations[n].batch
                  /\ generations'[n].state = generations[n].state
                  /\ generations'[n].of = generations[n].of
             /\ \A n \in DOMAIN generations : n # old =>
                  n \in DOMAIN generations' /\ generations'[n] = generations[n]
<1>3. Kept
  <2>1. CASE UNCHANGED generations
    BY <2>1, <1>2
  <2>2. ASSUME NEW rank \in generations[old].shards, old \in DOMAIN generations,
               generations' = [generations EXCEPT ![old].shards = @ \ {rank}]
        PROVE  Kept
    <3> DEFINE d == [generations[old] EXCEPT !.shards = @ \ {rank}]
    <3>1. generations[old] \in Directories
      BY <2>2, <1>2 DEF Store
    <3>2. /\ d \in Directories /\ d.clock = generations[old].clock
          /\ d.batch = generations[old].batch
          /\ d.state = generations[old].state /\ d.of = generations[old].of
      BY <3>1 DEF Directories
    <3>3. generations' = [generations EXCEPT ![old] = d]
      BY <2>2
    <3> HIDE DEF d
    <3> QED  BY <2>2, <3>2, <3>3, <1>2 DEF Store
  <2>3. CASE generations' = [n \in DOMAIN generations \ {old} |-> generations[n]]
    BY <2>3, <1>2 DEF Store
  <2>4. \/ UNCHANGED generations
        \/ old \in DOMAIN generations
           /\ \E rank \in generations[old].shards :
                generations' = [generations EXCEPT ![old].shards = @ \ {rank}]
        \/ generations' = [n \in DOMAIN generations \ {old} |-> generations[n]]
    BY DEF Retire
  <2> QED  BY <2>1, <2>2, <2>3, <2>4
<1>4. Types'
  BY <1>1, <1>2, <1>3 DEF Types, memory, Points, Store
<1>5. Committed'
  BY <1>1 DEF IInv, Committed
<1>6. Recoverable'
  BY <1>1, <1>2, <1>3 DEF Recoverable, Paired
<1>7. InMemory'
  BY <1>1, MemoryStays DEF IInv, memory, Sealing
<1>8. InSave'
  BY <1>1, <1>2 DEF InSave, memory, Sealing, Recovering
<1>9. NoCrossing'
  BY <1>1 DEF IInv, NoCrossing
<1> QED  BY <1>4, <1>5, <1>6, <1>7, <1>8, <1>9 DEF IInv

-----------------------------------------------------------------------------
\* A power loss may make checkpoints unreadable, and ends the job.

LEMMA PowerLossKeepsIInv == IInv /\ PowerLoss => IInv'
<1> SUFFICES ASSUME IInv, PowerLoss  PROVE IInv'
  OBVIOUS
<1>1. PICK from : models' = [n \in DOMAIN models |->
                    IF from # None /\ ~models[n].synced /\ models[n].clock.consumed >= from
                    THEN [models[n] EXCEPT !.readable = FALSE]
                    ELSE [models[n] EXCEPT !.synced = TRUE]]
  BY DEF PowerLoss
<1>2. /\ losses' = losses + 1 /\ UNCHANGED <<generations, staged, pointer, launches>>
      /\ pc' = "down"
      /\ \/ UNCHANGED <<outcome, run, memory>>
         \/ outcome' = "crash" /\ Forgotten /\ run' = NoRun
  BY DEF PowerLoss, Stop
<1>3. Types /\ Store(models) /\ Committed /\ Recoverable
  BY DEF IInv, Types
<1>4. /\ Store(models') /\ DOMAIN models' = DOMAIN models
      /\ \A n \in DOMAIN models :
           /\ models'[n].clock = models[n].clock /\ models'[n].batch = models[n].batch
           /\ models'[n].state = models[n].state /\ models'[n].shards = models[n].shards
           /\ models'[n].target = models[n].target
  <2>1. ASSUME NEW n \in DOMAIN models
        PROVE  /\ models'[n] \in Directories
               /\ models'[n].clock = models[n].clock /\ models'[n].batch = models[n].batch
               /\ models'[n].state = models[n].state /\ models'[n].shards = models[n].shards
               /\ models'[n].target = models[n].target
    <3>1. models[n] \in Directories
      BY <1>3 DEF Store
    <3>2. models'[n] \in {[models[n] EXCEPT !.readable = FALSE], [models[n] EXCEPT !.synced = TRUE]}
      BY <1>1
    <3> QED  BY <3>1, <3>2 DEF Directories
  <2>2. models' = [n \in DOMAIN models |-> models'[n]]
    BY <1>1
  <2>3. DOMAIN models' = DOMAIN models /\ DOMAIN models \subseteq Nat
    BY <1>1, <1>3 DEF Store
  <2> QED  BY <2>1, <2>2, <2>3 DEF Store
<1>5. Types'
  <2>1. NewClock(Rows, 1) \in Clocks
    BY ConstantsAssumption DEF NewClock, Clocks
  <2>2. NoRun \in Runs /\ NoRun.batch = 1
    BY DEF NoRun, Runs, Names
  <2>3. <<>> \in Histories
    BY DEF Histories
  <2>4. /\ outcome' \in Outcomes /\ run' \in Runs /\ run'.batch \in BatchSizes \union {1}
        /\ clock' \in Clocks /\ target' \in Names /\ old' \in Names
        /\ model' \in Histories /\ adam' \in Histories
    <3>1. CASE UNCHANGED <<outcome, run, memory>>
      BY <3>1, <1>3 DEF Types, memory
    <3>2. CASE outcome' = "crash" /\ Forgotten /\ run' = NoRun
      BY <3>2, <2>1, <2>2, <2>3 DEF Forgotten, Names, Outcomes
    <3> QED  BY <3>1, <3>2, <1>2
  <2>5. launches' \in Nat /\ losses' \in Nat /\ pointer' \in Names /\ pc' \in Points
    <3>1. launches \in Nat /\ losses \in Nat /\ pointer \in Names
      BY <1>3 DEF Types
    <3>2. pc' \in Points
      BY <1>2 DEF Points
    <3> QED  BY <3>1, <3>2, <1>2
  <2>6. /\ Store(generations')
        /\ staged' \in [{"model", "recovery"} -> {staged'["model"], staged'["recovery"]}]
        /\ Store(staged'["model"]) /\ Store(staged'["recovery"])
    BY <1>2, <1>3 DEF Types
  <2> QED  BY <1>4, <2>4, <2>5, <2>6 DEF Types
<1>6. Committed'
  <2>1. ASSUME NEW n \in DOMAIN models
        PROVE  Sealed(n, models'[n])
    BY <1>3, <1>4 DEF Committed, Sealed
  <2> QED  BY <2>1, <1>3, <1>4 DEF Committed
<1>7. Recoverable'
  BY <1>2, <1>3, <1>4 DEF Recoverable, Paired
<1>8. InMemory' /\ InSave'
  BY <1>2 DEF InMemory, InSave, Sealing, Recovering
<1>9. NoCrossing'
  BY <1>2 DEF IInv, NoCrossing
<1> QED  BY <1>5, <1>6, <1>7, <1>8, <1>9 DEF IInv

LEMMA StutterKeepsIInv == IInv /\ UNCHANGED vars => IInv'
<1> SUFFICES ASSUME IInv, UNCHANGED vars  PROVE IInv'
  OBVIOUS
<1>1. Types'
  BY DEF IInv, Types, vars, Store
<1>2. Committed' /\ Recoverable'
  BY StoresStay DEF IInv, vars
<1>3. InMemory'
  BY DEF IInv, InMemory, Covered, vars
<1>4. InSave'
  BY DEF IInv, InSave, Holds, Name, Generation, vars
<1>5. NoCrossing'
  BY DEF IInv, NoCrossing, vars
<1> QED  BY <1>1, <1>2, <1>3, <1>4, <1>5 DEF IInv

LEMMA NextKeepsIInv == IInv /\ [Next]_vars => IInv'
BY LaunchKeepsIInv, SetupKeepsIInv, ValidateKeepsIInv, TrainKeepsIInv, FinishKeepsIInv,
   PrepareModelKeepsIInv, WriteModelShardKeepsIInv, SealModelKeepsIInv, CommitModelKeepsIInv,
   PrepareRecoveryKeepsIInv, WriteRecoveryShardKeepsIInv, SealRecoveryKeepsIInv,
   CommitRecoveryKeepsIInv, PointKeepsIInv, RetireKeepsIInv, CrashKeepsIInv, PowerLossKeepsIInv,
   StutterKeepsIInv DEF Next

-----------------------------------------------------------------------------
\* The theorems

\* The invariant above holds in every reachable state.
THEOREM Inductive == Spec => []IInv
<1>1. Init => IInv
  BY InitIInv
<1>2. IInv /\ [Next]_vars => IInv'
  BY NextKeepsIInv
<1> QED  BY <1>1, <1>2, PTL DEF Spec

\* Clocks, names and directories keep the shapes the code writes.
THEOREM TypeCorrect == Spec => []TypeOK
<1>1. IInv => TypeOK
  <2> SUFFICES ASSUME IInv  PROVE TypeOK
    OBVIOUS
  <2>1. /\ clock.samples_per_epoch = Rows /\ clock.consumed \in Nat /\ clock.updates \in Nat
    BY DEF IInv, Types, Clocks
  <2>2. /\ \A n \in DOMAIN models : models[n].shards \subseteq Ranks
        /\ \A n \in DOMAIN generations : generations[n].shards \subseteq Ranks
    BY DEF IInv, Types, Store, Directories
  <2>3. ASSUME NEW n \in DOMAIN generations
        PROVE  n \in Nat \ {Final}
    <3>1. Paired(n, generations[n]) /\ n \in Nat /\ generations[n].of \in DOMAIN models
          /\ models[generations[n].of] \in Directories
          /\ Sealed(generations[n].of, models[generations[n].of])
      BY DEF IInv, Types, Store, Recoverable, Committed, Paired
    <3>2. generations[n].clock \in Clocks
            /\ Verified(generations[n].clock, models[generations[n].of].target)
      BY <3>1 DEF Paired, Sealed, Directories
    <3>3. generations[n].clock.consumed >= 1
      BY <3>2, VerifiedTarget
    <3> QED  BY <3>1, <3>3 DEF Paired, Final
  <2> QED  BY <2>1, <2>2, <2>3 DEF IInv, Types, Store, TypeOK, Names
<1> QED  BY <1>1, Inductive, PTL

\* Whatever died when, a committed checkpoint that can be read holds every rank's shard
\* and is accepted by a continuation, and latest.json names a whole generation paired
\* with a committed checkpoint of the same update (sft_restart.py:25-112).
THEOREM CommittedStaysWhole == Spec => []CommittedIsWhole
<1>1. IInv => CommittedIsWhole
  BY DEF IInv, Committed, Recoverable, Sealed, Paired, Continuable, CommittedIsWhole
<1> QED  BY <1>1, Inductive, PTL

\* The optimizer has seen the latest updates of the weights it steps and no others, also
\* after a recovery was loaded (sft_restart.py:116-128).
THEOREM RecoveredOptimizerFollows == Spec => []OptimizerFollowsWeights
<1>1. IInv => OptimizerFollowsWeights
  BY DEF IInv, InMemory, OptimizerFollowsWeights
<1> QED  BY <1>1, Inductive, PTL

\* However often a run died and was continued, each sample was trained on once and in
\* order, targets that were passed are covered by checkpoints, and quarter-epoch batches
\* are never rejected (train_sensenovau1_fsdp2.py:505-748, sample_progress.py:49-57).
THEOREM EverySampleOnce == Spec => []SamplesExact
<1>1. ASSUME NEW batch \in Nat \ {0}, NEW end, NEW history \in Histories,
             Regular(history, batch, end)
      PROVE  Tiles(history, end)
  <2>1. ASSUME NEW i \in DOMAIN history
        PROVE  /\ history[i][2] >= 1
               /\ history[i][1] \div Rows = (history[i][1] + history[i][2] - 1) \div Rows
    <3>1. history[i][1] \in Nat /\ history[i][2] \in Nat
      BY HistoryEntry
    <3>2. history[i][2] \in 1 .. Whole(batch, history[i][1])
      <4>1. Whole(batch, history[i][1]) \in Nat
        BY <3>1, WholeBatch
      <4>2. 1 <= history[i][2] /\ history[i][2] <= Whole(batch, history[i][1])
        BY <1>1 DEF Regular
      <4> QED  BY <4>1, <4>2, <3>1
    <3>3. history[i][1] \div Rows = (history[i][1] + history[i][2] - 1) \div Rows
      BY <3>1, <3>2, WithinEpoch
    <3> QED  BY <3>1, <3>2, <3>3
  <2> QED  BY <2>1, <1>1 DEF Tiles, Regular
<1>2. IInv => SamplesExact
  <2> SUFFICES ASSUME IInv  PROVE SamplesExact
    OBVIOUS
  <2>1. pc \notin {"down", "setup"} => Tiles(model, clock.consumed)
    <3>1. run.batch \in Nat \ {0} /\ model \in Histories
      BY DEF IInv, Types, Runs
    <3> QED  BY <3>1, <1>1 DEF IInv, InMemory
  <2>2. ASSUME NEW n \in DOMAIN models
        PROVE  Tiles(models[n].state, models[n].clock.consumed)
    <3>1. models[n] \in Directories /\ Sealed(n, models[n])
      BY DEF IInv, Types, Store, Committed
    <3>2. models[n].batch \in Nat \ {0} /\ models[n].state \in Histories
      BY <3>1 DEF Directories
    <3> QED  BY <3>1, <3>2, <1>1 DEF Sealed
  <2>3. ASSUME pc = "train", NEW t \in Targets(Rows, run.max), run.start < t, t <= clock.consumed
        PROVE  Covered(t)
    BY <2>3 DEF IInv, InMemory, Sealing
  <2> QED  BY <2>1, <2>2, <2>3 DEF IInv, NoCrossing, Covered, SamplesExact
<1> QED  BY <1>2, Inductive, PTL

=============================================================================
