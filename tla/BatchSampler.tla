----------------------------- MODULE BatchSampler -----------------------------
(***************************************************************************)
(* Who reads which samples (sensenovalm/data/tokenized/batch_sampler.py,   *)
(* build_dataloader.py; sensenovavl/data/batch_sampler.py): the strided    *)
(* sampler of validation, the static batches of training with their ramp,  *)
(* weighted draws from several datasets, and what a saved sampler restores.*)
(*                                                                         *)
(* A shuffle is a permutation that the state of the generator determines;  *)
(* every draw advances that state.                                         *)
(***************************************************************************)
EXTENDS Integers, FiniteSets, SequencesExt

Joined(s) == FoldLeft(LAMBDA a, b : a \o b, <<>>, s)
Total(s) == FoldLeft(LAMBDA a, b : a + b, 0, s)
Least(a, b) == IF a < b THEN a ELSE b
CeilDiv(a, b) == -((-a) \div b)
Strided(s, first, step) ==
  [k \in 1 .. CeilDiv(Len(s) - first, step) |-> s[first + (k - 1) * step + 1]]

Permuted(n, seed) == [i \in 1 .. n |-> (i - 1 + seed) % n]

-----------------------------------------------------------------------------
(* DataParallelSampler.                                                     *)

NumSamples(n, replicas, drop) ==
  IF drop /\ n % replicas # 0 THEN CeilDiv(n - replicas, replicas) ELSE CeilDiv(n, replicas)

Evened(indices, replicas, drop) ==
  LET n == Len(indices)
      total == NumSamples(n, replicas, drop) * replicas
      padding == total - n
  IN  IF drop THEN SubSeq(indices, 1, total)
      ELSE indices \o SubSeq(Joined([k \in 1 .. CeilDiv(padding, n) |-> indices]), 1, padding)

Dealt(indices, replicas, rank, drop) == Strided(Evened(indices, replicas, drop), rank, replicas)

\* Validation batches hold whole micro-batches, no more than a rank's share.
ValidBatch(n, world, micros, size) == (Least(micros * size, n \div world) \div size) * size

-----------------------------------------------------------------------------
(* StaticBatchSampler.  c: the samples, the ranks, the batch of a rank and  *)
(* how it grows to that.                                                    *)

Ramped(c) == [c EXCEPT !.start = IF c.ramp THEN @ ELSE c.batch, !.incre = IF c.ramp THEN @ ELSE c.batch,
                       !.every = IF c.ramp THEN @ ELSE 1]

RampSteps(c) == (c.batch - c.start) \div c.incre
RampSamples(c) == Total([i \in 1 .. RampSteps(c) |-> ((i - 1) * c.incre + c.start) * c.every])
InRamp(c, s) == s.count < RampSteps(c) * c.every

SamplerAccepts(c) ==
  /\ (c.batch - c.start) % c.incre = 0 /\ c.start <= c.batch
  /\ \A n \in {c.batch, c.start, c.incre} : n % c.micro = 0
  /\ RampSamples(c) * c.world <= c.samples

\* What is left of the samples when every rank has whole batches.
Usable(c, s) ==
  LET ramp == IF InRamp(c, s) THEN RampSamples(c) * c.world ELSE 0
      full == c.batch * c.world
  IN  ((c.samples - ramp) \div full) * full + ramp

GetIndices(c, s) ==
  [s EXCEPT !.saved = s.rng, !.rng = @ + 1, !.consumed = 0,
            !.indices = SubSeq(Permuted(c.samples, s.rng), 1, Usable(c, s))]

NewSampler(c) ==
  GetIndices(c, [rng |-> c.seed, saved |-> 0, count |-> 0, consumed |-> 0, indices |-> <<>>])

\* __len__
Batches(c, s) ==
  IF InRamp(c, s)
  THEN ((c.samples - RampSamples(c) * c.world) \div c.batch) \div c.world + c.every * RampSteps(c)
  ELSE (c.samples \div c.batch) \div c.world

BatchSize(c, count) == Least((count \div c.every) * c.incre + c.start, c.batch)

Mine(c, s, rank) == Strided(s.indices, rank, c.world)
Exhausted(c, s, rank) == s.consumed >= Len(Mine(c, s, rank))

\* Mutant: the size of a batch changes after it is cut.
NextStale(c, s, rank) ==
  LET size == BatchSize(c, s.count + 1)
      batch == SubSeq(Mine(c, s, rank), s.consumed + 1, Least(s.consumed + size, Len(Mine(c, s, rank))))
  IN  [batch |-> batch, s |-> [s EXCEPT !.consumed = @ + Len(batch), !.count = @ + 1]]

NextBatch(c, s, rank) ==
  LET size == BatchSize(c, s.count)
      batch == SubSeq(Mine(c, s, rank), s.consumed + 1, Least(s.consumed + size, Len(Mine(c, s, rank))))
  IN  [batch |-> batch, s |-> [s EXCEPT !.consumed = @ + Len(batch), !.count = @ + 1]]

\* The batches that are left of this pass, and the sampler after it.
Drained(c, s, rank) ==
  LET Step(run, i) ==
        IF Exhausted(c, run.s, rank) THEN run
        ELSE LET next == NextBatch(c, run.s, rank)
             IN  [batches |-> Append(run.batches, next.batch), s |-> next.s]
      run == FoldLeft(Step, [batches |-> <<>>, s |-> s], [i \in 1 .. c.samples |-> i])
  IN  [batches |-> run.batches, s |-> GetIndices(c, run.s)]

\* A new sampler shuffles from the saved generator, then takes the counts.
Restored(c, s) ==
  [GetIndices(c, [NewSampler(c) EXCEPT !.rng = s.saved]) EXCEPT !.count = s.count, !.consumed = s.consumed]

\* StreamingStaticBatchSampler: sizes alone, without end.
StreamedSizes(c, n) == [k \in 1 .. n |-> BatchSize(c, k - 1)]

-----------------------------------------------------------------------------
(* WeightedSampler.  A dataset has a name and a length; a draw names the    *)
(* position of a dataset.                                                   *)

ShuffledSet(w, d, seed) ==
  [w EXCEPT !.seed[d] = seed, !.order[d] = Permuted(w.length[d], seed), !.pos[d] = 0]

NewWeighted(datasets, seed) ==
  LET none == [d \in DOMAIN datasets |-> 0]
  IN  FoldLeft(LAMBDA w, d : ShuffledSet(w, d, seed + d - 1),
               [name |-> [d \in DOMAIN datasets |-> datasets[d].name],
                length |-> [d \in DOMAIN datasets |-> datasets[d].length],
                seed |-> none, order |-> none, pos |-> none, consumed |-> none],
               [d \in DOMAIN datasets |-> d])

GlobalIndex(w, d, i) == Total(SubSeq(w.length, 1, d - 1)) + i

NextSample(w, d) ==
  LET sample == w.order[d][w.pos[d] + 1]
      stepped == [w EXCEPT !.pos[d] = @ + 1, !.consumed[d] = @ + 1]
  IN  [sample |-> sample,
       w |-> IF stepped.pos[d] >= w.length[d] THEN ShuffledSet(stepped, d, (w.seed[d] + 1) % 65536) ELSE stepped]

Drawn(w, choices) ==
  FoldLeft(LAMBDA run, d : LET next == NextSample(run.w, d)
                           IN  [w |-> next.w, samples |-> Append(run.samples, <<run.w.name[d], next.sample>>),
                                indices |-> Append(run.indices, GlobalIndex(run.w, d, next.sample))],
           [w |-> w, samples |-> <<>>, indices |-> <<>>], choices)

\* One draw for all ranks, of which each takes its part.
RankShare(indices, size, rank) == SubSeq(indices, rank * size + 1, (rank + 1) * size)

\* Only the seed and the position of a dataset are saved.
LoadWeighted(w, states) ==
  LET Known(d) == {k \in DOMAIN states.name : states.name[k] = w.name[d]}
      At(d) == CHOOSE k \in Known(d) : TRUE
      Load(run, d) ==
        IF Known(d) = {} THEN run
        ELSE LET seeded == IF states.seed[At(d)] # run.seed[d] THEN ShuffledSet(run, d, states.seed[At(d)]) ELSE run
             IN  [seeded EXCEPT !.pos[d] = states.pos[At(d)], !.consumed[d] = states.consumed[At(d)]]
  IN  FoldLeft(Load, w, [d \in DOMAIN w.name |-> d])

-----------------------------------------------------------------------------
(* get_dataset_weights: the weight of a folder, or the part of its          *)
(* language's weight that its length has, in parts of 1 / Unit.             *)

Unit == 5040

Lengths(datasets, P(_)) ==
  Total([i \in DOMAIN datasets |-> IF P(datasets[i]) THEN datasets[i].length ELSE 0])

WeightsAccepted(weights, datasets) ==
  /\ \A i, j \in DOMAIN datasets : datasets[i].dir = datasets[j].dir => datasets[i].lang = datasets[j].lang
  /\ \A key \in DOMAIN weights :
       \/ weights[key] = 0
       \/ \E i \in DOMAIN datasets : key \in {datasets[i].lang, datasets[i].dir}
  /\ \A i \in DOMAIN datasets : ~({datasets[i].lang, datasets[i].dir} \subseteq DOMAIN weights)

FolderWeight(weights, datasets, ds) ==
  LET folder == Lengths(datasets, LAMBDA x : x.dir = ds.dir)
      language == Lengths(datasets, LAMBDA x : x.lang = ds.lang)
  IN  IF ds.lang \in DOMAIN weights THEN (Unit * weights[ds.lang] * folder) \div language
      ELSE IF ds.dir \in DOMAIN weights THEN Unit * weights[ds.dir]
      ELSE 0

DatasetWeights(weights, datasets) ==
  [i \in DOMAIN datasets |->
     (FolderWeight(weights, datasets, datasets[i]) * datasets[i].length)
       \div Lengths(datasets, LAMBDA x : x.dir = datasets[i].dir)]

-----------------------------------------------------------------------------
Flat(s) == Joined(s)
NoDuplicate(s) == Cardinality({s[i] : i \in DOMAIN s}) = Len(s)

(* Ranks validate on equally many samples: with nothing dropped every       *)
(* sample is read, with drops none is read twice.                           *)
DealtExact(n, replicas) ==
  LET indices == Permuted(n, 1)
      All(drop) == Flat([r \in 1 .. replicas |-> Dealt(indices, replicas, r - 1, drop)])
  IN  /\ \A drop \in BOOLEAN, r \in 0 .. replicas - 1 :
           Len(Dealt(indices, replicas, r, drop)) = NumSamples(n, replicas, drop)
      /\ ToSet(All(FALSE)) = ToSet(indices) /\ Len(All(FALSE)) - n \in 0 .. replicas - 1
      /\ NoDuplicate(All(TRUE)) /\ n - Len(All(TRUE)) \in 0 .. replicas - 1
      /\ \A micros \in 1 .. 2, size \in 1 .. 2 :
           LET b == ValidBatch(n, replicas, micros, size)
           IN  b % size = 0 /\ b <= micros * size /\ b * replicas <= n

(* In every pass the ranks take equally many batches of equal sizes, as     *)
(* many as the sampler's length says, their samples are disjoint and no     *)
(* more than a batch of all ranks is left over.  A pass that was saved      *)
(* after any batch goes on in the saved order from the saved position.      *)
(* Only in the first pass, or without a ramp, does it also end where it     *)
(* would have: load_state_dict cuts the new order before it takes the count *)
(* of batches (269-276), as if the ramp were still to come, and reads no    *)
(* saved indices, so in a later pass the end differs, where line 264 says   *)
(* that the sequence is the same as before.                                 *)
StaticExact(conf) ==
  LET c == Ramped(conf)
      first == NewSampler(c)
      second == Drained(c, first, 0).s
      Sizes(s, r) == [k \in DOMAIN Drained(c, s, r).batches |-> Len(Drained(c, s, r).batches[k])]
      After(s, r, k) ==
        FoldLeft(LAMBDA run, i : NextBatch(c, run, r).s, s, [i \in 1 .. k |-> i])
  IN  \A s \in {first, second} :
        /\ \A r \in 0 .. c.world - 1 :
             /\ Sizes(s, r) = Sizes(s, 0)
             /\ Sizes(s, r) = [k \in 1 .. Batches(c, s) |-> BatchSize(c, s.count + k - 1)]
             /\ s = first => Sizes(s, r) = StreamedSizes(c, Len(Sizes(s, r)))
             /\ Drained(c, s, r).s = Drained(c, s, 0).s
             /\ \A k \in 0 .. Batches(c, s) :
                  LET left == Drained(c, After(s, r, k), r).batches
                      again == Drained(c, Restored(c, After(s, r, k)), r).batches
                  IN  /\ IsPrefix(Flat(again), Flat(left)) \/ IsPrefix(Flat(left), Flat(again))
                      /\ s = first \/ RampSteps(c) = 0 => again = left
        /\ NoDuplicate(Flat([r \in 1 .. c.world |-> Flat(Drained(c, s, r - 1).batches)]))
        /\ c.samples - c.world * Total(Sizes(s, 0)) < c.batch * c.world

(* Draws from a dataset pass over all its samples before one comes again;   *)
(* every rank has its own part of a draw; and after a restart a dataset     *)
(* goes on where it was, also when datasets were added, removed or          *)
(* reordered.                                                               *)
WeightedExact(datasets, choices, later) ==
  LET w == NewWeighted(datasets, 3)
      run == Drawn(w, choices)
      Of(samples, name) == SelectSeq(samples, LAMBDA x : x[1] = name)
      Position(ds, name) == CHOOSE d \in DOMAIN ds : ds[d].name = name
      loaded == LoadWeighted(NewWeighted(later, 5), run.w)
  IN  /\ \A d \in DOMAIN datasets :
           LET own == Of(run.samples, datasets[d].name)
               n == datasets[d].length
           IN  /\ run.w.consumed[d] = Len(own)
               /\ \A i, j \in DOMAIN own : i < j /\ (i - 1) \div n = (j - 1) \div n => own[i] # own[j]
      /\ \A i \in DOMAIN choices :
           LET base == Total(SubSeq(w.length, 1, choices[i] - 1))
           IN  run.indices[i] \in base .. base + w.length[choices[i]] - 1
      /\ Len(choices) % 2 = 0 =>
           RankShare(run.indices, Len(choices) \div 2, 0) \o RankShare(run.indices, Len(choices) \div 2, 1) = run.indices
      /\ \A k \in 0 .. Len(choices) :
           LET saved == Drawn(w, SubSeq(choices, 1, k)).w
               restarted == LoadWeighted(NewWeighted(later, 5), saved)
           IN  \A d \in DOMAIN later : \A old \in {x \in DOMAIN datasets : datasets[x].name = later[d].name} :
                 LET rest == SelectSeq(SubSeq(choices, k + 1, Len(choices)), LAMBDA x : x = old)
                 IN  Drawn(restarted, [i \in DOMAIN rest |-> d]).samples = Drawn(saved, rest).samples

(* The weights of a language's or of a folder's datasets sum to its weight, *)
(* in proportion to their lengths.                                          *)
WeightsExact(weights, datasets) ==
  LET result == DatasetWeights(weights, datasets)
      Sum(P(_)) == Total([i \in DOMAIN datasets |-> IF P(datasets[i]) THEN result[i] ELSE 0])
  IN  /\ \A key \in DOMAIN weights :
           weights[key] # 0 => Sum(LAMBDA x : key \in {x.lang, x.dir}) = Unit * weights[key]
      /\ \A i, j \in DOMAIN datasets :
           datasets[i].dir = datasets[j].dir => result[i] * datasets[j].length = result[j] * datasets[i].length
=============================================================================
