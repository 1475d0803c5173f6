----------------------------- MODULE SampleClock -----------------------------
(***************************************************************************)
(* The arithmetic of the SFT sample clock: training/sensenovalm/data/      *)
(* sample_progress.py (checkpoint targets) and sample_batch.py (global     *)
(* batches, their shares).  A clock is the record of the fields of         *)
(* SampleProgress; a sample is its position in the run, epoch * rows plus  *)
(* its place in that epoch's permutation.                                  *)
(***************************************************************************)
EXTENDS Integers, FiniteSets

CheckpointsPerEpoch == 4

CeilDiv(a, b) == (a + b - 1) \div b
Least(a, b) == IF a <= b THEN a ELSE b

(* SampleProgress(n, max): nothing consumed yet. *)
NewClock(n, max) ==
  [samples_per_epoch |-> n, max_samples |-> max,
   consumed |-> 0, updates |-> 0, last |-> 0]

Done(clock) == clock.consumed >= clock.max_samples

(* Every quarter of every epoch inside the budget, and the budget's end. *)
Targets(n, max) ==
  {max} \union
  {t \in {epoch * n + CeilDiv(part * n, CheckpointsPerEpoch) :
            epoch \in 0 .. CeilDiv(max, n) - 1, part \in 1 .. CheckpointsPerEpoch} :
     t <= max}

\* Mutant: A target exactly at the end of an update belongs to the next one.
CrossedLate(clock, samples) ==
  {t \in Targets(clock.samples_per_epoch, clock.max_samples) :
     clock.consumed < t /\ t < clock.consumed + samples}

Crossed(clock, samples) ==
  {t \in Targets(clock.samples_per_epoch, clock.max_samples) :
     clock.consumed < t /\ t <= clock.consumed + samples}

(* checkpoint_target raises for an empty update, after the end, and when *)
(* one update crosses two targets.                                       *)
Acceptable(clock, samples) ==
  /\ samples >= 1
  /\ ~Done(clock)
  /\ Cardinality(Crossed(clock, samples)) <= 1

Advanced(clock, samples) ==
  [clock EXCEPT !.consumed = @ + samples, !.updates = @ + 1, !.last = samples]

(* verify_checkpoint_target: the update before this clock crossed target. *)
Verified(clock, target) ==
  LET previous == [clock EXCEPT !.consumed = @ - clock.last, !.updates = @ - 1]
  IN  /\ clock.updates >= 1 /\ clock.last >= 1
      /\ previous.consumed >= 0
      /\ Acceptable(previous, clock.last)
      /\ Crossed(previous, clock.last) = {target}

(* What sample_batches yields, at the positions where its batches begin. *)
EpochLimit(rows, max, epoch) == Least(rows, max - epoch * rows)
FirstIn(rows, start, epoch) == IF epoch = start \div rows THEN start % rows ELSE 0
Boundary(rows, batch, start) == (start % rows) % batch = 0

BatchStarts(rows, batch, max, start) ==
  {epoch * rows + first : epoch \in start \div rows .. CeilDiv(max, rows) - 1,
                          first \in 0 .. rows - 1}
  \intersect
  {s \in 0 .. max - 1 :
     LET epoch == s \div rows
     IN  /\ s % rows >= FirstIn(rows, start, epoch)
         /\ s % rows < EpochLimit(rows, max, epoch)
         /\ ((s % rows) - FirstIn(rows, start, epoch)) % batch = 0}

BatchAt(rows, batch, max, s) ==
  [epoch |-> s \div rows, start |-> s,
   count |-> Least(batch, EpochLimit(rows, max, s \div rows) - (s % rows))]

OptimizerUpdates(rows, batch, max) ==
  (max \div rows) * CeilDiv(rows, batch) + CeilDiv(max % rows, batch)

\* Mutant: Batches that run over the end of an epoch.
ExpectedSamplesAcrossEpochs(clock, batch) ==
  Least(batch, clock.max_samples - clock.consumed)

(* The trainer's own expectation for the next batch. *)
ExpectedSamples(clock, batch) ==
  LET n == clock.samples_per_epoch
  IN  Least(batch, Least(clock.max_samples - clock.consumed,
                         (clock.consumed \div n + 1) * n - clock.consumed))

=============================================================================
