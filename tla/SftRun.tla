------------------------------- MODULE SftRun -------------------------------
(***************************************************************************)
(* SFT runs in one run directory: training/train_sensenovau1_fsdp2.py      *)
(* (main, _save_training_checkpoint), tools/sft_restart.py (recovery       *)
(* generations) and tools/sft_validation.py (the callback's loader).       *)
(* Launches follow each other; each may start fresh or continue from a     *)
(* committed checkpoint, with or without a recovery generation.  Processes *)
(* die at any step, and the machine may lose power.                        *)
(*                                                                         *)
(* Model weights and optimizer state are the sequences of updates they     *)
(* went through.  All ranks step together (every step ends in a barrier    *)
(* or an all-reduce) except in the shard writes.                           *)
(***************************************************************************)
EXTENDS SampleClock, Sequences

CONSTANTS Ranks,          \* world size of every launch
          Rows,           \* samples_per_epoch
          BatchSizes,     \* values of batch_samples
          Budgets,        \* values of max_samples
          Modes,          \* what launches save and whether they validate
          HeldOut,        \* number of held-out validation samples
          MaxLaunches,    \* bound: launches in one directory
          MaxPowerLosses, \* bound: machine crashes
          None

ASSUME ConstantsAssumption ==
  /\ IsFiniteSet(Ranks) /\ Ranks # {}
  /\ Rows \in Nat /\ Rows >= CheckpointsPerEpoch
  /\ BatchSizes \subseteq Nat \ {0}
  /\ Budgets \subseteq Nat \ {0}
  /\ Modes \subseteq [saving : BOOLEAN, validating : BOOLEAN]
  /\ HeldOut \in Nat \ {0}
  /\ MaxLaunches \in Nat /\ MaxPowerLosses \in Nat
  /\ None \notin Nat

VARIABLES pc,        \* what the job does, "down" between launches
          outcome,   \* how the last launch ended
          run,       \* its arguments
          clock,     \* SampleProgress
          target,    \* checkpoint target the last update crossed
          old,       \* the generation being retired
          model,     \* updates in the weights
          adam,      \* updates in the optimizer state
          models,    \* committed model checkpoints, by name
          generations, \* committed recovery generations, by name
          staged,    \* staging directories left or in use, by kind and name
          pointer,   \* the generation latest.json names
          launches, losses

vars == <<pc, outcome, run, clock, target, old, model, adam, models, generations,
          staged, pointer, launches, losses>>
files == <<models, generations, staged, pointer>>
memory == <<clock, target, old, model, adam>>

Final == 0
NoRun == [batch |-> 1, max |-> 1, start |-> 0, from |-> None, recovery |-> None,
          mode |-> [saving |-> FALSE, validating |-> FALSE]]

CheckpointName(c) == IF Done(c) THEN Final ELSE c.consumed
\* Mutant: The last generation named like its model checkpoint.
GenerationNameFinal(c) == CheckpointName(c)

GenerationName(c) == c.consumed

Init ==
  /\ pc = "down" /\ outcome = "none" /\ run = NoRun
  /\ clock = NewClock(Rows, 1) /\ target = None /\ old = None
  /\ model = <<>> /\ adam = <<>>
  /\ models = <<>> /\ generations = <<>>
  /\ staged = [kind \in {"model", "recovery"} |-> <<>>]
  /\ pointer = None /\ launches = 0 /\ losses = 0

-----------------------------------------------------------------------------
(* The launch.  A step that raises ends the job: torchrun stops the rest. *)

Goto(point) == pc' = point /\ UNCHANGED outcome

Forgotten ==
  /\ clock' = NewClock(Rows, 1) /\ target' = None /\ old' = None
  /\ model' = <<>> /\ adam' = <<>>

(* The processes end and their memory with them. *)
Stop(why) == pc' = "down" /\ outcome' = why /\ Forgotten

Continue(point) == Goto(point) /\ UNCHANGED memory

(* A fresh run, or a continuation from what the directory holds. *)
Launch ==
  /\ pc = "down" /\ launches < MaxLaunches
  /\ \E batch \in BatchSizes, max \in Budgets, mode \in Modes :
       \/ run' = [NoRun EXCEPT !.batch = batch, !.max = max, !.mode = mode]
       \/ \E from \in DOMAIN models, recovery \in DOMAIN generations \union {None} :
            run' = [batch |-> batch, max |-> max, start |-> models[from].clock.consumed,
                    from |-> from, recovery |-> recovery, mode |-> mode]
  /\ launches' = launches + 1
  /\ pc' = "setup" /\ outcome' = "running"
  /\ UNCHANGED <<memory, files, losses>>

(* checkpoint_progress: what a directory must hold to be continued from. *)
Continuable(name) ==
  /\ models[name].readable
  /\ models[name].shards = Ranks
  /\ Verified(models[name].clock, models[name].target)
  /\ name = CheckpointName(models[name].clock)

SameProgress(c, d) ==
  \A field \in {"samples_per_epoch", "consumed", "updates", "last"} : c[field] = d[field]

Admitted(from) ==
  /\ Continuable(from)
  /\ models[from].clock.consumed = run.start
  /\ run.start < run.max
  /\ models[from].batch = run.batch

Restored(from) ==
  [models[from].clock EXCEPT !.max_samples = run.max]

\* Mutant: load_recovery without the comparison of the progress.
LoadableAnyProgress(name, c) ==
  generations[name].shards = Ranks /\ generations[name].batch = run.batch

(* load_recovery: same topology, batch and progress, and all files there. *)
Loadable(name, c) ==
  /\ generations[name].shards = Ranks
  /\ generations[name].batch = run.batch
  /\ SameProgress(generations[name].clock, c)

Setup ==
  /\ pc = "setup"
  /\ LET fresh == run.from = None
         admitted == /\ fresh \/ Admitted(run.from)
                     /\ run.recovery # None => Loadable(run.recovery, Restored(run.from))
                     /\ run.batch >= Cardinality(Ranks)
     IN  IF admitted
         THEN /\ clock' = IF fresh THEN NewClock(Rows, run.max) ELSE Restored(run.from)
              /\ model' = IF fresh THEN <<>> ELSE models[run.from].state
              /\ adam' = IF run.recovery = None THEN <<>> ELSE generations[run.recovery].state
              /\ target' = None /\ old' = None
              /\ Goto(IF run.mode.validating THEN "validate" ELSE "train")
         ELSE Stop("refused")
  /\ UNCHANGED <<run, files, launches, losses>>

(* SampleValidation copies the training configuration and replaces the data, *)
(* the budget and the batch; start_samples stays that of the launch.         *)
ValidationCoverage ==
  IF run.start >= HeldOut THEN {} ELSE run.start .. HeldOut - 1

Validate ==
  /\ pc = "validate"
  /\ IF ValidationCoverage = 0 .. HeldOut - 1
     THEN Continue("train")
     ELSE Stop("validation")
  /\ UNCHANGED <<run, files, launches, losses>>

-----------------------------------------------------------------------------
(* One optimizer update.  The loader raises on its first batch when the run *)
(* does not start at a batch boundary; the clock raises before the weights  *)
(* change when the update would cross two targets.                          *)

Window == <<clock.consumed, ExpectedSamples(clock, run.batch)>>

Train ==
  /\ pc = "train" /\ ~Done(clock)
  /\ UNCHANGED <<run, files, launches, losses>>
  /\ IF ~Boundary(Rows, run.batch, run.start)
     THEN Stop("boundary")
     ELSE IF ~Acceptable(clock, Window[2])
     THEN Stop("crossing")
     ELSE LET crossed == Crossed(clock, Window[2])
          IN  /\ model' = Append(model, Window)
              /\ adam' = Append(adam, Window)
              /\ clock' = Advanced(clock, Window[2])
              /\ UNCHANGED old
              /\ IF crossed = {}
                 THEN target' = None /\ Goto("train")
                 ELSE target' \in crossed /\ Goto("stage")

Finish ==
  /\ pc = "train" /\ Done(clock)
  /\ Stop("done")
  /\ UNCHANGED <<run, files, launches, losses>>

-----------------------------------------------------------------------------
(* Directories are staged, filled by all ranks, sealed and renamed.         *)

Exists(kind, committed, name) == name \in DOMAIN committed \union DOMAIN staged[kind]

(* A directory comes into being under a name: mkdir, os.rename. *)
Filed(directories, name, content) ==
  [n \in DOMAIN directories \union {name} |-> IF n = name THEN content ELSE directories[n]]

Stage(kind, name, content) ==
  staged' = [staged EXCEPT ![kind] = Filed(@, name, content)]

Staged(kind, name) == staged[kind][name]

Unstage(kind, name) ==
  staged' = [staged EXCEPT ![kind] = [n \in DOMAIN @ \ {name} |-> @[n]]]

\* Mutant: Ranks overwrite each other's part of the directory.
ShardOverwrites(kind, name, rank) ==
  /\ rank \notin Staged(kind, name).shards
  /\ staged' = [staged EXCEPT ![kind][name].shards = {rank}]

Shard(kind, name, rank) ==
  /\ rank \notin Staged(kind, name).shards
  /\ staged' = [staged EXCEPT ![kind][name].shards = @ \union {rank}]

\* Mutant: No barrier between the shards and the seal.
AllShardedNoBarrier(kind, name) == TRUE

AllSharded(kind, name) == Staged(kind, name).shards = Ranks

NewDirectory(state) ==
  [clock |-> clock, batch |-> run.batch, state |-> state, shards |-> {},
   target |-> None, of |-> None, readable |-> TRUE, synced |-> TRUE]

-----------------------------------------------------------------------------
(* _save_training_checkpoint. *)

Name == CheckpointName(clock)

PrepareModel ==
  /\ pc = "stage"
  /\ IF Exists("model", models, Name)
     THEN Stop("occupied") /\ UNCHANGED staged
     ELSE Stage("model", Name, NewDirectory(model)) /\ Continue("shards")
  /\ UNCHANGED <<run, models, generations, pointer, launches, losses>>

WriteModelShard(rank) ==
  /\ pc = "shards"
  /\ Shard("model", Name, rank)
  /\ UNCHANGED <<pc, outcome, run, memory, models, generations, pointer, launches, losses>>

(* checkpoint.json is written without an fsync. *)
SealModel ==
  /\ pc = "shards"
  /\ AllSharded("model", Name)
  /\ staged' = [staged EXCEPT !["model"][Name].target = target,
                              !["model"][Name].synced = FALSE]
  /\ Goto("commit")
  /\ UNCHANGED <<run, memory, models, generations, pointer, launches, losses>>

CommitModel ==
  /\ pc = "commit"
  /\ models' = Filed(models, Name, Staged("model", Name))
  /\ Unstage("model", Name)
  /\ Goto(IF run.mode.saving THEN "recover" ELSE IF run.mode.validating THEN "validate" ELSE "train")
  /\ UNCHANGED <<run, memory, generations, pointer, launches, losses>>

-----------------------------------------------------------------------------
(* save_recovery. *)

Generation == GenerationName(clock)

PrepareRecovery ==
  /\ pc = "recover"
  /\ IF \/ ~Continuable(Name)
        \/ models[Name].clock # clock
        \/ Exists("recovery", generations, Generation)
     THEN Stop("occupied") /\ UNCHANGED staged
     ELSE Stage("recovery", Generation, NewDirectory(adam)) /\ Continue("recovery shards")
  /\ UNCHANGED <<run, models, generations, pointer, launches, losses>>

WriteRecoveryShard(rank) ==
  /\ pc = "recovery shards"
  /\ Shard("recovery", Generation, rank)
  /\ UNCHANGED <<pc, outcome, run, memory, models, generations, pointer, launches, losses>>

SealRecovery ==
  /\ pc = "recovery shards"
  /\ AllSharded("recovery", Generation)
  /\ staged' = [staged EXCEPT !["recovery"][Generation].of = Name]
  /\ Goto("recovery commit")
  /\ UNCHANGED <<run, memory, models, generations, pointer, launches, losses>>

CommitRecovery ==
  /\ pc = "recovery commit"
  /\ generations' = Filed(generations, Generation, Staged("recovery", Generation))
  /\ Unstage("recovery", Generation)
  /\ Goto("point")
  /\ UNCHANGED <<run, memory, models, pointer, launches, losses>>

\* Mutant: the generation to retire is read from the pointer just replaced.
PointThenRead ==
  /\ pc = "point"
  /\ pointer' = Generation
  /\ old' = Generation
  /\ Goto("retire")
  /\ UNCHANGED <<run, clock, target, model, adam, models, generations, staged, launches, losses>>

(* os.replace of latest.json; the generation it named is retired next. *)
Point ==
  /\ pc = "point"
  /\ pointer' = Generation
  /\ old' = IF pointer = Generation THEN None ELSE pointer
  /\ Goto("retire")
  /\ UNCHANGED <<run, clock, target, model, adam, models, generations, staged, launches, losses>>

(* shutil.rmtree removes one file after the other, then the directory. *)
Retire ==
  /\ pc = "retire"
  /\ IF old \notin DOMAIN generations
     THEN /\ Goto(IF run.mode.validating THEN "validate" ELSE "train")
          /\ UNCHANGED generations
     ELSE /\ \/ \E rank \in generations[old].shards :
                  generations' = [generations EXCEPT ![old].shards = @ \ {rank}]
             \/ /\ generations[old].shards = {}
                /\ generations' = [n \in DOMAIN generations \ {old} |-> generations[n]]
          /\ UNCHANGED <<pc, outcome>>
  /\ UNCHANGED <<run, memory, models, staged, pointer, launches, losses>>

-----------------------------------------------------------------------------
(* Faults. *)

Crash ==
  /\ pc # "down"
  /\ Stop("crash") /\ run' = NoRun
  /\ UNCHANGED <<files, launches, losses>>

(* A machine crash loses the latest of the files that were not synced (the *)
(* kernel writes back in order); directory operations are kept.             *)
PowerLoss ==
  /\ losses < MaxPowerLosses
  /\ losses' = losses + 1
  /\ \E from \in {models[n].clock.consumed : n \in DOMAIN models} \union {None} :
       models' = [n \in DOMAIN models |->
                    IF from # None /\ ~models[n].synced /\ models[n].clock.consumed >= from
                    THEN [models[n] EXCEPT !.readable = FALSE]
                    ELSE [models[n] EXCEPT !.synced = TRUE]]
  /\ IF pc = "down" THEN UNCHANGED <<pc, outcome, run, memory>>
                    ELSE Stop("crash") /\ run' = NoRun
  /\ UNCHANGED <<generations, staged, pointer, launches>>

-----------------------------------------------------------------------------
Next ==
  \/ Launch \/ Setup \/ Validate \/ Train \/ Finish
  \/ PrepareModel \/ SealModel \/ CommitModel
  \/ PrepareRecovery \/ SealRecovery \/ CommitRecovery \/ Point \/ Retire
  \/ \E rank \in Ranks : WriteModelShard(rank) \/ WriteRecoveryShard(rank)
  \/ Crash \/ PowerLoss

Spec == Init /\ [][Next]_vars

(* A launched job runs on: every step is its own or a barrier of live ranks. *)
JobStep ==
  \/ Setup \/ Validate \/ Train \/ Finish
  \/ PrepareModel \/ SealModel \/ CommitModel
  \/ PrepareRecovery \/ SealRecovery \/ CommitRecovery \/ Point \/ Retire
  \/ \E rank \in Ranks : WriteModelShard(rank) \/ WriteRecoveryShard(rank)

FairSpec == Spec /\ WF_vars(JobStep)

-----------------------------------------------------------------------------
(* Properties. *)

Points == {"down", "setup", "validate", "train", "stage", "shards", "commit",
           "recover", "recovery shards", "recovery commit", "point", "retire"}
Outcomes == {"none", "running", "refused", "validation", "boundary", "crossing",
             "occupied", "crash", "done"}

(* Names, clocks and contents have the shapes the code writes. *)
TypeOK ==
  /\ pc \in Points /\ outcome \in Outcomes
  /\ run.batch \in BatchSizes \union {1}
  /\ clock.samples_per_epoch = Rows /\ clock.consumed \in Nat /\ clock.updates \in Nat
  /\ DOMAIN models \subseteq Nat /\ DOMAIN generations \subseteq Nat \ {Final}
  /\ \A n \in DOMAIN models : models[n].shards \subseteq Ranks
  /\ \A n \in DOMAIN generations : generations[n].shards \subseteq Ranks
  /\ pointer \in Nat \union {None}

(* updates is one gapless pass over samples 0 .. end - 1, each seen once. *)
Tiles(updates, end) ==
  /\ updates = <<>> => end = 0
  /\ updates # <<>> => updates[1][1] = 0
  /\ \A i \in DOMAIN updates :
       /\ updates[i][2] >= 1
       /\ updates[i][1] \div Rows = (updates[i][1] + updates[i][2] - 1) \div Rows
       /\ updates[i][1] + updates[i][2] = IF i = Len(updates) THEN end ELSE updates[i + 1][1]

IsSuffixOf(short, long) ==
  /\ Len(short) <= Len(long)
  /\ \A i \in DOMAIN short : short[i] = long[Len(long) - Len(short) + i]

(* The optimizer has seen the latest updates of the weights it steps and no *)
(* others, also after a recovery was loaded (sft_restart.py:116-128).       *)
OptimizerFollowsWeights ==
  pc \notin {"down", "setup"} => IsSuffixOf(adam, model)

(* A committed checkpoint holds every rank's shard and passes the checks a  *)
(* continuation makes, as far as it is readable (sft_restart.py:25-39), and *)
(* latest.json names a whole generation whose model checkpoint is committed *)
(* and comes from the same update, whatever died when (sft_restart.py:65-   *)
(* 112, docs/sft.md:92-95).                                                 *)
CommittedIsWhole ==
  /\ \A n \in DOMAIN models : models[n].readable => Continuable(n)
  /\ pointer # None =>
    /\ pointer \in DOMAIN generations
    /\ LET g == generations[pointer]
       IN  /\ g.shards = Ranks
           /\ g.of \in DOMAIN models
           /\ models[g.of].clock = g.clock
           /\ IsSuffixOf(g.state, models[g.of].state)

IsPrefixOf(short, long) ==
  Len(short) <= Len(long) /\ \A i \in DOMAIN short : short[i] = long[i]

EndsAtQuarter(max) ==
  \E part \in 1 .. CheckpointsPerEpoch :
    (max - CeilDiv(part * Rows, CheckpointsPerEpoch)) % Rows = 0

(* However often a run died and was continued, weights in memory and in     *)
(* every committed checkpoint went through each sample up to their own      *)
(* count exactly once, in order, with no update across an epoch's end.      *)
(* (train_sensenovau1_fsdp2.py:505-514, 595-701.)                           *)
(* At every update boundary each target this launch has passed is covered   *)
(* by a checkpoint of the first update that reached it, holding a prefix of *)
(* these weights (docs/sft.md:80-87; train_sensenovau1_fsdp2.py:742-748);   *)
(* and a batch no larger than a quarter epoch, with a budget that ends at a *)
(* quarter, never has an update rejected (sample_progress.py:49-57).        *)
SamplesExact ==
  /\ pc \notin {"down", "setup"} => Tiles(model, clock.consumed)
  /\ \A n \in DOMAIN models : Tiles(models[n].state, models[n].clock.consumed)
  /\ pc = "train" =>
       \A t \in Targets(Rows, run.max) :
         run.start < t /\ t <= clock.consumed =>
           \E n \in DOMAIN models :
             LET c == models[n].clock
             IN  /\ c.consumed - c.last < t /\ t <= c.consumed
                 /\ IsPrefixOf(models[n].state, model)
  /\ run.batch <= Rows \div CheckpointsPerEpoch /\ EndsAtQuarter(run.max) => outcome # "crossing"

(* A launch that nobody kills comes to its end. *)
LaunchEnds == (pc # "down") ~> (pc = "down")

(* docs/sft.md:122: validation runs before training and at checkpoints. *)
ValidationRuns == outcome # "validation"

(* docs/sft.md:148-151: a continuation from a committed checkpoint resumes  *)
(* at the next optimizer batch.                                             *)
ResumesAtNextBatch == outcome # "boundary"

(* sft_restart.py:1: one rolling recovery generation. *)
OneRollingGeneration ==
  outcome = "done" /\ run.mode.saving => Cardinality(DOMAIN generations) <= 1

(* docs/sft.md:92-94: the generation the pointer names is paired with its   *)
(* model checkpoint, which can be read.                                     *)
PairedCheckpointReadable ==
  pointer # None => models[generations[pointer].of].readable

=============================================================================
