# TLA+ models of the SenseNova-U1.5 Forge

This directory holds TLA+ modules that model the control logic of the repository: its reinforcement
learning path (`src/sensenova_u1/rl`), its supervised path (`training`) with the parts of the training
framework it is built on, and the generation code both share; TLC configurations that check them on
small instances; and TLAPS proofs of the properties that matter most for every size of the system.

## 1. The system

An RL run is a `torchrun` job of FSDP2 ranks (the *trainer*) and a set of serving *replicas*
(LightLLM/LightX2V processes started by `scripts/rl_engine/launch_server.sh`). For each batch the
trainer asks the replicas for rollouts, scores them, replays them on its own shards, takes optimizer
steps, and publishes the new weights to all replicas over NCCL, with an HTTP control plane around it.
SFT is a separate FSDP2 program with its own sample clock, checkpoints and recovery generations. Both
sit on a training framework with data, tensor, weight, expert and sequence parallelism. Floating-point
values are not modelled; which values are combined, by whom and for which token, is.

### Inventory

| Component | State | Operations | Interacts with | What is hard | What makes it correct |
|---|---|---|---|---|---|
| Live policy publication: `weight_publisher.py` | process groups, closures; per replica (external): active and pending version, paused, tensors, groups | `statuses`, `prepare`, transfer, `commit`, re-pause, `close`; buckets and shards | replicas over HTTP and NCCL; every rank through broadcasts | partial failure, requests that time out and are served later, crashes between two stages, relaunches; uneven shards | replicas that serve together serve the same whole weights; publications end; a bucket delivers exactly the tensors |
| RL training loop: `trainer.py` (`run_training_loop`, `_run_plan`, `main`) | batch counter, scratch directory, expected policy name, run-directory lock | admission, initial publication, batch, publication, artifact cleanup, checkpoint, teardown, final state | all ranks by collectives; reward provider process; replicas | ranks failing together or alone, cleanup in `finally` blocks, watchdog, torchrun abort | ranks stay in step; artifacts outlive their readers; the run ends |
| RL checkpoints: `save_checkpoint`, `latest_checkpoint`, `full_parameter.save_dcp` | `.checkpoint-*.tmp`, `checkpoint-*`, `COMMIT` | prepare, shards, seal, rename, discovery | run directory | death at any point, a later start | a committed checkpoint is whole and was served |
| On-policy batch: `execute_on_policy_batch` | rollout and reward threads, budget ledger, trace tables, anchors | request, broadcast, transfer traces, score, anchor, replay, update | rollout clients; all ranks | threads against collectives, traces needed twice, budgets replaced while used, failures of one rank | traces reach their ranks and none is left; budgets agree; all ranks end alike |
| Replay schedule: `_build_fsdp_replay_schedule` | buckets, cursor, waves | group, place, pad, check | ranks replay wave by wave | signature mixes, remainders | every rollout trained on once, ranks balanced, waves aligned |
| Rollout client: `api_rollout.py` | expected version, pending traces | rollout request, trace stream, materialisation, release | replicas; ranks by broadcast | stale policy, traces left behind | rollouts of a batch come from the trainer's policy; traces are consumed or released |
| Policy runtime: `policy_runtime.py`, `rollout.py` | session cache, events, gathered root, anchored likelihoods | sample text and images, anchor, reference, text and image replay | trainer; model; FSDP shards | rollout and replay build one context in different ways | replays see what the rollout saw, under the right parameters, inside the context |
| Policy objective: `flow.py`, `objective.py`, `advantage.py`, `rollout.py`, `_replay_backward` | - | action windows, step grids, two branches, slices, advantages | policy runtime; ranks | three nested loops over slices, spans and ranks, each with padding and a normaliser | an update differentiates the mean of its rollouts' own objectives; advantages compare a rollout with its group |
| Generation: `modeling_neo_chat.py`, `decode_cache.py` | branch caches, prepared buffers, decode workspace | interleaved, given-text, editing and text-to-image generation | model; cli | branches that are built only when needed, a workspace that survives calls | every cache holds what one prefill of its tokens would; branches are current and aligned |
| Serving launch: `launch_server.sh`, `preflight.py` | replica processes | launch, stop all when one stops | replicas | one replica dies alone | the replicas of one launcher restart together |
| Plan, budget, prompts: `plan.py`, `budget.py` | immutable plan; counters | validation, recording | trainer | - | - |
| SFT loop and sample clock: `train_sensenovau1_fsdp2.py`, `sample_progress.py`, `sample_batch.py` | consumed samples, updates, cursor | advance, checkpoint, restart | data loader workers and ranks | epoch and budget boundaries, restart position | every sample once and in order; checkpoints at their boundaries |
| SFT recovery, export, validation: `sft_restart.py`, `export_sft_checkpoint.py`, `sft_validation.py` | generations, `latest.json`, staging | save, retire, load, export, validate | file system | crash between rename, pointer and retirement; power loss | the pointer names a whole pair |
| HF publication: `publish_hf.py` | expert files, layers, slices | discover, slice, merge, write | SFT checkpoints | layers cut into slices, layouts of expert files | of the namings it recognises, no layer or expert is lost or mixed |
| Packing: `dataset_interleaved_iterable.py` | buffers, weights, counts of consumed rows | draw, merge, evict, yield, end of epoch | data loader | many orders of merges and evictions | packs fit; a finite epoch yields every row it reads, once |
| Tokenized data and samplers: `data/tokenized`, `batch_sampler.py`, `build_dataloader.py` | consumed indices, ramp, generator state | cut, pad, collate; batches, save and restore, weighted draws | data loader | remainders, ramp across passes, restore | rows mix no samples and drop, repeat or reorder them in known places only; ranks read disjoint batches; a sampler restored in its first pass goes on |
| Training samples and forward: `multimodal_dataset.py`, `modeling_sensenovavl_chat_mot.py`, `modeling_qwen3_moe_mot.py`, `mha.py`, `embedding.py`, the vision embeddings and image sizes, and their serving counterparts in `neo_unify` | - | drop conditions, repeat images, label, pack, mask, rotate, attend, resize, embed | packing; ranks | two implementations that must agree; a row of many samples with repeated images under one mask | every token stands, sees and is weighed in training as when it is served |
| Parallel layers: `linear.py`, `embedding.py`, `mlp.py`, `comm/tensor.py`, `comm/isp.py`, `cross_entropy.py` | sharded weights | forward and backward in three tensor modes, loss, grouped experts, pipeline partition | process groups | a gradient reduced twice or not at all | ranks compute what one rank does |
| Weight import: `sensenovavl/utils/checkpoint.py` | - | load, random and copied branches, upcycling, reload | HF publication; ranks | rules per tensor, source, mode and size | every rank holds its part of the published weights, or refuses |
| Process groups, sequence shards, ring attention: `core/context`, `core/parallel`, `ops/ring_flash_attn` | group lists; buffers and requests of a ring | build groups, cut and exchange sequences, pass keys and gradients on | all ranks | strides, asynchronous transfers | groups are a coordinate system; every causal block once; gradients come home |
| Weight-parallel overlap: `comm/isp.py`, `comm/zero.py` | gathered weights, collectives and broadcasts in flight | prefetch, release, drain; queued broadcasts | module hooks; optimizer | prefetch against broadcasts and recomputation | no weight gathered twice or stale; broadcasts in one order |
| Expert gates and dispatch: `moe`, `vit_moe/gshard_layer.py` | permutations, splits, slots | choose, drop, route, exchange, apply, return | expert ranks | inverses with uneven splits, capacity | a gate drops a choice only when its expert is full; tokens return from the experts that kept them |
| Rest of the framework: configuration, logging, metrics, storage clients, schedulers, kernels | - | - | - | numerics, I/O | - |

`serving/third_party` are empty submodules: the replicas are external and are modelled from how the
publisher, the trainer, `examples/serving/rl_smoke.py` and the tests use their endpoints.

## 2. Modules

| Module | Kind | Models |
|---|---|---|
| `ReplaySchedule`, `BatchingProofs` | component, proofs | `trainer.py:525-592`, one action per loop iteration |
| `ServingSet` | abstract specification | what "atomic policy updates" promises: withdraw, expose, relaunch |
| `WeightPublication`, `WeightPublicationProofs` | component, proofs | the publisher, the replicas, the network and the operator |
| `BucketTransfer` | functions | what one update carries: shards, padding, buckets, views (`weight_publisher.py`) |
| `TrainingRun`, `TrainingRunProofs` | component, proofs | all ranks of an RL run, their collectives, files, faults and restarts |
| `RlBatch`, `RlBatchProofs` | component, proofs | one `execute_on_policy_batch` on all ranks with its threads and traces |
| `KvCache` | functions | what a key/value cache holds: token, rotary position and mask of every entry |
| `PolicySession`, `GenerationProofs` | component, proofs | one rollout and the four passes that replay it |
| `InterleavedGeneration`, `GenerationProofs` | component, proofs | the generation entry points, their branches and the decode workspace |
| `SampleClock`, `SftRun`, `SftRunProofs` | functions, component, proofs | SFT launches with their clock, checkpoints, recovery and validation |
| `PackedStream`, `BatchingProofs` | component, proofs | one data loader worker that packs rows |
| `ProcessGroups`, `SequenceShards`, `ParallelLayers` | functions | group construction; sequence cuts and their all-to-all; the layers, the loss and their gradients in every tensor mode |
| `ExpertGating`, `ExpertDispatch` | functions | which choices of experts get a slot; how tokens reach their experts and return |
| `HfConversion`, `HfImport` | functions | publication of a checkpoint; its import into the ranks of a run |
| `PolicyObjective` | functions | what one update of the policy differentiates, and its advantages |
| `TokenPacks`, `BatchSampler` | functions | rows of tokenized samples; who reads which samples |
| `TrainingSample`, `TrainingForward`, `AttentionLayers` | functions | a line to tokens and labels; one forward of a row; one layer, trained and served (each extends the one before; the first extends `KvCache`) |
| `VisionPatches` | functions | sizes of images, places and embeddings of their patches |
| `RingAttention`, `RingAttentionProofs` | component, proofs | ranks that pass keys and gradients around rings (extends `ProcessGroups`) |
| `WeightOverlap`, `WeightOverlapProofs` | component, proofs | gathered weights and parameter broadcasts |
| `MC*` | TLC instances | bounded inputs; `MCLayouts` holds one state per input of the function modules and `MCGeneration` runs `PolicySession` or `InterleavedGeneration`, the other idle |

### ReplaySchedule

A rollout is its `advantage_index`; a signature is a model value. `Collect` is the grouping loop
(538-552), `PlaceWave` one full wave (557-564), `PlaceRemainder` the padded wave and the step to the
next bucket (565-581), `Check` the three raises (583-591). `bucketOrder` is the insertion order of the
`dict`. A slot is real when `loss_weight` is 1.0.

### WeightPublication

`stage` says what rank 0 is doing; each stage sends one request to every replica and waits for all
(`SendAll`, `Answered`), as every method of the publisher does with its thread pool:

| stage | request | code |
|---|---|---|
| `status` | `GET /v1/rl/status` | `trainer.py:1557-1579` |
| `prepare` | `init_weights_update_group` the first time, `pause_generation` later | `weight_publisher.py:352-361` |
| `transfer` | `update_weights_from_distributed` while the shards are sent | `811-866` |
| `commit` | `commit_weights_update` | `390-408` |
| `verify` | the statuses `commit` reads | `409-415` |
| `repause` | `pause_generation` after a failure | `420-423`, `852-855` |
| `rollout` | one batch's rollouts under the expected version | `api_rollout.py:337-366` |
| `close` | `destroy_weights_update_group` | `455-477` |

A request is answered, refused (`Refuse`: error, refused connection, malformed answer) or timed out
(`Timeout`). A timed-out or abandoned (`Crash`) control request goes to `late` and may be served at any
later time, once, in any order (`ServeLate`), until the set is relaunched. Weights are the pair of run
and policy number, because `policy_version_for_step` gives two runs of a plan the same names for
different weights; `active` and `pending` hold names only. A bucket makes the tensors `Torn` until the
last one. NCCL groups carry the number of the run that made them: an update reaches a replica only
through a group both are in. `ServingSetView` maps a replica to what it serves, or `None` when paused.

Assumed of the replicas (they are external): initialisation pauses generation before its rendezvous;
a replica commits only the version it holds as pending, then resumes; it answers 409 to a rollout of
another version, and while paused. Initialisation's pause is inferred: `rl_smoke.py` and `prepare`
send no pause before the first transfer. If it did not hold, the first publication would not be
silent.

`Relaunch` is `launch_server.sh` of one node, which stops every replica it started when one stops (161-184) and
starts all again. With serving over several nodes (`docs/serving.md:31-33`) each has its own launcher, and only the
replicas of one node come back with the base weights: that set is mixed until the next publication. The modules
and their theorems are about the replicas of one launcher; `RelaunchAlone` shows that they do not hold of more.

### TrainingRun

Each rank has a program point. Points in `Collectives` wait for all ranks (`AllAt`); a completed
collective gives every rank its continuation in `next`, and each leaves on its own (`Leave`). Points in
`Local` are rank 0's file operations and the shard writes; `FileError` is an `OSError` of one of the former, on rank 0
alone, while the other ranks wait for it. `AllRaise`/`AllUnwind` are exceptions that
rank 0's envelope raises everywhere (outside and inside the `try` of the loop); `Raise`/`Unwind` are
exceptions of one rank. `cause` and `reported` follow the exception through the `finally` blocks.
`Die`, `NcclTimeout`, `Abort` are process death, the watchdog and torchrun; `Restart` is the next
start of the same run directory, which finds the files as they were left. A batch's collectives are
the point `work` and a publication the point `publish`; step numbers count batches.

### RlBatch

Each rank's program is a point `at`; a collective is over when every rank has called it. Rank 0's
rollout threads and its reward thread are actors of their own (`Threads`). A trace is in a client's
table, on the wire to a rank, or received. The schedule is any that the theorems about
`ReplaySchedule` allow (`BatchAssumption`), which is how the two compose. `ledger` and `payload` are the
budget and the copy of it the reward thread read. The transfers are the loops of the code: waves, and in a
wave the slots, one `turn` at a time (`Mine` is the slot a rank receives in, `NextSlot` and `NextWave` the two
loop heads). A rank that fails `alone` leaves its peers waiting; what follows is `TrainingRun`.

### KvCache, PolicySession, InterleavedGeneration

An entry of a cache is a token with its three rotary coordinates and the last entry it attends to. Two
caches with equal entries hold equal keys, so comparing a cache with `Prefill` of its own tokens compares
the context a forward pass sees with the reference. `PolicySession` follows a rollout
(`phase = "loop"`, `"span"`, `"image"`) and then the passes of `_replay_backward` in their order
(`"anchor"`, `"reference"`, `"text"`, `"image"`), each of which grows `again` from the recorded events.
`shards` and `full` say whose parameters FSDP holds and which the gathered root has. The anchor's pass
concatenates the likelihoods of all events (`replayed`), and `CutText`, `CutImage` and `EndAnchor` cut them back
into events by the two running `offsets` of `anchor_rollout_with_metrics`. The likelihood of action k of event e
is the pair of both, so a cut that is off by one shows.
`InterleavedGeneration` keeps one cache per guidance branch (`cond`, `tu`, `iu`) and the buffer that
denoising prepares from it (`flash`); `workspace` is the decode workspace with its lengths on the host and
on the device, which outlives a call.

### SampleClock, SftRun

A sample is its position in the run; weights and optimizer are the sequences of updates they went
through, so a continuation that repeats or skips samples shows. Shard writes, the seal, renames, the
pointer and the retirement of a generation are steps between which processes die or the machine loses
power; what was not synced may then be lost. `Modes` says what a launch saves and whether it validates.

### PackedStream

A row has tokens and images only. `Choose` draws from any dataset whose weight is positive and merges the row
into the buffer `FindBuffer` finds (`Merge`, `Insert`); `PassOn` hands a row of an already packed dataset
straight over; `Exhaust` takes the weight of a dataset that has none left. `YieldFull`, `YieldBuffer` and `Drain`
hand packs over. The rows read, held and delivered are compared row by row. What a worker holds of a dataset and
what its weight estimates it to hold are independent: the cap on the workers of a small dataset (309-322) is not in
the estimate (1474), nor is a fraction of `repeat_time`.

### WeightOverlap

A process is at a hook of a module in the forward, recomputation or backward of a block; `held` and `ops`
are its gathered weights and the collectives it issued, which are done once every process has issued
them. Broadcasts of updated parameters are queued per owner and pumped as `ParamAsyncBcastHandler` does. The
closures of all updates are numbered in the order `_get_next_closure` finds them (update, owner, closure), and
`Owner` recovers the owner: `left` is a set of numbers and `issued` a sequence, so processes that issue
different closures at the same place differ.
A gathered weight is `fresh` if the broadcast of its block had arrived when it was gathered. Granularity,
execution order, recomputed blocks and owners are a configuration.

### RingAttention, SequenceShards, ProcessGroups

A group is the function from local to global rank. `SequenceShards` deals out slices and moves them
through the all-to-all; `RingAttention` starts from where they end. Sends and receives read and write
their buffers at any moment between commit and wait. A rank stands before a call of step `s` of window `j`
(`Place`); every call of `RingComm.commit` and `wait` in the two passes is an action, `Compute` the work between.

### Function modules

`BucketTransfer` names every element by tensor, row and column and follows it through chunk, pad, gather,
view and transpose. `HfConversion` writes expert files in each layout, slices layers over processes and
reads them back; `HfImport` goes the way back, into the shards of each rank, for every source of weights
the loaders know. `ExpertDispatch` follows tokens through permutation, exchange and return, in the
all-to-all, the all-gather and the capacity form, and compares the experts a served layer applies;
`ExpertGating` decides which choices get there.

`ParallelLayers` runs a small network (embedding, column and row layers, gated block, head, loss) forward
and backward on integer matrices, once on one rank and once on several: since layers are polynomials, a
gradient that is lost or counted twice shows as another matrix.

`PolicyObjective` computes with terms that name what a value was computed from (densities, ratios and
velocities are never evaluated), and with exact fractions where means are taken. `TokenPacks` and
`BatchSampler` name every token by its sample and position and every shuffle by the state that drew it.

`TrainingSample` turns a line into tokens, labels and repeated images; `TrainingForward` packs samples into
a row, moves the tokens to be denoised to the front, and gives each its position, the tokens its block mask
lets it see, its branch and its loss; the reference is `KvCache`, the context a server has when it produces
that token. `AttentionLayers` follows one layer of both implementations element by element: norms, the halves
of a head turned in time and in the plane, shared key heads and their all-to-all. `VisionPatches` has the real
bounds of `smart_resize`.

`MCLayouts` enumerates inputs, one state each; its five initial states wait for the inputs of one part of
the code each.
## 3. Runs

| Run | Shows | Bounds and why they are enough |
|---|---|---|
| `batching` | the schedule never raises, is balanced at every wave, replays nothing twice; packs exact, streams flow | 3 ranks, 2 rollouts each, 3 signatures: all 729 assignments, so full waves, remainders of 1 and 2, empty buckets and a cursor that wraps. Or a stream of 2 datasets of up to 3 rows, estimates below, at and above the shards, rows packed or not, 2 buffers, 2 iterations; the two machines share no state and one of them idles |
| `publication` | no mixed, torn or misnamed serving; batches on policy; refinement of `ServingSet`; a publication ends | 2 replicas, 2 runs, initial publication and one trained one, 1 relaunch; every request may fail, time out and be served late. Two replicas are the least for a mix; two runs let one trainer meet what another left, with reused names |
| `publication_recovery` | finding 1 | 2 runs, no relaunch |
| `training_run` | committed checkpoints whole and served, artifacts, final state, lockstep; every start ends | 3 ranks, 3 batches saved after the 2nd and the last, 2 starts: a batch without a save, one with, and the final one |
| `unilateral_cleanup` | finding 2 | 2 ranks, 1 batch |
| `rl_batch` | traces where they are replayed, budgets agree, the batch ends | 3 ranks, 2 rollouts each, 2 clients, 2 updates, batches with and without padding and with different images: a trace is needed by its owner and by a padding slot of another rank |
| `sft_run` | samples exact; optimizer follows weights (the pointer names a pair); checkpoints whole and at their targets; launches end | 2 ranks, 9 rows an epoch, batches of 2 and 3, budgets inside the first and second epoch, 2 launches, 1 power loss: short last batches, targets that coincide with ends, changed budgets at a continuation |
| `layouts` | the function modules (16,838 inputs): groups partition, shards meet, tokens return, layers agree, objective exact, batches exact but for the cases their property names, trained as served, transfers and conversion faithful | worlds of up to 8 ranks, of 16 for windows (see `MCLayouts`): each mode alone and nested, sizes that do not divide. Rows of up to 50 tokens in blocks of 4 and two images for layers; conversations of one and two rounds with every task and every dropped condition. Image sides between 1 and 9400 under both builds' real bounds |
| `u_only_publication` | finding 3 | the checkpoints of `layouts`: up to 4 layers, the first 2 without experts, with and without a generation branch |
| `weight_overlap` | gathered once, in time and fresh; broadcasts match; updates end | 2 processes, 4 blocks of 2 modules, 3 owners, queue of 1, 2 updates: a prefetch crosses blocks, an owner's broadcasts cross updates |
| `ring_attention` | causal blocks once, gradients home, rings complete | 5 shapes of 2 to 4 ranks: one ring, rings of one, two windows of two |
| `generation` | caches are prefills, replay matches rollout, context bound, branches aligned | images of 1x2 patches, 2 images, 12 tokens, 3 denoising actions sliced by 2; or 2 calls of 2 new tokens, 2 pictures, 2 denoisings, 5 pairs of guidance scales |

Bounds named in the modules: `LastPolicy`, `MaxRuns`, `MaxRelaunches` (WeightPublication), `Batches`,
`SaveEvery`, `MaxRuns` (TrainingRun), `W`, `G`, `Signatures` (ReplaySchedule), `Updates` (RlBatch,
WeightOverlap), `MaxLaunches`, `MaxPowerLosses` (SftRun), `Epochs` (PackedStream), `MaxLength`, `MaxImages`,
`Calls` (generation). Deadlock is checked in `ring_attention`; elsewhere the function returns, the run
ends, or the bound on runs is reached and the system has stopped.

Each property has a mutant beside the definition it changes (marked `Mutant` in the modules): a dropped
barrier, an ignored failure, an unwrapped cursor, a missing name comparison, and the like. The
definition replaced by its mutant breaks the property.

### Fairness

* `WeightPublication!FairSpec`: every request ends (`_request` gives each a timeout, so `Timeout` is
  weakly fair) and rank 0 takes its next step when all have (`TrainerStep`). Nothing is assumed of the
  replicas. A GPU transfer that never returns is not covered: `transfer.result()` (845) has no timeout of
  its own and is ended by the watchdog, as in `TrainingRun`.
* `TrainingRun!FairSpec`: ranks run on by themselves, a waiting rank is ended by the NCCL watchdog, and
  the others by torchrun. No collective is assumed to complete, since rank 0 may wait in a producer
  (rollouts, rewards, `process.wait()` of the reward provider) for ever. A completed barrier that is
  ended by the watchdog is only another early death.
* `RlBatch!FairSpec`: threads, rank 0 and each peer go on when they can; a batch with a rank that failed
  alone is excluded from `BatchEnds`, since only the watchdog ends it.
* `SftRun!FairSpec`, `WeightOverlap!FairSpec`, `RingAttention!FairSpec`, `PackedStream!FairSpec`: the
  program takes its next step while it has one. No thread is scheduled against another here, so weak
  fairness of the whole next-state relation (of each launch step in `SftRun`) is what running means.
* `PolicySession` and `InterleavedGeneration` state no liveness and no fairness.

### Findings

1. `publication_recovery`. A commit that reaches only some replicas is followed by a re-pause; its
   comment says the next recovery publishes a fresh version to the complete set
   (`weight_publisher.py:417-419`). The next trainer refuses that set (`trainer.py:1576-1579`), because
   admission requires replicas that are not paused; only a relaunch of the serving set helps.
2. `unilateral_cleanup`. The comment at `trainer.py:1665-1668` rules out cleanup collectives on a rank
   that failed alone; the loop's outer `finally` (1687-1695) enters three of them.
3. `u_only_publication`. `publish_hf.py` guesses the naming of expert files from one of them (298-308). In a U-only
   checkpoint with interleaved names and an even number of layers with experts that file exists and is another
   layer's, so the naming becomes `offset`: layers whose file is not found are skipped, and a layer's experts are
   overwritten by another's. Its comments promise that "U-only processing still works" (305-307) and that a branch
   is skipped only if it has no files (431).

The modules also hold these definitions, each violated by what the code does; no run is spent on them:

* `TrainingRun!CauseIsReported`: `scratch.rmdir()` (`trainer.py:1694`) raises over the batch's error,
  against the comment at 1665-1668.
* `SftRun!ValidationRuns`: the validation loader keeps the training run's `start_samples`
  (`sft_validation.py:87-91`, `build_dataloader.py:176`), so in a continuation past the held-out set it is
  empty and validation stops the run (`docs/sft.md:121-122`).
* `SftRun!ResumesAtNextBatch`: a changed batch size resumes inside a batch (`sample_batch.py:32-33`,
  `docs/sft.md:148-151`); `OneRollingGeneration`: a crash before retirement leaves two generations
  (`sft_restart.py:94-110`, `docs/sft.md:92-95`); `PairedCheckpointReadable`: the model checkpoint is not
  synced before the pointer that depends on it (`train_sensenovau1_fsdp2.py:346-349`).

### Observations

What modelling showed about code whose documents promise nothing else:

* RL sampling of a text-only tail masks `<img>` (`rollout.py`, policy 1181-1206) and replay does not
  (`replay_text` 598-608): the replayed likelihood of such a tail is not the sampled one. The anchor stores
  the replayed one, so ratios start at one. `image_replay_microbatch_size` greater than
  `sde_window_steps` passes the plan and raises in the anchor, after the rollouts. `image_size` is passed as
  (height, width) and read as (width, height) by `_t2i_predict_v`; square images hide it.
* The decode workspace of interleaved generation has room for the images but not for their `<img>`
  tokens (`modeling_neo_chat.py` 1104-1108, 1197-1215), so decoding can exhaust it; `InterleavedGeneration`
  reaches that exception. With CUDA graphs and another backend than flash, lengths on the device are
  updated at capture only.
* `attn.interleaved` is forced off on another object than the one the windows read
  (`process_group_initializer.py:355-361` against 395): with an odd number of interleaved windows, a single window of
  the whole context included, building the groups raises `IndexError` (402). `AttnFits` leaves those inputs out.
* A context group of 4 with interleaved windows of 2 visits chunks in an order that breaks `RingExact`
  (`process_group_initializer.py:389-413` against `shard.py:87-91`). Odd head sizes above one lose slices in
  `SequenceShards`, and `launch.py:685-702` does not refuse them.
* Module granularity of the weight overlap prefetches across a block boundary without waiting for the
  broadcast (`isp.py:662-668` against 574-579), and with the execution order of the MoT attention trips the
  duplicate-gather assertion (438). Broadcast order agrees between processes only because owners are
  allotted in execution order.
* `PackedDataset`: with `allow_overflow` (the default) an overflowing merge raises `NotImplementedError` (1188). The
  estimate of a worker's share (1474) ignores the cap on workers (309-322) and rounds; when it is below the shard, a
  finite epoch leaves the further rows out. `sample_info` and zero weights outlive an epoch, so a later epoch of the
  same process may drop any row. `tests/test_sft_finite_epoch.py:1` says that the tail is flushed once, "including
  uneven rank workloads"; its epochs stay below the 100 draws after which weights are adjusted again. `EpochExact` states
  exactly what is delivered. Workers beyond the cap get no rows (371).
* `publish_hf.py:300` also takes the `offset` naming for `interleaved` when layer `2k + 1` exists under it, and for a
  model without a generation branch; `Recognised` is the exact set of checkpoints that publish faithfully.
* GShard's `TopKGate` passes its arguments to `top1gating` shifted by one (`gshard_layer.py` 490-505), and
  `top2gating` ignores `valid_index`; the fused gate of the vision tower masks unused tokens only with a noise
  policy; rearranged tokens (369-385) need `topk` to keep ties in order, which torch does not promise (the model
  has the stable case); `MoE.forward` passes two inputs where `GShardMoELayer.forward` reads three. In the
  dropless layer deterministic mode with capacity counts dropped tokens' maximal indices
  (`dropless_layer_qwen.py` 401, 424).
* `expandKVPacked` (`isp.py:1095`) is used and not defined. `zero1.fsdp` passes the context's checks
  (`parallel_context.py:701-703`), but no size is set for `ZERO3_DP` (682-696), so building the groups raises
  `KeyError` (`process_group_initializer.py:296-298`, 334-335); `GroupsPartition` says when.
* Layers: `MHA` and `GQA` raise in their constructors, and `_inference` of `SWA` and `SWA_MoT` uses undefined
  names. With fewer key heads than sequence ranks `tensor_split` makes empty chunks. Training takes
  `first_k_dense_replace` and `layer % moe_layer_freq`, serving `(layer + 1) % decoder_sparse_step` and sparse
  generation branches always; they agree with the defaults only. `rope_theta_hw` is configurable in serving and
  10000 in training. Serving refuses calls that mix both branches.
* Image sizes: the bound on total pixels in the docstring of `smart_resize` (`dataset.py:756-764`) holds for the
  default bounds; with `max_pixels` below 200 cells a side never falls under one cell. An accepted image of
  47x9400 becomes 32x9408, whose ratio a second resize refuses (`utils.py:59-62`, `dataset.py:765-768`):
  `SizeExact` says that resizing twice changes nothing, or raises where the ratio has grown past the bound. The defaults of the two copies differ.
* Samples: an image that fails to load is replaced by the previous one of its line (`multimodal_dataset.py`
  near 741); images no turn mentions leave an `i2t` sample silently without them; a document that ends in token
  0 is taken for padding and cut into pieces (`modeling_sensenovavl_chat_mot.py:1105-1111`); image loss flags
  are collected and never used; the packed length must divide by the sequence ranks although
  `get_split_size` allows a remainder.
* Samplers: `StaticBatchSampler.load_state_dict` regenerates indices from batch 0 (`batch_sampler.py:269-276`),
  so a ramp restored in a later pass gives another sequence than the saved one, against the comment at 264 (in
  `StaticExact` one is a prefix of the other); the weighted form yields before counting;
  `LengthGroupedSampler` never resets `num_consumed`, so later passes are empty; rows of `build_unpack` overlap
  (`packed_dataset.py:455-457`) against its docstring (459-475); `PackedDatasetWithPad` drops its last row
  (590-591 against the docstring 530-538), as the cut rows drop their tail (364-368 against 281-284);
  `PaddedExact`, `RowsExact` and `UnpackedItem` state what the code does;
  `build_valid_loader` skips an empty set on the logging rank only (`build_dataloader.py` near 197).
* Layers in parallel: with zero tokens the grouped layer skips its weight gather and not its gradient hook
  (`linear.py:446-458`); label smoothing of the parallel loss sums over one part of the vocabulary
  (`cross_entropy.py:217-236`), and the sequence-parallel loss mishandles ignored targets in backward (95-97);
  the fused gated block under weight parallelism is another function than the unfused one.
* Import: outside `isp` the rules chunk some column layers by columns; a pipeline's first stage does not load
  the embedding it ties; copied branches leave `norm_mot_gen` unset; random, copied and dense sources always
  read a dense feed-forward; online upcycling cuts experts before it concatenates, the HF loader after; the
  loader's `_resize_vocab_size` looks for keys its dictionaries do not have.
## 4. Proofs

`tlapm` checks the eight `*Proofs` modules. All constants are arbitrary within the assumptions their modules
name; TLC evaluates every assumption on the runs' instances. Each component's theorem rests on one inductive
invariant (`IInv`, or `ScheduleInv` of the schedule), which TLC checked before it was proved, and on one lemma per
action of the next-state relation (or one per program point, where several actions move a rank alike).

| Module | Assumptions on the constants | Theorems about the runs' properties |
|---|---|---|
| `BatchingProofs`, schedule | `SizesAssumption`: at least two ranks and one rollout each | `NeverRaises`, `NoDoubleReplay`, `RunningBalance` |
| `BatchingProofs`, stream | `PackedAssumption`: positive budgets, rows within them, positive estimates | `PacksExact` |
| `WeightPublicationProofs` | `ConstantsAssumption`: a replica, two publications; `None`, `Torn` are neither versions nor weights | `NoMixedServing`, `OnPolicy`, `ImplementsServingSet` |
| `TrainingRunProofs` | `RunAssumption`: rank 0 is a rank, at least one batch, a positive interval between saves | `CommittedIsWhole`, `CheckpointWasServed`, `ArtifactsInUse`, `FinalStateCloses`, `Lockstep` |
| `SftRunProofs` | `ConstantsAssumption`: finitely many ranks, an epoch with a row per checkpoint, positive batch sizes and budgets | `CommittedIsWhole`, `OptimizerFollowsWeights`, `SamplesExact` |
| `RlBatchProofs` | `BatchAssumption`: what the theorems of `ReplaySchedule` say of a schedule | `TracesWhereReplayed`, `BudgetsAgree` |
| `GenerationProofs` | `GridAssumption`, `SessionAssumption`: images of at least one patch, positive bounds, prompts that are not empty; `PromptAssumption`: a prompt holds whole images and does not end with `<img>`; `GenerationAssumption`: bounds are natural numbers, an image takes a denoising step | `StaysInContext`, `ReplayMatchesRollout`, `CachesArePrefills`, `BranchesAligned` |
| `WeightOverlapProofs` | `OverlapAssumption`, `OrderAssumption`, `OwnersAssumption` (below) | `GatheredInTime`, `BroadcastsMatch` |
| `RingAttentionProofs` | `ShapesAssumption`: positive sizes, a window that divides the context | `RingExact`, of windows that are not interleaved |

**ReplaySchedule.** The inductive invariant relates the three loops: the buckets partition the rollouts
collected so far in index order; the waves placed so far contain, as real slots, exactly the rollouts of the
finished buckets and the first `offset` of the current one, each once; the number of real slots is `W` times a
base plus the cursor, and each rank has the base or one more. At the end the W*G rollouts force the cursor to be
0 and the base to be G, which is what `Check` tests.

**WeightPublication.** `NoMixedServing` is not inductive: a paused replica with a pending version would resume
at a commit, however late. The proofs call a replica *live* when it serves or could resume so. `IInv` says that

* live replicas hold whole weights under their own name (`Whole`) and agree (`Agreement`);
* a stage that follows `prepare` found every replica silent: during a transfer the live replicas hold
  this publication's weights (`Transferring`), and until the next one only those or a relaunched base
  (`Exposing`); a relaunch in between takes the replica out of this run's groups, so no bucket reaches it;
* an abandoned update that a replica could still receive keeps that replica from being live, and so the
  next trainer from being admitted, and all live replicas hold that update's weights (`Outstanding`);
* the counters and status reads say what admission relies on (`Counters`, `Stable`, `Preparing`).

A late request is one of five cases (`LatePause` ... `LateLeave`). The refinement of `ServingSet` follows from
the invariant: a pause is a withdrawal, a commit an exposure of weights all serving replicas have, tensors
change only on silent replicas, a relaunch is a relaunch.

**TrainingRun.** None of the five properties is inductive, since each speaks of the end of a protocol. `IInv`
describes every point of it: all ranks are in one batch, and any two are *abreast*, at the same collective or one
of them between it and the next, unless one of them has thrown (`Control`); what of the current checkpoint
exists at each point of a save, file by file (`Saves`); how far serving is ahead of the batch at each point of a
publication (`Publishes`); and whose scratch directory there is (`Scratches`). A rank that fails may stop
anywhere; the files it leaves are those of the point it reached, which is why a later start finds them whole or
uncommitted (`Deserts` names the points where others wait for a rank that has thrown: in a batch, in the publication, before the
seal, and, if it was rank 0 in a file operation, at the barrier behind that operation).

**SftRun.** The sample clock multiplies and divides batches, epochs and targets, so the lemmas about it (what a
global batch takes, where an epoch cuts it short, which update a target falls on) come first. `IInv` says what the
job in memory has consumed and which checkpoints cover its targets (`InMemory`), what a directory on disk can be
(`Committed`, `Recoverable`), and what is in place at every step of a save (`InSave`). Every update starts at a
batch boundary and only a budget cuts one short (`Regular`); histories of one batch size therefore start their
updates at the same samples (`SameStarts`), and two that end at the same sample are equal. That is why a recovery
generation whose counters agree with a checkpoint's is the optimizer of those very weights. `NoCrossing`: batches
of at most a quarter epoch never pass two targets, so a budget that ends at a quarter is never refused.

**RlBatch.** `IInv` says which ranks can be where and what the broadcast outcomes of rollouts and rewards were
(`Control`), which rollout groups are done and which traces their clients hold (`Groups`), what every rank has
received and what its wire carries, and in which order (`Transfers`), and what the ledger and its copy hold while
the reward thread works (`Budgets`). Traces leave in the order of their places (wave, then image); the wire of a rank holds
exactly those between the place it awaits and the place rank 0 sends next, so at the end of the loops both stand
behind the last one. `RlOutcomesAgree`: a batch that ends well on one rank failed on none, unless a rank failed by
itself; it is the safety half of `BatchEnds`.

**PackedStream.** `IInv` bounds every buffer by the budgets (`Budget`) and, in the epochs of a finite stream that did
not fail (`Followed`), accounts for each row (`Account`): a row is not read yet, or in exactly one buffer, or delivered
once (`Placed`). A dataset without weight is `Spent`: its shard is read or its estimate consumed, and in the first
epoch the count is what was read, up to the estimate (`Counted`), so the end of that epoch has delivered every row
within the estimate. `Aged` says that packed rows, which look at no buffer, only age
them. Nothing is assumed
about how shards and estimates relate.

**PolicySession.** `IInv` reads the cache as a tape: the prompt, then one event after another, each with the
entries it appended, the cache ending where the last event or the span under way ends (`Recorded`, `Ended`). A pass
holds the tape up to the event it comes to (`Follows`): forced text, appended images and sampled tokens make the
same entries. `Fits` carries the room a span keeps for the image that may follow it; the reserve is one token more
than an image takes, and that token is why the last event is text. `Parameters` says whose parameters the root can
hold; `Backward`, that losses wait inside an image only, because the trainer's count of slices and the policy's loop
over actions meet at the end of each image (`SlicesCover`). `Cut` says that the anchor's concatenation holds the
actions of the events so far at the places the offsets point to.

**Caches and branches.** A cache is *exact* (`Exact`) when it is the prefill of its own tokens, its patches make
whole images and the index the code keeps beside it is that of the last entry. A prefill counts, for every
position, the tokens before it that are not patches and adds the `<img>` tokens before it; appending to an exact
cache leaves the earlier counts alone, and the new entries get the index the code gives them, on one condition:
what follows `<img>` is an image, since its patches take the next index and the text behind them skips one.
`KInv` carries that condition through a rollout and its passes: texts and images alternate (`Alternates`), a span
under way ends with the token it sampled last (`Sampled`), and a pass stands behind the token that ended the
event before (`Replayed`). With `IInv` it gives `SessionCacheIsPrefill`. For the entry points `GInv` says of every
branch that was built that it is exact, ends with `<img>` exactly while an image is open, and holds as many images
as the call has told it of (`Kept`, `BranchIs`); of the decode workspace, that its two lengths agree and its first
slots are the cache's keys; and of a denoising step, that each buffer holds its branch's keys and the image's
positions are those its branch's index gives (`Readied`). `BranchesAligned` follows because what a step reads
(`Reads`, by the scales) was built for the request (`ReadsBuilt`). The two machines share no state, so
`EitherInv`, the invariant of the run's specification, is the conjunction of theirs, with `NoSession` for
a rollout that never starts.

**WeightOverlap.** `Queues` says that a process has issued the first so many broadcasts of the numbered sequence
and the rest of this update's are left, so two processes never differ in an order, only in how far they are.
It is inductive because a block asks for its owners' broadcasts when all smaller owners of the batch have been
asked for: `OwnersAssumption`, the allotment of parameters to ranks in the order of the blocks
(`zero.py:82-99`). `Arrivals` says which blocks have arrived at each point of a pass. What a process holds is
bounded in both directions at every hook: `Forward`, the modules of the block still to run and, behind the launch
module, the next block; `Recompute`, the span so far and what was prefetched beyond it; `BackwardRecomputed` and
`BackwardKept`, the rest of the span, and nothing of what a later hook will gather. The upper bound is why no gather
repeats one and why a span's blocks and one more are enough, the lower bound why no module runs without its weight.
`OrderAssumption`: a block calls each of its modules once; by modules, in the order they are listed (in another
order the assertion fails, see Observations); spans of several blocks are recomputed by layers and divide the
blocks.

**RingAttention.** A rank is its window and its place inside, which the proofs derive from the groups
`ProcessGroups` makes (`Coordinated`); counting back from it gives whose keys it holds at each step (`Source`).
`BlocksOfStep` says that the halves a step combines are exactly what is causal between the two ranks, `SeenGrows`
that no pair of ranks meets twice, `SeenBounds` that in the end all have met; `GivenGrows` and `GivenBounds` say
the same of keys and the queries that have met them. So sums need no induction: what a rank has computed is the
bag of one set, `Seen`, and what gradients have gathered that of `Given`. `IInv` says which places a rank can be
at (`Placed`), which requests are open there and for which step (`Requested`), what the buffers named by them hold
before and after the transfer (`Carried`), what the rank itself will read (`InHand`), and what it has summed
(`Summed`). None of this is inductive without `Paired`: a rank's next send and its neighbour's next receive are of
the same step, however far apart the two are. A transfer can come between any two calls, so it must not write to a
buffer that is still read (`ArrivalInHand`, `ArrivalClash`); for gradients, which take two buffers in turn, that
rests on consecutive steps having different parity. Interleaved windows are excluded because `RingExact` is false
of them (see Observations).

Induction over data has no rule the provers can instantiate; where an argument needs it (a bucket's last
element, the first position of a sequence that differs, counting), the modules take a least counterexample from
`NatLessThanWellFounded` instead, as `HasLeast` and `HasLast`.

What stays with TLC, and why:

* liveness (`PublicationEnds`, `RunEnds`, `BatchEnds`, `LaunchEnds`, `StreamFlows`, `RingsComplete`,
  `UpdatesEnd`), which needs fairness and ENABLED;
* interleaved windows of `RingAttention`, of which `RingExact` is false;
* the properties of the function modules (`MCLayouts`), which are computed by folds and recursion over rows,
  matrices and layers: what these return for every input is an induction over the input.


## 5. Not modelled

* Floating-point values: rounding, norms, softmax, scales and dropout, densities and the ratio norm, auxiliary
  losses of gates, kernels (`ops` but for the parallel loss and the ring), `modeling_fm_modules.py`.
* Tokenising, templates, image decoding and augmentation, video samples (`conversation.py`, parts of
  `multimodal_dataset.py` and `dataset.py`); shared-memory caches and streaming of tokenized data.
* Code nothing calls: conditioned rewards, the older loaders of `checkpoint.py`, dead attention classes.
* Configuration, logging, metrics, storage clients, command lines, Docker files, examples.
* Local rollout in the trainer's process; the wire format of API rollouts.
* NCCL communicators inside one publication stage, and two trainers over one serving set: the code has no
  lease that could exclude them.
* The marker handshake of `_publish_hf_checkpoint`.
* The relaunch of one node's replicas in a serving set of several nodes.
* Durability of unsynced files, except in `SftRun`.

Hazards of `PROJECT.json` without a property carry their reason there.

## 6. Open work

Every safety property of the state machines has a proof; the function modules have none, for the reason given
under Proofs.
