----------------------------- MODULE TrainingRun -----------------------------
(***************************************************************************)
(* The ranks of one RL training run and the files it leaves:               *)
(* src/sensenova_u1/rl/trainer.py, _run_plan (1706-1761), run_training_    *)
(* loop (1522-1696), save_checkpoint and latest_checkpoint (1350-1480).    *)
(*                                                                         *)
(* Every rank executes the same program.  Between collectives only the     *)
(* primary (rank 0) touches files; a collective completes when every rank  *)
(* has arrived at it, and the ranks then leave it one by one.  Ranks raise *)
(* together (rank 0 broadcasts an error envelope) or alone (an exception   *)
(* between two collectives of a batch, or in a file operation of rank 0),  *)
(* die at any point, time out in a collective the others do not reach, and *)
(* are killed by torchrun once one of them has failed.                     *)
(*                                                                         *)
(* A batch's collectives are the single point "work", a publication is the *)
(* point "publish" (WeightPublication models what it does to the serving   *)
(* set), and a checkpoint is named by the number of batches it closes.     *)
(***************************************************************************)
EXTENDS Integers, FiniteSets

CONSTANTS
  Ranks,      \* the FSDP ranks
  Primary,    \* rank 0
  Batches,    \* total_batches of the plan
  SaveEvery,  \* save_every_steps, counted in batches
  MaxRuns     \* bound: starts of the run directory

ASSUME RunAssumption ==
  /\ Primary \in Ranks
  /\ Batches \in Nat \ {0} /\ SaveEvery \in Nat \ {0} /\ MaxRuns \in Nat

Steps == 1 .. Batches

VARIABLES
  pc,          \* where each rank is
  next,        \* where a completed collective lets a rank go; "wait" before
  batch,       \* the batch each rank is in, counted from 1
  cause,       \* the first exception that left each rank's batch loop
  reported,    \* the exception each rank would end with
  scratch,     \* run_dir/.tmp exists
  artifacts,   \* rollout-batch directories in it
  checkpoint,  \* step -> "absent", "writing" (the .tmp directory) or "committed"
  shards,      \* step -> ranks whose shard is in the checkpoint's dcp directory
  sealed,      \* step -> the other files in it: trainer_state.json, COMMIT
  finalState,  \* run_dir/final_state.json exists
  served,      \* batches of the policy last published; -1 before any
  runs         \* starts so far

files == <<scratch, artifacts, checkpoint, shards, sealed, finalState>>
excs == <<cause, reported>>
vars == <<pc, next, batch, cause, reported, scratch, artifacts, checkpoint, shards,
          sealed, finalState, served, runs>>

\* Collectives before the try block, in a batch, in a save, and at the end.
Opening == {"discover", "status", "initial", "opened"}
InBatch == {"begin", "work", "publish", "collected", "removed"}
Saving == {"prepare", "written", "saved"}
Cleanup == {"reward", "ended", "left"}
Closing == {"closing", "recorded"}
Collectives == Opening \cup InBatch \cup Saving \cup {"close"} \cup Cleanup \cup Closing
\* Work a rank does alone.
Local == {"open", "artifact", "remove", "shard", "state", "commit", "replace", "rmdir",
          "record"}
Exits == {"done", "raised", "killed"}

Live(r) == pc[r] \notin Exits
Waiting(r) == pc[r] \in Collectives /\ next[r] = "wait"
AllAt(c) == \A r \in Ranks : pc[r] = c /\ next[r] = "wait"
Failed == \E r \in Ranks : pc[r] \in {"raised", "killed"}

-----------------------------------------------------------------------------

Init ==
  /\ pc = [r \in Ranks |-> "discover"]
  /\ next = [r \in Ranks |-> "wait"]
  /\ batch = [r \in Ranks |-> 1]
  /\ cause = [r \in Ranks |-> "none"]
  /\ reported = [r \in Ranks |-> "none"]
  /\ scratch = FALSE
  /\ artifacts = {}
  /\ checkpoint = [k \in Steps |-> "absent"]
  /\ shards = [k \in Steps |-> {}]
  /\ sealed = [k \in Steps |-> {}]
  /\ finalState = FALSE
  /\ served = -1
  /\ runs = 1

-----------------------------------------------------------------------------
\* Control: collectives and exceptions

\* A completed collective releases all ranks to p.
AllGo(p) ==
  /\ next' = [r \in Ranks |-> p]
  /\ UNCHANGED <<pc, excs>>

\* The primary is released to p, the others to q.
Split(p, q) ==
  /\ next' = [r \in Ranks |-> IF r = Primary THEN p ELSE q]
  /\ UNCHANGED <<pc, excs>>

\* A rank goes on by itself.
Step(r, p) ==
  /\ pc' = [pc EXCEPT ![r] = p]
  /\ next' = [next EXCEPT ![r] = "wait"]
  /\ UNCHANGED excs

\* Before the try block, and once the finally block runs, an exception ends the rank.
AllRaise(what) ==
  /\ next' = [r \in Ranks |-> "raised"]
  /\ reported' = [r \in Ranks |-> what]
  /\ UNCHANGED <<pc, cause>>

Raise(r, what) ==
  /\ pc' = [pc EXCEPT ![r] = "raised"]
  /\ reported' = [reported EXCEPT ![r] = what]
  /\ UNCHANGED <<next, cause>>

\* Inside it, it takes the rank to the finally block.
AllUnwind(what) ==
  /\ next' = [r \in Ranks |-> "reward"]
  /\ cause' = [r \in Ranks |-> what]
  /\ reported' = [r \in Ranks |-> what]
  /\ UNCHANGED pc

Unwind(r, what) ==
  /\ pc' = [pc EXCEPT ![r] = "reward"]
  /\ next' = [next EXCEPT ![r] = "wait"]
  /\ cause' = [cause EXCEPT ![r] = what]
  /\ reported' = [reported EXCEPT ![r] = what]

Leave(r) ==
  /\ next[r] # "wait"
  /\ Step(r, next[r])
  /\ UNCHANGED <<batch, files, served, runs>>

-----------------------------------------------------------------------------
\* Start

\* latest_checkpoint on rank 0: what it refuses, and what it finds.  It does not
\* count shards: rank 0's metadata and the two other files will do.
Recognised(k) == Primary \in shards[k] /\ sealed[k] = {"state", "commit"}
Committed == {k \in Steps : checkpoint[k] = "committed"}
Residue == \/ \E k \in Steps : checkpoint[k] = "writing"
           \/ \E k \in Committed : ~Recognised(k)

\* A run directory that holds a checkpoint is not started again.
OccupiedByResidue == Residue           \* mutant: a whole checkpoint is no obstacle
Occupied == Residue \/ Committed # {}

Discover ==
  /\ AllAt("discover")
  /\ IF Occupied THEN AllRaise("setup") ELSE AllGo("status")
  /\ UNCHANGED <<batch, files, served, runs>>

ReadStatuses ==
  /\ AllAt("status")
  /\ AllGo("initial") \/ AllRaise("setup")
  /\ UNCHANGED <<batch, files, served, runs>>

PublishInitial ==
  /\ AllAt("initial")
  /\ \/ Split("open", "opened") /\ served' = 0
     \/ AllRaise("setup") /\ UNCHANGED served
  /\ UNCHANGED <<batch, files, runs>>

\* Only rank 0 looks for residue, outside the try block.
OpenScratch ==
  /\ pc[Primary] = "open"
  /\ IF scratch
       THEN Raise(Primary, "residue") /\ UNCHANGED scratch
       ELSE Step(Primary, "opened") /\ scratch' = TRUE
  /\ UNCHANGED <<batch, artifacts, checkpoint, shards, sealed, finalState, served, runs>>

Opened ==
  /\ AllAt("opened")
  /\ Split("artifact", "begin")
  /\ UNCHANGED <<batch, files, served, runs>>

-----------------------------------------------------------------------------
\* One batch

MakeArtifact ==
  /\ pc[Primary] = "artifact"
  /\ artifacts' = artifacts \cup {batch[Primary]}
  /\ Step(Primary, "begin")
  /\ UNCHANGED <<batch, scratch, checkpoint, shards, sealed, finalState, served, runs>>

Begin ==
  /\ AllAt("begin")
  /\ AllGo("work")
  /\ UNCHANGED <<batch, files, served, runs>>

\* Rollouts, anchor, rewards, replay and optimizer steps; a broadcast error
\* raises on all ranks.
Work ==
  /\ AllAt("work")
  /\ AllGo("publish") \/ AllUnwind("batch")
  /\ UNCHANGED <<batch, files, served, runs>>

Publish ==
  /\ AllAt("publish")
  /\ \/ AllGo("collected") /\ served' = batch[Primary]
     \/ AllUnwind("batch") /\ UNCHANGED served
  /\ UNCHANGED <<batch, files, runs>>

\* A rank raises alone between two collectives of the batch or publication.
FailAlone(r) ==
  /\ pc[r] \in {"work", "publish"}
  /\ next[r] = "wait"
  /\ Unwind(r, "batch")
  /\ UNCHANGED <<batch, files, served, runs>>

\* The barrier before the artifacts are deleted, and the deletion.
CollectedAtOnce ==                     \* mutant: rank 0 deletes before the barrier
  /\ pc[Primary] = "collected"
  /\ Step(Primary, "remove")
  /\ UNCHANGED <<batch, files, served, runs>>

Collected ==
  /\ AllAt("collected")
  /\ Split("remove", "removed")
  /\ UNCHANGED <<batch, files, served, runs>>

RemoveArtifact ==
  /\ pc[Primary] = "remove"
  /\ artifacts' = artifacts \ {batch[Primary]}
  /\ Step(Primary, "removed")
  /\ UNCHANGED <<batch, scratch, checkpoint, shards, sealed, finalState, served, runs>>

Due(b) == b % SaveEvery = 0 \/ b = Batches

\* What follows a batch that is closed; `batch` counts on with it.
NextBatchOneMore ==                    \* mutant: the last batch is not the last
  IF batch[Primary] <= Batches
    THEN Split("artifact", "begin") /\ batch' = [r \in Ranks |-> batch[r] + 1]
    ELSE AllGo("close") /\ UNCHANGED batch

NextBatch ==
  IF batch[Primary] < Batches
    THEN Split("artifact", "begin") /\ batch' = [r \in Ranks |-> batch[r] + 1]
    ELSE AllGo("close") /\ UNCHANGED batch

SaveOnPrimary == Split("prepare", "begin")   \* mutant: only rank 0 saves
Save == AllGo("prepare")

Removed ==
  /\ AllAt("removed")
  /\ IF Due(batch[Primary]) THEN Save /\ UNCHANGED batch ELSE NextBatch
  /\ UNCHANGED <<files, served, runs>>

-----------------------------------------------------------------------------
\* save_checkpoint

\* prepare on rank 0, whose answer or error is broadcast: a directory that is not
\* whole is refused, and any file operation can fail.
PrepareSave ==
  LET k == batch[Primary]
  IN  /\ AllAt("prepare")
      /\ \/ /\ checkpoint[k] = "absent"
            /\ AllGo("shard")
            /\ checkpoint' = [checkpoint EXCEPT ![k] = "writing"]
         \/ /\ k \in Committed /\ Recognised(k)
            /\ AllGo("saved")
            /\ UNCHANGED checkpoint
         \/ AllUnwind("save") /\ UNCHANGED checkpoint
      /\ UNCHANGED <<batch, scratch, artifacts, shards, sealed, finalState, served, runs>>

\* save_dcp on one rank.  DCP synchronises the ranks inside as well; the model
\* does not count on it.
WriteShard(r) ==
  /\ pc[r] = "shard"
  /\ \/ /\ shards' = [shards EXCEPT ![batch[r]] = @ \cup {r}]
        /\ Step(r, "written")
     \/ Unwind(r, "save") /\ UNCHANGED shards
  /\ UNCHANGED <<batch, scratch, artifacts, checkpoint, sealed, finalState, served, runs>>

\* Rank 0 goes on to seal and rename the directory once every shard is there.
SealAtOnce ==                          \* mutant: no barrier before the commit
  /\ pc[Primary] = "written"
  /\ Step(Primary, "state")
  /\ UNCHANGED <<batch, files, served, runs>>

Written ==
  /\ AllAt("written")
  /\ Split("state", "saved")
  /\ UNCHANGED <<batch, files, served, runs>>

Seal(p, file, q) ==
  /\ pc[Primary] = p
  /\ sealed' = [sealed EXCEPT ![batch[Primary]] = @ \cup {file}]
  /\ Step(Primary, q)
  /\ UNCHANGED <<batch, scratch, artifacts, checkpoint, shards, finalState, served, runs>>

SealState == Seal("state", "state", "commit")
SealCommit == Seal("commit", "commit", "replace")

\* os.replace: the directory appears under its final name, whole.
Replace ==
  /\ pc[Primary] = "replace"
  /\ checkpoint' = [checkpoint EXCEPT ![batch[Primary]] = "committed"]
  /\ Step(Primary, "saved")
  /\ UNCHANGED <<batch, scratch, artifacts, shards, sealed, finalState, served, runs>>

Saved ==
  /\ AllAt("saved")
  /\ NextBatch
  /\ UNCHANGED <<files, served, runs>>

-----------------------------------------------------------------------------
\* The end of the loop, its finally block, and the end of _run_plan

ClosePublisher ==
  /\ AllAt("close")
  /\ AllGo("reward") \/ AllUnwind("close")
  /\ UNCHANGED <<batch, files, served, runs>>

CloseReward ==
  /\ AllAt("reward")
  /\ AllGo("ended") \/ AllRaise("cleanup")
  /\ UNCHANGED <<batch, files, served, runs>>

Ended ==
  /\ AllAt("ended")
  /\ Split("rmdir", "left")
  /\ UNCHANGED <<batch, files, served, runs>>

ScratchKept ==                         \* mutant: the directory is not removed
  /\ pc[Primary] = "rmdir"
  /\ Step(Primary, "left")
  /\ UNCHANGED <<batch, files, served, runs>>

\* scratch.rmdir() raises on a directory that is not empty.
RemoveScratch ==
  /\ pc[Primary] = "rmdir"
  /\ IF artifacts = {}
       THEN Step(Primary, "left") /\ scratch' = FALSE
       ELSE Raise(Primary, "cleanup") /\ UNCHANGED scratch
  /\ UNCHANGED <<batch, artifacts, checkpoint, shards, sealed, finalState, served, runs>>

\* The exception that brought a rank here goes on after the finally block.
Left ==
  /\ AllAt("left")
  /\ next' = [r \in Ranks |-> IF cause[r] = "none" THEN "closing" ELSE "raised"]
  /\ UNCHANGED <<pc, excs, batch, files, served, runs>>

ClosedRun == ~Residue /\ checkpoint[Batches] = "committed"

CloseRun ==
  /\ AllAt("closing")
  /\ IF ClosedRun THEN Split("record", "recorded") ELSE AllRaise("close")
  /\ UNCHANGED <<batch, files, served, runs>>

RecordFinalState ==
  /\ pc[Primary] = "record"
  /\ finalState' = TRUE
  /\ Step(Primary, "recorded")
  /\ UNCHANGED <<batch, scratch, artifacts, checkpoint, shards, sealed, served, runs>>

Recorded ==
  /\ AllAt("recorded")
  /\ AllGo("done")
  /\ UNCHANGED <<batch, files, served, runs>>

-----------------------------------------------------------------------------
\* Faults, torchrun, and the next start of the run directory

\* A file operation of rank 0 raises (OSError), on rank 0 alone: the directories of
\* the scratch area, the sealing of a checkpoint, the final state.
FileError ==
  /\ \/ pc[Primary] \in {"artifact", "remove"} /\ Unwind(Primary, "batch")
     \/ pc[Primary] \in {"state", "commit", "replace"} /\ Unwind(Primary, "save")
     \/ pc[Primary] = "open" /\ Raise(Primary, "setup")
     \/ pc[Primary] = "rmdir" /\ Raise(Primary, "cleanup")
     \/ pc[Primary] = "record" /\ Raise(Primary, "close")
  /\ UNCHANGED <<batch, files, served, runs>>

Die(r) ==
  /\ Live(r)
  /\ Step(r, "killed")
  /\ UNCHANGED <<batch, files, served, runs>>

\* The NCCL watchdog ends a rank that waits for ranks that do not come, or for
\* what rank 0 computes before it joins a broadcast.
NoWatchdog(r) == FALSE /\ UNCHANGED vars   \* mutant: collectives wait for ever
NcclTimeout(r) ==
  /\ Waiting(r)
  /\ r # Primary \/ ~AllAt(pc[r])
  /\ Step(r, "killed")
  /\ UNCHANGED <<batch, files, served, runs>>

\* torchrun kills the remaining ranks when one has failed.
Abort(r) == Failed /\ Die(r)

Restart ==
  /\ \A r \in Ranks : ~Live(r)
  /\ runs < MaxRuns
  /\ runs' = runs + 1
  /\ pc' = [r \in Ranks |-> "discover"]
  /\ next' = [r \in Ranks |-> "wait"]
  /\ batch' = [r \in Ranks |-> 1]
  /\ cause' = [r \in Ranks |-> "none"]
  /\ reported' = [r \in Ranks |-> "none"]
  /\ UNCHANGED <<files, served>>

PrimaryStep ==
  \/ OpenScratch \/ MakeArtifact \/ RemoveArtifact
  \/ SealState \/ SealCommit \/ Replace
  \/ RemoveScratch \/ RecordFinalState

CollectiveStep ==
  \/ Discover \/ ReadStatuses \/ PublishInitial \/ Opened
  \/ Begin \/ Work \/ Publish \/ Collected \/ Removed
  \/ PrepareSave \/ Written \/ Saved
  \/ ClosePublisher \/ CloseReward \/ Ended \/ Left \/ CloseRun \/ Recorded

Next ==
  \/ CollectiveStep
  \/ PrimaryStep
  \/ FileError
  \/ \E r \in Ranks : Leave(r) \/ WriteShard(r) \/ FailAlone(r) \/ Die(r) \/ NcclTimeout(r)
  \/ Restart

Spec == Init /\ [][Next]_vars

\* Ranks run on by themselves, and those that wait for long are ended by the NCCL
\* watchdog or by torchrun.  No collective is assumed to complete: rank 0 may wait
\* for ever on a reward provider (PersistentRewardClient.close has no timeout).
FairSpec ==
  /\ Spec
  /\ WF_vars(PrimaryStep)
  /\ \A r \in Ranks : /\ WF_vars(Leave(r)) /\ WF_vars(WriteShard(r))
                      /\ WF_vars(NcclTimeout(r)) /\ WF_vars(Abort(r))

-----------------------------------------------------------------------------
\* Properties

Complete(k) == shards[k] = Ranks /\ sealed[k] = {"state", "commit"}

Causes == {"none", "setup", "residue", "batch", "save", "close", "cleanup"}

\* Type invariant.
TypeOK ==
  /\ pc \in [Ranks -> Collectives \cup Local \cup Exits]
  /\ next \in [Ranks -> Collectives \cup Local \cup Exits \cup {"wait"}]
  /\ batch \in [Ranks -> Steps]
  /\ cause \in [Ranks -> Causes]
  /\ reported \in [Ranks -> Causes]
  /\ scratch \in BOOLEAN
  /\ artifacts \subseteq Steps
  /\ checkpoint \in [Steps -> {"absent", "writing", "committed"}]
  /\ shards \in [Steps -> SUBSET Ranks]
  /\ sealed \in [Steps -> SUBSET {"state", "commit"}]
  /\ finalState \in BOOLEAN
  /\ served \in -1 .. Batches
  /\ runs \in Nat

\* A checkpoint under its final name is whole, whenever ranks die during the save
\* (trainer.py:1448-1480).
CommittedIsWhole == \A k \in Committed : Complete(k)

\* No committed checkpoint is ahead of the serving set: the weights were published
\* before they were saved, and a run directory that holds a checkpoint is not
\* started again, so no later start publishes an older policy over it
\* (trainer.py:1654-1686, 1709-1710).
CheckpointWasServed == \A k \in Committed : k <= served

\* The files of the batch being worked on are there for every rank until all ranks
\* are through, and no other batch's files are (trainer.py:1612-1614, 1669-1673).
ArtifactsInUse ==
  \A r \in Ranks : pc[r] \in {"work", "publish"} => artifacts = {batch[r]}

\* final_state.json closes the run: the last checkpoint is whole and nothing of the
\* scratch area is left (trainer.py:1735-1758).
FinalStateCloses == finalState => ~scratch /\ Batches \in Committed /\ Complete(Batches)

\* As long as no rank has failed, ranks that wait in collectives wait in the same
\* one of the same batch: no branch of the program splits them.
Lockstep ==
  (\A r \in Ranks : Live(r) /\ cause[r] = "none") =>
    \A r, q \in Ranks : Waiting(r) /\ Waiting(q) => pc[r] = pc[q] /\ batch[r] = batch[q]

\* Whatever fails, every start of the run directory comes to an end.
RunEnds == \A r \in Ranks : Live(r) ~> ~Live(r)

\* The comment of the batch's finally block: "A unilateral cleanup barrier ...
\* mismatches peers that are still inside FSDP collectives.  Let torchrun abort the
\* remaining ranks on failure" (trainer.py:1665-1668).  Read of the whole loop: no
\* rank waits in a cleanup collective while a peer is still in a batch collective.
NoUnilateralCleanup ==
  \A r, q \in Ranks : pc[r] \in Cleanup => pc[q] \notin {"work", "publish"}

\* The same comment: cleanup does not mask the real exception.  Once the reward
\* provider was closed without an error, rank 0 ends with the exception that ended
\* its batch.
CauseIsReported ==
  cause[Primary] = "batch" /\ (\E r \in Ranks : pc[r] = "left")
    => reported[Primary] = "batch"

=============================================================================
