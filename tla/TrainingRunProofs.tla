-------------------- MODULE TrainingRunProofs --------------------
(***************************************************************************)
(* Proofs about TrainingRun, for any number of ranks, batches and starts   *)
(* and any interval between checkpoints.                                   *)
(*                                                                         *)
(* The argument is about where ranks are.  A collective that completed     *)
(* lets them go one by one, so a rank's Place is where it is or where it   *)
(* has been let go to.  The Places of two ranks that have not ended lie    *)
(* between the same two collectives (Abreast), but for a rank that raised  *)
(* alone inside a batch or a save and waits in the cleanup.  Everything    *)
(* else can then be said of the Place of the primary, the only rank that   *)
(* moves directories: which files the save has written (Saves), which      *)
(* policy is served (Publishes) and which scratch files exist (Scratches). *)
(***************************************************************************)
EXTENDS TrainingRun, TLAPS

\* Where a rank is, or where the collective it is leaving takes it.
Place(r) == IF next[r] = "wait" THEN pc[r] ELSE next[r]

\* The collective a rank arrives at next.
Ahead(p) ==
  CASE p = "open"     -> "opened"
    [] p = "artifact" -> "begin"
    [] p = "remove"   -> "removed"
    [] p = "shard"    -> "written"
    [] p = "rmdir"    -> "left"
    [] p = "record"   -> "recorded"
    [] p \in {"state", "commit", "replace"} -> "saved"
    [] OTHER          -> p

\* It raised, and waits for the others in the cleanup.
Thrown(r) == Place(r) = "reward" /\ cause[r] # "none"

\* It raised alone, the primary also in a file operation, and q waits for it there.
Deserts(r, q) ==
  /\ Thrown(r)
  /\ \/ Ahead(Place(q)) \in {"work", "publish", "written"}
     \/ r = Primary /\ Ahead(Place(q)) \in {"begin", "removed", "saved"}

Abreast(r, q) ==
  Place(r) \notin Exits /\ Place(q) \notin Exits =>
    \/ Ahead(Place(r)) = Ahead(Place(q))
    \/ Deserts(r, q) \/ Deserts(q, r)

\* Only a collective lets a rank go.
Released(r) ==
  next[r] # "wait" =>
    /\ pc[r] \in Collectives
    /\ pc[r] = "work" => next[r] \in {"publish", "reward"}
    /\ pc[r] = "publish" => next[r] \in {"collected", "reward"}

Control ==
  /\ \A r, q \in Ranks : batch[r] = batch[q] /\ Abreast(r, q)
  /\ \A r \in Ranks : Released(r)

\* What the save of the current batch has written.
Saves ==
  LET p == Place(Primary)
      k == batch[Primary]
  IN  /\ \A r \in Ranks : Place(r) = "written" => r \in shards[batch[r]]
      /\ p \in {"state", "commit", "replace"} => shards[k] = Ranks
      /\ p \in {"commit", "replace"} => "state" \in sealed[k]
      /\ p = "replace" => "commit" \in sealed[k]
      /\ CommittedIsWhole

\* Which policy is served in the current batch.
InSave == {"prepare", "shard", "written", "state", "commit", "replace", "saved"}
Publishes ==
  LET p == Place(Primary)
      k == batch[Primary]
  IN  /\ p \in {"discover", "status", "initial", "open", "opened"} => k = 1
      /\ p \in {"status", "initial", "open"} => Committed = {}
      /\ p \in {"open", "opened", "artifact", "begin", "work", "publish"} => served = k - 1
      /\ p \in {"collected", "remove", "removed"} \cup InSave => served = k
      /\ CheckpointWasServed

\* Which batch's files are in the scratch area.
Between == {"opened", "artifact", "removed", "close"} \cup InSave
Within == {"begin", "work", "publish", "collected", "remove"}
Scratches ==
  LET p == Place(Primary)
  IN  /\ artifacts # {} => scratch
      /\ p \in Between \cup Within => scratch
      /\ p \in Between => artifacts = {}
      /\ p \in Within => artifacts = {batch[Primary]}
      /\ p \in {"left", "closing", "record", "recorded"} => ~scratch
      /\ p = "record" => Batches \in Committed
      /\ \A r \in Ranks : pc[r] \in {"work", "publish"} \/ Place(r) \in {"work", "publish"} =>
           artifacts = {batch[r]}
      /\ finalState => ~scratch /\ Batches \in Committed

\* The inductive invariant.
IInv == TypeOK /\ Control /\ Saves /\ Publishes /\ Scratches

-----------------------------------------------------------------------------
\* Moves

\* A rank that works alone is where it is.
LEMMA LocalPlace ==
  ASSUME TypeOK, Control, NEW r \in Ranks, pc[r] \in Local
  PROVE  next[r] = "wait" /\ Place(r) = pc[r]
BY DEF Control, Released, Place, TypeOK, Collectives, Opening, InBatch, Saving, Cleanup, Closing,
   Local, Exits

\* A rank that goes on by itself moves nobody else.
LEMMA Moves ==
  ASSUME TypeOK, NEW p \in Ranks, NEW v \in Collectives \cup Local \cup Exits,
         pc' = [pc EXCEPT ![p] = v], next' = [next EXCEPT ![p] = "wait"]
  PROVE  /\ Place(p)' = v
         /\ \A r \in Ranks \ {p} : pc'[r] = pc[r] /\ Place(r)' = Place(r)
BY DEF Place, TypeOK

\* Nor does one that raises outside the try block.
LEMMA RaiseMoves ==
  ASSUME TypeOK, NEW p \in Ranks, NEW what, next[p] = "wait", Raise(p, what)
  PROVE  /\ Place(p)' = "raised"
         /\ \A r \in Ranks \ {p} : pc'[r] = pc[r] /\ Place(r)' = Place(r)
BY DEF Raise, Place, TypeOK

\* While the primary is outside the batch's collectives, and has not raised, no rank
\* is in them.
LEMMA NoneWorks ==
  ASSUME TypeOK, Control, RunAssumption,
         Place(Primary) \notin {"work", "publish", "collected", "shard", "written",
             "reward"} \cup Exits
  PROVE  \A r \in Ranks : pc[r] \notin {"work", "publish"} /\ Place(r) \notin {"work", "publish"}
<1> SUFFICES ASSUME NEW r \in Ranks
             PROVE  pc[r] \notin {"work", "publish"} /\ Place(r) \notin {"work", "publish"}
  OBVIOUS
<1>1. Abreast(r, Primary) /\ Released(r) /\ Released(Primary)
  BY DEF Control, RunAssumption
<1>2. Ahead("work") = "work" /\ Ahead("publish") = "publish"
  BY DEF Ahead
<1>3. Ahead(Place(Primary)) \notin {"work", "publish", "collected", "written", "reward"}
        /\ ~Thrown(Primary)
  BY DEF Ahead, Thrown
<1>4. Place(r) \notin {"work", "publish"}
  BY <1>1, <1>2, <1>3 DEF Abreast, Deserts, Exits
<1>5. Ahead("collected") = "collected" /\ Ahead("reward") = "reward"
  BY DEF Ahead
<1>6. ASSUME pc[r] \in {"work", "publish"}
      PROVE  FALSE
  <2>1. next[r] # "wait" /\ Place(r) = next[r] /\ Place(r) \in {"collected", "reward"}
    BY <1>4, <1>6, <1>1 DEF Released, Place
  <2> QED  BY <2>1, <1>1, <1>3, <1>5 DEF Abreast, Deserts, Thrown, Exits
<1> QED  BY <1>4, <1>6

\* The loop goes on with the next batch or ends, for every rank.
LEMMA NextBatchMoves ==
  ASSUME TypeOK, Control, RunAssumption, NEW c, AllAt(c), NextBatch
  PROVE  /\ UNCHANGED <<pc, cause>>
         /\ \A r \in Ranks : Place(r)' \in {"artifact", "begin", "close"} /\ batch'[r] \in Steps
         /\ \A r, q \in Ranks : batch'[r] = batch'[q]
         /\ \/ Place(Primary)' = "artifact" /\ batch'[Primary] = batch[Primary] + 1
            \/ Place(Primary)' = "close" /\ UNCHANGED batch
BY DEF RunAssumption, Control, NextBatch, Split, AllGo, AllAt, Place, TypeOK, Steps, excs

\* A step that leaves the checkpoint files alone leaves whole checkpoints whole.
LEMMA WholeStays ==
  ASSUME CommittedIsWhole, UNCHANGED <<checkpoint, shards, sealed>>
  PROVE  CommittedIsWhole'
BY DEF CommittedIsWhole, Committed, Complete

\* A file operation of the primary that raises takes it out of the batch, and
\* nobody else moves.
LEMMA FileErrorMoves ==
  ASSUME TypeOK, Control, RunAssumption, FileError
  PROVE  /\ UNCHANGED <<batch, files, served, runs>>
         /\ next[Primary] = "wait" /\ next'[Primary] = "wait" /\ Place(Primary) = pc[Primary]
         /\ \/ /\ pc[Primary] \in {"artifact", "remove", "state", "commit", "replace"}
               /\ pc'[Primary] = "reward" /\ cause'[Primary] # "none"
            \/ pc[Primary] \in {"open", "rmdir", "record"} /\ pc'[Primary] = "raised"
         /\ \A r \in Ranks \ {Primary} :
              pc'[r] = pc[r] /\ next'[r] = next[r] /\ cause'[r] = cause[r]
         /\ \A r \in Ranks \ {Primary} : Place(r)' = Place(r)
<1>1. pc[Primary] \in {"artifact", "remove", "state", "commit", "replace", "open", "rmdir", "record"}
  BY DEF FileError
<1>2. next[Primary] = "wait" /\ Place(Primary) = pc[Primary]
  BY <1>1, LocalPlace DEF Local, RunAssumption
<1>3. UNCHANGED <<batch, files, served, runs>>
  BY DEF FileError
<1>4. CASE Unwind(Primary, "batch") /\ pc[Primary] \in {"artifact", "remove"}
  BY <1>2, <1>3, <1>4 DEF Unwind, TypeOK, RunAssumption, Place
<1>5. CASE Unwind(Primary, "save") /\ pc[Primary] \in {"state", "commit", "replace"}
  BY <1>2, <1>3, <1>5 DEF Unwind, TypeOK, RunAssumption, Place
<1>6. ASSUME NEW what, Raise(Primary, what), pc[Primary] \in {"open", "rmdir", "record"}
      PROVE  /\ next'[Primary] = "wait" /\ pc'[Primary] = "raised"
             /\ \A r \in Ranks \ {Primary} :
                  pc'[r] = pc[r] /\ next'[r] = next[r] /\ cause'[r] = cause[r]
             /\ \A r \in Ranks \ {Primary} : Place(r)' = Place(r)
  BY <1>2, <1>6 DEF Raise, TypeOK, RunAssumption, Place
<1> QED
  BY <1>2, <1>3, <1>4, <1>5, <1>6 DEF FileError

\* The others find it in the cleanup, or ended.
LEMMA FileErrorAbreast ==
  ASSUME TypeOK, Control, RunAssumption, FileError, NEW r \in Ranks
  PROVE  Abreast(Primary, r)' /\ Abreast(r, Primary)'
<1>1. CASE r = Primary
  BY <1>1 DEF Abreast
<1>2. CASE r # Primary /\ pc'[Primary] = "raised"
  <2>1. Place(Primary)' = "raised"
    BY <1>2, FileErrorMoves DEF Place
  <2> QED  BY <2>1 DEF Abreast, Exits
<1>3. CASE r # Primary /\ pc'[Primary] = "reward"
  <2>1. /\ Place(Primary) \in {"artifact", "remove", "state", "commit", "replace"}
        /\ Place(Primary)' = "reward" /\ Thrown(Primary)' /\ Place(r)' = Place(r)
    BY <1>3, FileErrorMoves DEF Place, Thrown
  <2>2. Ahead(Place(Primary)) \in {"begin", "removed", "saved"} /\ ~Thrown(Primary)
    BY <2>1 DEF Ahead, Thrown
  <2>3. Abreast(Primary, r)
    BY DEF Control, RunAssumption
  <2>4. Place(r) \in Exits \/ Ahead(Place(r)) = Ahead(Place(Primary))
    BY <1>3, <2>1, <2>2, <2>3 DEF Abreast, Deserts, Exits
  <2>5. Ahead(Place(r))' = Ahead(Place(r))
    BY <2>1 DEF Ahead
  <2> QED  BY <2>1, <2>2, <2>4, <2>5 DEF Abreast, Deserts
<1> QED  BY <1>1, <1>2, <1>3, FileErrorMoves

-----------------------------------------------------------------------------
\* Steps

\* One step per action: it keeps the type of every variable.
LEMMA TypeStep ==
  ASSUME TypeOK, Control, [Next]_vars
  PROVE  TypeOK'
<1> USE RunAssumption DEF TypeOK, Steps, Causes, Seal, Collectives, Opening, InBatch, Saving,
        Cleanup, Closing, Local, Exits, AllAt, AllGo, Split, Step, AllRaise, Raise, AllUnwind,
        Unwind, files, excs
<1>1. CASE Discover
  BY <1>1 DEF Discover
<1>2. CASE ReadStatuses
  BY <1>2 DEF ReadStatuses
<1>3. CASE PublishInitial
  BY <1>3 DEF PublishInitial
<1>4. CASE Opened
  BY <1>4 DEF Opened
<1>5. CASE Begin
  BY <1>5 DEF Begin
<1>6. CASE Work
  BY <1>6 DEF Work
<1>7. CASE Publish
  BY <1>7 DEF Publish
<1>8. CASE Collected
  BY <1>8 DEF Collected
<1>9. CASE Removed
  <2>1. CASE NextBatch
    <3>1. UNCHANGED <<pc, excs, files, served, runs>>
      BY <1>9, <2>1 DEF Removed, NextBatch
    <3>2. next' \in [Ranks -> Collectives \cup Local \cup Exits \cup {"wait"}]
      BY <2>1 DEF NextBatch
    <3>3. batch' \in [Ranks -> Steps]
      BY <2>1 DEF NextBatch, Control
    <3> QED  BY <3>1, <3>2, <3>3
  <2>2. CASE ~NextBatch
    BY <1>9, <2>2 DEF Removed, Save
  <2> QED  BY <2>1, <2>2
<1>10. CASE PrepareSave
  <2>1. CASE AllGo("shard") /\ checkpoint' = [checkpoint EXCEPT ![batch[Primary]] = "writing"]
    <3>1. checkpoint' \in [Steps -> {"absent", "writing", "committed"}]
      BY <2>1
    <3> QED  BY <1>10, <2>1, <3>1 DEF PrepareSave
  <2>2. CASE AllGo("saved") /\ UNCHANGED checkpoint
    BY <1>10, <2>2 DEF PrepareSave
  <2>3. CASE AllUnwind("save") /\ UNCHANGED checkpoint
    BY <1>10, <2>3 DEF PrepareSave
  <2> QED  BY <1>10, <2>1, <2>2, <2>3 DEF PrepareSave
<1>11. CASE Written
  BY <1>11 DEF Written
<1>12. CASE Saved
  <2>1. CASE NextBatch
    <3>1. UNCHANGED <<pc, excs, files, served, runs>>
      BY <1>12, <2>1 DEF Saved, NextBatch
    <3>2. next' \in [Ranks -> Collectives \cup Local \cup Exits \cup {"wait"}]
      BY <2>1 DEF NextBatch
    <3>3. batch' \in [Ranks -> Steps]
      BY <2>1 DEF NextBatch, Control
    <3> QED  BY <3>1, <3>2, <3>3
  <2>2. CASE ~NextBatch
    BY <1>12, <2>2 DEF Saved, Save
  <2> QED  BY <2>1, <2>2
<1>13. CASE ClosePublisher
  BY <1>13 DEF ClosePublisher
<1>14. CASE CloseReward
  BY <1>14 DEF CloseReward
<1>15. CASE Ended
  BY <1>15 DEF Ended
<1>16. CASE Left
  BY <1>16 DEF Left
<1>17. CASE CloseRun
  BY <1>17 DEF CloseRun
<1>18. CASE Recorded
  BY <1>18 DEF Recorded
<1>19. CASE OpenScratch
  <2>1. UNCHANGED <<batch, artifacts, checkpoint, shards, sealed, finalState, served, runs>>
    BY <1>19 DEF OpenScratch
  <2>2. CASE Raise(Primary, "residue") /\ UNCHANGED scratch
    BY <2>1, <2>2
  <2>3. CASE Step(Primary, "opened") /\ scratch' = TRUE
    BY <2>1, <2>3
  <2> QED  BY <1>19, <2>2, <2>3 DEF OpenScratch
<1>20. CASE MakeArtifact
  <2>1. artifacts' \subseteq Steps
    BY <1>20 DEF MakeArtifact
  <2> QED  BY <1>20, <2>1 DEF MakeArtifact
<1>21. CASE RemoveArtifact
  BY <1>21 DEF RemoveArtifact
<1>22. CASE SealState
  BY <1>22 DEF SealState
<1>23. CASE SealCommit
  BY <1>23 DEF SealCommit
<1>24. CASE Replace
  <2>1. checkpoint' \in [Steps -> {"absent", "writing", "committed"}]
    BY <1>24 DEF Replace
  <2>2. UNCHANGED <<batch, scratch, artifacts, shards, sealed, finalState, served, runs>> /\ Step(Primary, "saved")
    BY <1>24 DEF Replace
  <2> QED  BY <2>1, <2>2
<1>25. CASE RemoveScratch
  <2>1. UNCHANGED <<batch, artifacts, checkpoint, shards, sealed, finalState, served, runs>>
    BY <1>25 DEF RemoveScratch
  <2>2. scratch' \in BOOLEAN
    BY <1>25 DEF RemoveScratch
  <2>3. CASE Step(Primary, "left")
    BY <2>1, <2>2, <2>3
  <2>4. CASE Raise(Primary, "cleanup")
    BY <2>1, <2>2, <2>4
  <2> QED  BY <1>25, <2>3, <2>4 DEF RemoveScratch
<1>26. CASE RecordFinalState
  BY <1>26 DEF RecordFinalState
<1>27. ASSUME NEW p \in Ranks, Leave(p) PROVE TypeOK'
  BY <1>27 DEF Leave
<1>28. ASSUME NEW p \in Ranks, WriteShard(p) PROVE TypeOK'
  <2>1. CASE shards' = [shards EXCEPT ![batch[p]] = @ \cup {p}] /\ Step(p, "written")
    <3>1. shards' \in [Steps -> SUBSET Ranks]
      BY <2>1
    <3> QED  BY <1>28, <2>1, <3>1 DEF WriteShard
  <2>2. CASE Unwind(p, "save") /\ UNCHANGED shards
    BY <1>28, <2>2 DEF WriteShard
  <2> QED  BY <1>28, <2>1, <2>2 DEF WriteShard
<1>29. ASSUME NEW p \in Ranks, FailAlone(p) PROVE TypeOK'
  BY <1>29 DEF FailAlone
<1>30. ASSUME NEW p \in Ranks, Die(p) PROVE TypeOK'
  BY <1>30 DEF Die
<1>31. ASSUME NEW p \in Ranks, NcclTimeout(p) PROVE TypeOK'
  BY <1>31 DEF NcclTimeout
<1>32. CASE Restart
  BY <1>32 DEF Restart
<1>33. CASE UNCHANGED vars
  BY <1>33 DEF vars
<1>34. CASE FileError
  <2>1. CASE Unwind(Primary, "batch") /\ UNCHANGED <<batch, files, served, runs>>
    BY <2>1
  <2>2. CASE Unwind(Primary, "save") /\ UNCHANGED <<batch, files, served, runs>>
    BY <2>2
  <2>3. ASSUME NEW what \in {"setup", "cleanup", "close"}, Raise(Primary, what),
               UNCHANGED <<batch, files, served, runs>>
        PROVE  TypeOK'
    BY <2>3
  <2> QED  BY <1>34, <2>1, <2>2, <2>3 DEF FileError
<1> HIDE DEF TypeOK
<1>35. QED
  BY <1>1, <1>2, <1>3, <1>4, <1>5, <1>6, <1>7, <1>8, <1>9, <1>10, <1>11, <1>12, <1>13, <1>14,
     <1>15, <1>16, <1>17, <1>18, <1>19, <1>20, <1>21, <1>22, <1>23, <1>24, <1>25, <1>26, <1>27,
     <1>28, <1>29, <1>30, <1>31, <1>32, <1>33, <1>34 DEF Next, CollectiveStep, PrimaryStep

\* One step per action: it keeps the ranks abreast.
LEMMA ControlStep ==
  ASSUME TypeOK, Control, [Next]_vars
  PROVE  Control'
<1> SUFFICES ASSUME NEW r \in Ranks, NEW q \in Ranks
             PROVE  batch'[r] = batch'[q] /\ Abreast(r, q)' /\ Released(r)'
  BY DEF Control
<1> USE RunAssumption DEF TypeOK, Control, Place, Ahead, Thrown, Abreast, Deserts, Released, Save,
        Seal, NextBatch, Collectives, Opening, InBatch, Saving, Cleanup, Closing, Local, Exits, AllAt,
        AllGo, Split, Step, AllRaise, Raise, AllUnwind, Unwind, files, excs
<1>1. CASE Discover
  BY <1>1 DEF Discover
<1>2. CASE ReadStatuses
  BY <1>2 DEF ReadStatuses
<1>3. CASE PublishInitial
  BY <1>3 DEF PublishInitial
<1>4. CASE Opened
  BY <1>4 DEF Opened
<1>5. CASE Begin
  BY <1>5 DEF Begin
<1>6. CASE Work
  BY <1>6 DEF Work
<1>7. CASE Publish
  BY <1>7 DEF Publish
<1>8. CASE Collected
  BY <1>8 DEF Collected
<1>9. CASE Removed
  BY <1>9 DEF Removed
<1>10. CASE PrepareSave
  BY <1>10 DEF PrepareSave
<1>11. CASE Written
  BY <1>11 DEF Written
<1>12. CASE Saved
  BY <1>12 DEF Saved
<1>13. CASE ClosePublisher
  BY <1>13 DEF ClosePublisher
<1>14. CASE CloseReward
  BY <1>14 DEF CloseReward
<1>15. CASE Ended
  BY <1>15 DEF Ended
<1>16. CASE Left
  BY <1>16 DEF Left
<1>17. CASE CloseRun
  BY <1>17 DEF CloseRun
<1>18. CASE Recorded
  BY <1>18 DEF Recorded
<1>19. CASE OpenScratch
  BY <1>19 DEF OpenScratch
<1>20. CASE MakeArtifact
  BY <1>20 DEF MakeArtifact
<1>21. CASE RemoveArtifact
  BY <1>21 DEF RemoveArtifact
<1>22. CASE SealState
  BY <1>22 DEF SealState
<1>23. CASE SealCommit
  BY <1>23 DEF SealCommit
<1>24. CASE Replace
  BY <1>24 DEF Replace
<1>25. CASE RemoveScratch
  BY <1>25 DEF RemoveScratch
<1>26. CASE RecordFinalState
  BY <1>26 DEF RecordFinalState
<1>27. ASSUME NEW p \in Ranks, Leave(p) PROVE batch'[r] = batch'[q] /\ Abreast(r, q)'
                /\ Released(r)'
  BY <1>27 DEF Leave
<1>28. ASSUME NEW p \in Ranks, WriteShard(p) PROVE batch'[r] = batch'[q] /\ Abreast(r, q)'
                /\ Released(r)'
  <2>1. CASE Step(p, "written")
    BY <1>28, <2>1 DEF WriteShard
  <2>2. CASE Unwind(p, "save")
    BY <1>28, <2>2 DEF WriteShard
  <2> QED  BY <1>28, <2>1, <2>2 DEF WriteShard
<1>29. ASSUME NEW p \in Ranks, FailAlone(p) PROVE batch'[r] = batch'[q] /\ Abreast(r, q)'
                /\ Released(r)'
  BY <1>29 DEF FailAlone
<1>30. ASSUME NEW p \in Ranks, Die(p) PROVE batch'[r] = batch'[q] /\ Abreast(r, q)' /\ Released(r)'
  BY <1>30 DEF Die
<1>31. ASSUME NEW p \in Ranks, NcclTimeout(p) PROVE batch'[r] = batch'[q] /\ Abreast(r, q)'
                /\ Released(r)'
  BY <1>31 DEF NcclTimeout
<1>32. CASE Restart
  BY <1>32 DEF Restart
<1>33. CASE UNCHANGED vars
  BY <1>33 DEF vars
<1>34. CASE FileError
  <2>1. batch'[r] = batch'[q]
    BY <1>34, FileErrorMoves
  <2>2. Released(r)'
    BY <1>34, FileErrorMoves
  <2>3. CASE r = Primary \/ q = Primary
    <3> HIDE DEF Place, Ahead, Thrown, Abreast, Deserts, Released
    <3>1. Abreast(Primary, q)' /\ Abreast(r, Primary)'
      BY <1>34, FileErrorAbreast
    <3>2. Abreast(r, q)'
      BY <2>3, <3>1
    <3> QED  BY <2>1, <2>2, <3>2
  <2>4. CASE r # Primary /\ q # Primary
    <3> HIDE DEF Place, Ahead, Thrown, Abreast, Deserts, Released
    <3>1. /\ Place(r)' = Place(r) /\ cause'[r] = cause[r]
          /\ Place(q)' = Place(q) /\ cause'[q] = cause[q]
      BY <1>34, <2>4, FileErrorMoves
    <3>2. /\ Thrown(r)' = Thrown(r) /\ Ahead(Place(r))' = Ahead(Place(r))
          /\ Thrown(q)' = Thrown(q) /\ Ahead(Place(q))' = Ahead(Place(q))
      BY <3>1 DEF Thrown, Ahead
    <3>3. Abreast(r, q)
      OBVIOUS
    <3>4. Abreast(r, q)'
      BY <3>1, <3>2, <3>3 DEF Abreast, Deserts
    <3> QED  BY <2>1, <2>2, <3>4
  <2> QED  BY <2>3, <2>4
<1> HIDE DEF TypeOK, Control, Place, Ahead, Thrown, Abreast, Deserts, Released
<1>35. QED
  BY <1>1, <1>2, <1>3, <1>4, <1>5, <1>6, <1>7, <1>8, <1>9, <1>10, <1>11, <1>12, <1>13, <1>14,
     <1>15, <1>16, <1>17, <1>18, <1>19, <1>20, <1>21, <1>22, <1>23, <1>24, <1>25, <1>26, <1>27,
     <1>28, <1>29, <1>30, <1>31, <1>32, <1>33, <1>34 DEF Next, CollectiveStep, PrimaryStep

\* One step per action: it writes a save's files in order and renames them whole.
LEMMA SavesStep ==
  ASSUME TypeOK, Control, Saves, [Next]_vars
  PROVE  Saves'
<1> USE RunAssumption DEF Place, Save, Seal, Steps, Collectives, Opening, InBatch, Saving, Cleanup,
        Closing, Local, Exits, AllAt, AllGo, Split, Step, AllRaise, Raise, AllUnwind, Unwind,
        files, excs
<1>1. CASE Discover
  BY <1>1, WholeStays DEF Discover, Saves
<1>2. CASE ReadStatuses
  BY <1>2, WholeStays DEF ReadStatuses, Saves
<1>3. CASE PublishInitial
  <2>1. \A r \in Ranks : Place(r)' \notin {"written", "state", "commit", "replace"}
    BY <1>3 DEF PublishInitial
  <2> QED  BY <1>3, <2>1, WholeStays DEF PublishInitial, Saves
<1>4. CASE Opened
  BY <1>4, WholeStays DEF Opened, Saves
<1>5. CASE Begin
  BY <1>5, WholeStays DEF Begin, Saves
<1>6. CASE Work
  BY <1>6, WholeStays DEF Work, Saves
<1>7. CASE Publish
  BY <1>7, WholeStays DEF Publish, Saves
<1>8. CASE Collected
  BY <1>8, WholeStays DEF Collected, Saves
<1>9. CASE Removed
  <2>1. \A r \in Ranks : Place(r)' \notin {"written", "state", "commit", "replace"}
    BY <1>9, NextBatchMoves DEF Removed
  <2> QED  BY <1>9, <2>1, WholeStays DEF Removed, Saves, NextBatch
<1>10. CASE PrepareSave
  <2> DEFINE k == batch[Primary]
  <2>1. \A r \in Ranks : Place(r)' \in {"shard", "saved", "reward"}
    BY <1>10 DEF PrepareSave
  <2>2. UNCHANGED <<shards, sealed>> /\ \A j \in Steps : j \in Committed' <=> j \in Committed
    <3>1. CASE checkpoint[k] = "absent"
      BY <1>10, <3>1 DEF PrepareSave, Committed, TypeOK
    <3>2. CASE checkpoint[k] # "absent"
      BY <1>10, <3>2 DEF PrepareSave, Committed
    <3> QED  BY <3>1, <3>2
  <2>3. CommittedIsWhole'
    BY <2>2 DEF Saves, CommittedIsWhole, Committed, Complete
  <2> QED  BY <2>1, <2>3 DEF Saves
<1>11. CASE Written
  <2>1. /\ \A r \in Ranks : Place(r) = "written" /\ Place(r)' \in {"state", "saved"}
        /\ Place(Primary)' = "state"
    BY <1>11 DEF Written
  <2>2. shards[batch[Primary]] = Ranks
    <3>1. \A r \in Ranks : r \in shards[batch[Primary]]
      BY <2>1 DEF Saves, Control
    <3> QED  BY <3>1 DEF TypeOK
  <2> QED  BY <1>11, <2>1, <2>2, WholeStays DEF Written, Saves
<1>12. CASE Saved
  <2>1. \A r \in Ranks : Place(r)' \notin {"written", "state", "commit", "replace"}
    BY <1>12, NextBatchMoves DEF Saved
  <2> QED  BY <1>12, <2>1, WholeStays DEF Saved, Saves, NextBatch
<1>13. CASE ClosePublisher
  BY <1>13, WholeStays DEF ClosePublisher, Saves
<1>14. CASE CloseReward
  BY <1>14, WholeStays DEF CloseReward, Saves
<1>15. CASE Ended
  BY <1>15, WholeStays DEF Ended, Saves
<1>16. CASE Left
  BY <1>16, WholeStays DEF Left, Saves
<1>17. CASE CloseRun
  <2>1. \A r \in Ranks : Place(r)' \notin {"written", "state", "commit", "replace"}
    BY <1>17 DEF CloseRun
  <2> QED  BY <1>17, <2>1, WholeStays DEF CloseRun, Saves
<1>18. CASE Recorded
  BY <1>18, WholeStays DEF Recorded, Saves
<1>19. CASE OpenScratch
  <2>1. pc[Primary] = "open" /\ next[Primary] = "wait" /\ Place(Primary) = "open"
    BY <1>19, LocalPlace DEF OpenScratch
  <2>2. /\ Place(Primary)' \in {"opened", "raised"}
        /\ \A r \in Ranks \ {Primary} : pc'[r] = pc[r] /\ Place(r)' = Place(r)
    <3>1. CASE Step(Primary, "opened")
      BY <3>1, <2>1, Moves DEF Step
    <3>2. ASSUME NEW what, Raise(Primary, what)
          PROVE  /\ Place(Primary)' = "raised"
                 /\ \A r \in Ranks \ {Primary} : pc'[r] = pc[r] /\ Place(r)' = Place(r)
      BY <2>1, <3>2, RaiseMoves
    <3> HIDE DEF Step, Raise, Place
    <3> QED  BY <1>19, <3>1, <3>2 DEF OpenScratch
  <2> QED
    BY <1>19, <2>1, <2>2, WholeStays DEF OpenScratch, Saves
<1>20. CASE MakeArtifact
  <2>1. pc[Primary] = "artifact" /\ next[Primary] = "wait" /\ Place(Primary) = "artifact"
    BY <1>20, LocalPlace DEF MakeArtifact
  <2>2. /\ Place(Primary)' \in {"begin"}
        /\ \A r \in Ranks \ {Primary} : pc'[r] = pc[r] /\ Place(r)' = Place(r)
    BY <1>20, <2>1, Moves DEF MakeArtifact, Place
  <2> QED
    BY <1>20, <2>1, <2>2, WholeStays DEF MakeArtifact, Saves
<1>21. CASE RemoveArtifact
  <2>1. pc[Primary] = "remove" /\ next[Primary] = "wait" /\ Place(Primary) = "remove"
    BY <1>21, LocalPlace DEF RemoveArtifact
  <2>2. /\ Place(Primary)' \in {"removed"}
        /\ \A r \in Ranks \ {Primary} : pc'[r] = pc[r] /\ Place(r)' = Place(r)
    BY <1>21, <2>1, Moves DEF RemoveArtifact, Place
  <2> QED
    BY <1>21, <2>1, <2>2, WholeStays DEF RemoveArtifact, Saves
<1>22. CASE SealState
  <2>1. pc[Primary] = "state" /\ next[Primary] = "wait" /\ Place(Primary) = "state"
    BY <1>22, LocalPlace DEF SealState
  <2>2. /\ Place(Primary)' \in {"commit"}
        /\ \A r \in Ranks \ {Primary} : pc'[r] = pc[r] /\ Place(r)' = Place(r)
    BY <1>22, <2>1, Moves DEF SealState, Place
  <2>3. \A k \in Steps \ {batch[Primary]} : k \in Committed' <=> k \in Committed
    BY <1>22 DEF SealState, Committed
  <2>4. shards[batch[Primary]] = Ranks
    BY <2>1 DEF Saves
  <2>5. CommittedIsWhole'
    BY <1>22, <2>1, <2>3, <2>4 DEF SealState, Saves, CommittedIsWhole, Committed, Complete
  <2> QED
    BY <1>22, <2>1, <2>2, <2>4, <2>5 DEF SealState, Saves, TypeOK
<1>23. CASE SealCommit
  <2>1. pc[Primary] = "commit" /\ next[Primary] = "wait" /\ Place(Primary) = "commit"
    BY <1>23, LocalPlace DEF SealCommit
  <2>2. /\ Place(Primary)' \in {"replace"}
        /\ \A r \in Ranks \ {Primary} : pc'[r] = pc[r] /\ Place(r)' = Place(r)
    BY <1>23, <2>1, Moves DEF SealCommit, Place
  <2>3. \A k \in Steps \ {batch[Primary]} : k \in Committed' <=> k \in Committed
    BY <1>23 DEF SealCommit, Committed
  <2>4. shards[batch[Primary]] = Ranks
    BY <2>1 DEF Saves
  <2>5. CommittedIsWhole'
    BY <1>23, <2>1, <2>3, <2>4 DEF SealCommit, Saves, CommittedIsWhole, Committed, Complete
  <2> QED
    BY <1>23, <2>1, <2>2, <2>4, <2>5 DEF SealCommit, Saves, TypeOK
<1>24. CASE Replace
  <2>1. pc[Primary] = "replace" /\ next[Primary] = "wait" /\ Place(Primary) = "replace"
    BY <1>24, LocalPlace DEF Replace
  <2>2. /\ Place(Primary)' \in {"saved"}
        /\ \A r \in Ranks \ {Primary} : pc'[r] = pc[r] /\ Place(r)' = Place(r)
    BY <1>24, <2>1, Moves DEF Replace, Place
  <2>3. \A k \in Steps \ {batch[Primary]} : k \in Committed' <=> k \in Committed
    BY <1>24 DEF Replace, Committed
  <2>4. shards[batch[Primary]] = Ranks
    BY <2>1 DEF Saves
  <2>5. CommittedIsWhole'
    BY <1>24, <2>1, <2>3, <2>4 DEF Replace, Saves, CommittedIsWhole, Committed, Complete, TypeOK
  <2> QED
    BY <1>24, <2>1, <2>2, <2>4, <2>5 DEF Replace, Saves
<1>25. CASE RemoveScratch
  <2>1. pc[Primary] = "rmdir" /\ next[Primary] = "wait" /\ Place(Primary) = "rmdir"
    BY <1>25, LocalPlace DEF RemoveScratch
  <2>2. /\ Place(Primary)' \in {"left", "raised"}
        /\ \A r \in Ranks \ {Primary} : pc'[r] = pc[r] /\ Place(r)' = Place(r)
    <3>1. CASE Step(Primary, "left")
      BY <3>1, <2>1, Moves DEF Step
    <3>2. ASSUME NEW what, Raise(Primary, what)
          PROVE  /\ Place(Primary)' = "raised"
                 /\ \A r \in Ranks \ {Primary} : pc'[r] = pc[r] /\ Place(r)' = Place(r)
      BY <2>1, <3>2, RaiseMoves
    <3> HIDE DEF Step, Raise, Place
    <3> QED  BY <1>25, <3>1, <3>2 DEF RemoveScratch
  <2> QED
    BY <1>25, <2>1, <2>2, WholeStays DEF RemoveScratch, Saves
<1>26. CASE RecordFinalState
  <2>1. pc[Primary] = "record" /\ next[Primary] = "wait" /\ Place(Primary) = "record"
    BY <1>26, LocalPlace DEF RecordFinalState
  <2>2. /\ Place(Primary)' \in {"recorded"}
        /\ \A r \in Ranks \ {Primary} : pc'[r] = pc[r] /\ Place(r)' = Place(r)
    BY <1>26, <2>1, Moves DEF RecordFinalState, Place
  <2> QED
    BY <1>26, <2>1, <2>2, WholeStays DEF RecordFinalState, Saves
<1>27. ASSUME NEW p \in Ranks, Leave(p) PROVE Saves'
  BY <1>27, WholeStays DEF Leave, Saves, TypeOK
<1>28. ASSUME NEW p \in Ranks, WriteShard(p) PROVE Saves'
  <2>1. /\ next[p] = "wait" /\ Place(p) = "shard" /\ pc'[p] \in {"written", "reward"}
        /\ Place(p)' \in {"written", "reward"}
        /\ \A r \in Ranks \ {p} : pc'[r] = pc[r] /\ Place(r)' = Place(r)
    BY <1>28, LocalPlace, Moves DEF WriteShard
  <2>2. batch[p] = batch[Primary] /\ Place(Primary) \notin {"state", "commit", "replace"}
    BY <2>1 DEF Control, Abreast, Deserts, Ahead, Thrown
  <2>3. CASE shards' = [shards EXCEPT ![batch[p]] = @ \cup {p}]
    <3>1. \A k \in Steps : shards[k] \subseteq shards'[k] /\ shards'[k] \subseteq Ranks
      BY <2>3 DEF TypeOK
    <3>2. p \in shards'[batch[p]]
      BY <2>3 DEF TypeOK
    <3>3. \A k \in Steps : shards[k] = Ranks => shards'[k] = Ranks
      BY <3>1
    <3>4. UNCHANGED <<batch, checkpoint, sealed>>
      BY <1>28 DEF WriteShard
    <3>5. CommittedIsWhole'
      BY <3>3, <3>4 DEF Saves, CommittedIsWhole, Committed, Complete
    <3>6. ASSUME NEW r \in Ranks, Place(r)' = "written"
          PROVE  r \in shards'[batch'[r]]
      <4>1. batch'[r] = batch[r] /\ batch[r] \in Steps
        BY <3>4 DEF TypeOK
      <4>2. CASE r = p
        BY <3>2, <4>1, <4>2
      <4>3. CASE r # p
        <5>1. Place(r) = "written"
          BY <2>1, <3>6, <4>3
        <5>2. r \in shards[batch[r]]
          BY <5>1 DEF Saves
        <5> QED  BY <3>1, <4>1, <5>2
      <4> QED  BY <4>2, <4>3
    <3>7. Place(Primary)' \notin {"state", "commit", "replace"}
      BY <2>1, <2>2
    <3> QED  BY <3>5, <3>6, <3>7 DEF Saves
  <2>4. CASE Unwind(p, "save") /\ UNCHANGED shards
    <3>1. Place(p)' = "reward"
      BY <2>4, Moves
    <3> QED  BY <1>28, <2>1, <2>2, <2>4, <3>1, WholeStays DEF WriteShard, Saves
  <2> QED  BY <1>28, <2>3, <2>4 DEF WriteShard
<1>29. ASSUME NEW p \in Ranks, FailAlone(p) PROVE Saves'
  BY <1>29, WholeStays DEF FailAlone, Saves
<1>30. ASSUME NEW p \in Ranks, Die(p) PROVE Saves'
  BY <1>30, WholeStays DEF Die, Saves, TypeOK
<1>31. ASSUME NEW p \in Ranks, NcclTimeout(p) PROVE Saves'
  BY <1>31, WholeStays DEF NcclTimeout, Saves, TypeOK
<1>32. CASE Restart
  BY <1>32, WholeStays DEF Restart, Saves
<1>33. CASE UNCHANGED vars
  BY <1>33, WholeStays DEF vars, Saves
<1>34. CASE FileError
  <2>1. /\ Place(Primary)' \in {"reward", "raised"}
        /\ \A r \in Ranks \ {Primary} : Place(r)' = Place(r)
        /\ UNCHANGED <<batch, checkpoint, shards, sealed>>
    BY <1>34, FileErrorMoves
  <2> HIDE DEF Place, Control
  <2> QED  BY <2>1, WholeStays DEF Saves
<1>35. QED
  BY <1>1, <1>2, <1>3, <1>4, <1>5, <1>6, <1>7, <1>8, <1>9, <1>10, <1>11, <1>12, <1>13, <1>14,
     <1>15, <1>16, <1>17, <1>18, <1>19, <1>20, <1>21, <1>22, <1>23, <1>24, <1>25, <1>26, <1>27,
     <1>28, <1>29, <1>30, <1>31, <1>32, <1>33, <1>34 DEF Next, CollectiveStep, PrimaryStep

\* One step per action: the policy is served before its checkpoint is saved.
LEMMA PublishesStep ==
  ASSUME TypeOK, Control, Publishes, [Next]_vars
  PROVE  Publishes'
<1> USE RunAssumption DEF Place, Save, Seal, Steps, Collectives, Opening, InBatch, Saving, Cleanup,
        Closing, Local, Exits, AllAt, AllGo, Split, Step, AllRaise, Raise, AllUnwind, Unwind,
        files, excs
<1>1. CASE Discover
  BY <1>1 DEF Discover, Publishes, InSave, CheckpointWasServed, Committed, Occupied
<1>2. CASE ReadStatuses
  BY <1>2 DEF ReadStatuses, Publishes, InSave, CheckpointWasServed, Committed
<1>3. CASE PublishInitial
  BY <1>3 DEF PublishInitial, Publishes, InSave, CheckpointWasServed, Committed
<1>4. CASE Opened
  BY <1>4 DEF Opened, Publishes, InSave, CheckpointWasServed, Committed
<1>5. CASE Begin
  BY <1>5 DEF Begin, Publishes, InSave, CheckpointWasServed, Committed
<1>6. CASE Work
  BY <1>6 DEF Work, Publishes, InSave, CheckpointWasServed, Committed
<1>7. CASE Publish
  BY <1>7 DEF Publish, Publishes, InSave, CheckpointWasServed, Committed, TypeOK
<1>8. CASE Collected
  BY <1>8 DEF Collected, Publishes, CheckpointWasServed, Committed
<1>9. CASE Removed
  <2>1. Place(Primary) = "removed"
    BY <1>9 DEF Removed
  <2>2. UNCHANGED <<served, checkpoint>> /\ Committed' = Committed
    BY <1>9 DEF Removed, Committed
  <2>3. CASE Save /\ UNCHANGED batch
    <3>1. Place(Primary)' = "prepare"
      BY <2>3
    <3> QED  BY <2>1, <2>2, <2>3, <3>1 DEF Publishes, InSave, CheckpointWasServed
  <2>4. CASE NextBatch
    <3> HIDE DEF Place, AllAt
    <3>1. AllAt("removed") /\ batch[Primary] \in Nat
      BY <1>9 DEF Removed, TypeOK
    <3>2. \/ Place(Primary)' = "artifact" /\ batch'[Primary] = batch[Primary] + 1
          \/ Place(Primary)' = "close"
      BY <2>4, <3>1, NextBatchMoves
    <3> QED  BY <2>1, <2>2, <3>1, <3>2 DEF Publishes, InSave, CheckpointWasServed
  <2> QED  BY <1>9, <2>3, <2>4 DEF Removed
<1>10. CASE PrepareSave
  BY <1>10 DEF PrepareSave, Publishes, InSave, CheckpointWasServed, Committed, TypeOK
<1>11. CASE Written
  BY <1>11 DEF Written, Publishes, InSave, CheckpointWasServed, Committed
<1>12. CASE Saved
  BY <1>12 DEF Saved, Publishes, InSave, CheckpointWasServed, Committed, TypeOK, NextBatch
<1>13. CASE ClosePublisher
  BY <1>13 DEF ClosePublisher, Publishes, InSave, CheckpointWasServed, Committed
<1>14. CASE CloseReward
  BY <1>14 DEF CloseReward, Publishes, InSave, CheckpointWasServed, Committed
<1>15. CASE Ended
  BY <1>15 DEF Ended, Publishes, InSave, CheckpointWasServed, Committed
<1>16. CASE Left
  BY <1>16 DEF Left, Publishes, InSave, CheckpointWasServed, Committed
<1>17. CASE CloseRun
  BY <1>17 DEF CloseRun, Publishes, InSave, CheckpointWasServed, Committed
<1>18. CASE Recorded
  BY <1>18 DEF Recorded, Publishes, InSave, CheckpointWasServed, Committed
<1>19. CASE OpenScratch
  <2>1. pc[Primary] = "open" /\ next[Primary] = "wait" /\ Place(Primary) = "open"
    BY <1>19, LocalPlace DEF OpenScratch
  <2>2. /\ Place(Primary)' \in {"opened", "raised"}
        /\ \A r \in Ranks \ {Primary} : pc'[r] = pc[r] /\ Place(r)' = Place(r)
    <3>1. CASE Step(Primary, "opened")
      BY <3>1, <2>1, Moves DEF Step
    <3>2. ASSUME NEW what, Raise(Primary, what)
          PROVE  /\ Place(Primary)' = "raised"
                 /\ \A r \in Ranks \ {Primary} : pc'[r] = pc[r] /\ Place(r)' = Place(r)
      BY <2>1, <3>2, RaiseMoves
    <3> HIDE DEF Step, Raise, Place
    <3> QED  BY <1>19, <3>1, <3>2 DEF OpenScratch
  <2>3. UNCHANGED <<batch, served>>
    BY <1>19 DEF OpenScratch, Seal
  <2>4. Committed' = Committed
    BY <1>19 DEF OpenScratch, Committed
  <2> HIDE DEF Place, Control
  <2> QED
    BY <2>1, <2>2, <2>3, <2>4 DEF Publishes, InSave, CheckpointWasServed
<1>20. CASE MakeArtifact
  <2>1. pc[Primary] = "artifact" /\ next[Primary] = "wait" /\ Place(Primary) = "artifact"
    BY <1>20, LocalPlace DEF MakeArtifact
  <2>2. /\ Place(Primary)' \in {"begin"}
        /\ \A r \in Ranks \ {Primary} : pc'[r] = pc[r] /\ Place(r)' = Place(r)
    BY <1>20, <2>1, Moves DEF MakeArtifact, Place
  <2>3. UNCHANGED <<batch, served>>
    BY <1>20 DEF MakeArtifact, Seal
  <2>4. Committed' = Committed
    BY <1>20 DEF MakeArtifact, Committed
  <2> HIDE DEF Place, Control
  <2> QED
    BY <2>1, <2>2, <2>3, <2>4 DEF Publishes, InSave, CheckpointWasServed
<1>21. CASE RemoveArtifact
  <2>1. pc[Primary] = "remove" /\ next[Primary] = "wait" /\ Place(Primary) = "remove"
    BY <1>21, LocalPlace DEF RemoveArtifact
  <2>2. /\ Place(Primary)' \in {"removed"}
        /\ \A r \in Ranks \ {Primary} : pc'[r] = pc[r] /\ Place(r)' = Place(r)
    BY <1>21, <2>1, Moves DEF RemoveArtifact, Place
  <2>3. UNCHANGED <<batch, served>>
    BY <1>21 DEF RemoveArtifact, Seal
  <2>4. Committed' = Committed
    BY <1>21 DEF RemoveArtifact, Committed
  <2> HIDE DEF Place, Control
  <2> QED
    BY <2>1, <2>2, <2>3, <2>4 DEF Publishes, CheckpointWasServed
<1>22. CASE SealState
  <2>1. pc[Primary] = "state" /\ next[Primary] = "wait" /\ Place(Primary) = "state"
    BY <1>22, LocalPlace DEF SealState
  <2>2. /\ Place(Primary)' \in {"commit"}
        /\ \A r \in Ranks \ {Primary} : pc'[r] = pc[r] /\ Place(r)' = Place(r)
    BY <1>22, <2>1, Moves DEF SealState, Place
  <2>3. UNCHANGED <<batch, served>>
    BY <1>22 DEF SealState, Seal
  <2>4. Committed' = Committed
    BY <1>22 DEF SealState, Committed
  <2> HIDE DEF Place, Control
  <2> QED
    BY <2>1, <2>2, <2>3, <2>4 DEF Publishes, InSave, CheckpointWasServed
<1>23. CASE SealCommit
  <2>1. pc[Primary] = "commit" /\ next[Primary] = "wait" /\ Place(Primary) = "commit"
    BY <1>23, LocalPlace DEF SealCommit
  <2>2. /\ Place(Primary)' \in {"replace"}
        /\ \A r \in Ranks \ {Primary} : pc'[r] = pc[r] /\ Place(r)' = Place(r)
    BY <1>23, <2>1, Moves DEF SealCommit, Place
  <2>3. UNCHANGED <<batch, served>>
    BY <1>23 DEF SealCommit, Seal
  <2>4. Committed' = Committed
    BY <1>23 DEF SealCommit, Committed
  <2> HIDE DEF Place, Control
  <2> QED
    BY <2>1, <2>2, <2>3, <2>4 DEF Publishes, InSave, CheckpointWasServed
<1>24. CASE Replace
  <2>1. pc[Primary] = "replace" /\ next[Primary] = "wait" /\ Place(Primary) = "replace"
    BY <1>24, LocalPlace DEF Replace
  <2>2. /\ Place(Primary)' \in {"saved"}
        /\ \A r \in Ranks \ {Primary} : pc'[r] = pc[r] /\ Place(r)' = Place(r)
    BY <1>24, <2>1, Moves DEF Replace, Place
  <2>3. UNCHANGED <<batch, served>>
    BY <1>24 DEF Replace, Seal
  <2>4. Committed' \subseteq Committed \cup {batch[Primary]}
    BY <1>24 DEF Replace, Committed
  <2>5. batch[Primary] \in Nat
    BY DEF TypeOK
  <2> HIDE DEF Place, Control
  <2> QED
    BY <2>1, <2>2, <2>3, <2>4, <2>5 DEF Publishes, InSave, CheckpointWasServed
<1>25. CASE RemoveScratch
  <2>1. pc[Primary] = "rmdir" /\ next[Primary] = "wait" /\ Place(Primary) = "rmdir"
    BY <1>25, LocalPlace DEF RemoveScratch
  <2>2. /\ Place(Primary)' \in {"left", "raised"}
        /\ \A r \in Ranks \ {Primary} : pc'[r] = pc[r] /\ Place(r)' = Place(r)
    <3>1. CASE Step(Primary, "left")
      BY <3>1, <2>1, Moves DEF Step
    <3>2. ASSUME NEW what, Raise(Primary, what)
          PROVE  /\ Place(Primary)' = "raised"
                 /\ \A r \in Ranks \ {Primary} : pc'[r] = pc[r] /\ Place(r)' = Place(r)
      BY <2>1, <3>2, RaiseMoves
    <3> HIDE DEF Step, Raise, Place
    <3> QED  BY <1>25, <3>1, <3>2 DEF RemoveScratch
  <2>3. UNCHANGED <<batch, served>>
    BY <1>25 DEF RemoveScratch, Seal
  <2>4. Committed' = Committed
    BY <1>25 DEF RemoveScratch, Committed
  <2> HIDE DEF Place, Control
  <2> QED
    BY <2>1, <2>2, <2>3, <2>4 DEF Publishes, InSave, CheckpointWasServed
<1>26. CASE RecordFinalState
  <2>1. pc[Primary] = "record" /\ next[Primary] = "wait" /\ Place(Primary) = "record"
    BY <1>26, LocalPlace DEF RecordFinalState
  <2>2. /\ Place(Primary)' \in {"recorded"}
        /\ \A r \in Ranks \ {Primary} : pc'[r] = pc[r] /\ Place(r)' = Place(r)
    BY <1>26, <2>1, Moves DEF RecordFinalState, Place
  <2>3. UNCHANGED <<batch, served>>
    BY <1>26 DEF RecordFinalState, Seal
  <2>4. Committed' = Committed
    BY <1>26 DEF RecordFinalState, Committed
  <2> HIDE DEF Place, Control
  <2> QED
    BY <2>1, <2>2, <2>3, <2>4 DEF Publishes, InSave, CheckpointWasServed
<1>27. ASSUME NEW p \in Ranks, Leave(p) PROVE Publishes'
  BY <1>27 DEF Leave, Publishes, CheckpointWasServed, Committed, TypeOK
<1>28. ASSUME NEW p \in Ranks, WriteShard(p) PROVE Publishes'
  <2>1. /\ next[p] = "wait" /\ Place(p) = "shard" /\ pc'[p] \in {"written", "reward"}
        /\ Place(p)' \in {"written", "reward"}
        /\ \A r \in Ranks \ {p} : pc'[r] = pc[r] /\ Place(r)' = Place(r)
    BY <1>28, LocalPlace, Moves DEF WriteShard
  <2>2. UNCHANGED <<batch, served>> /\ Committed' = Committed
    BY <1>28 DEF WriteShard, Committed
  <2> HIDE DEF Place, Control
  <2> QED
    BY <2>1, <2>2 DEF Publishes, InSave, CheckpointWasServed
<1>29. ASSUME NEW p \in Ranks, FailAlone(p) PROVE Publishes'
  BY <1>29 DEF FailAlone, Publishes, InSave, CheckpointWasServed, Committed
<1>30. ASSUME NEW p \in Ranks, Die(p) PROVE Publishes'
  BY <1>30 DEF Die, Publishes, InSave, CheckpointWasServed, Committed, TypeOK
<1>31. ASSUME NEW p \in Ranks, NcclTimeout(p) PROVE Publishes'
  BY <1>31 DEF NcclTimeout, Publishes, InSave, CheckpointWasServed, Committed, TypeOK
<1>32. CASE Restart
  BY <1>32 DEF Restart, Publishes, InSave, CheckpointWasServed, Committed
<1>33. CASE UNCHANGED vars
  BY <1>33 DEF vars, Publishes, CheckpointWasServed, Committed
<1>34. CASE FileError
  <2>1. /\ Place(Primary)' \in {"reward", "raised"}
        /\ UNCHANGED <<batch, checkpoint, served>>
    BY <1>34, FileErrorMoves
  <2> HIDE DEF Place, Control
  <2> QED  BY <2>1 DEF Publishes, InSave, CheckpointWasServed, Committed
<1>35. QED
  BY <1>1, <1>2, <1>3, <1>4, <1>5, <1>6, <1>7, <1>8, <1>9, <1>10, <1>11, <1>12, <1>13, <1>14,
     <1>15, <1>16, <1>17, <1>18, <1>19, <1>20, <1>21, <1>22, <1>23, <1>24, <1>25, <1>26, <1>27,
     <1>28, <1>29, <1>30, <1>31, <1>32, <1>33, <1>34 DEF Next, CollectiveStep, PrimaryStep

\* One step per action: the scratch area holds what its batch needs and no more.
LEMMA ScratchesStep ==
  ASSUME TypeOK, Control, Publishes, Scratches, [Next]_vars
  PROVE  Scratches'
<1> USE RunAssumption DEF Place, Save, Seal, Steps, Collectives, Opening, InBatch, Saving, Cleanup,
        Closing, Local, Exits, AllAt, AllGo, Split, Step, AllRaise, Raise, AllUnwind, Unwind,
        files, excs
<1>1. CASE Discover
  BY <1>1 DEF Discover, Scratches, InSave, Between, Within, Committed
<1>2. CASE ReadStatuses
  BY <1>2 DEF ReadStatuses, Scratches, InSave, Between, Within, Committed
<1>3. CASE PublishInitial
  BY <1>3 DEF PublishInitial, Scratches, InSave, Between, Within, Committed
<1>4. CASE Opened
  BY <1>4 DEF Opened, Scratches, Between, Within
<1>5. CASE Begin
  BY <1>5 DEF Begin, Scratches, InSave, Between, Within, Control
<1>6. CASE Work
  BY <1>6 DEF Work, Scratches, InSave, Between, Within
<1>7. CASE Publish
  BY <1>7 DEF Publish, Scratches, InSave, Between, Within
<1>8. CASE Collected
  BY <1>8 DEF Collected, Scratches, InSave, Between, Within
<1>9. CASE Removed
  BY <1>9 DEF Removed, Scratches, Between, Within, NextBatch
<1>10. CASE PrepareSave
  BY <1>10 DEF PrepareSave, Scratches, InSave, Between, Within
<1>11. CASE Written
  BY <1>11 DEF Written, Scratches, InSave, Between, Within
<1>12. CASE Saved
  BY <1>12 DEF Saved, Scratches, InSave, Between, Within, Committed, Recognised, Residue, Occupied,
     ClosedRun, TypeOK, NextBatch, Control, Released, Abreast, Deserts, Ahead, Thrown
<1>13. CASE ClosePublisher
  BY <1>13 DEF ClosePublisher, Scratches, InSave, Between, Within, Committed, Recognised, Residue,
     Occupied, ClosedRun, TypeOK, NextBatch, Control, Released, Abreast, Deserts, Ahead, Thrown
<1>14. CASE CloseReward
  BY <1>14 DEF CloseReward, Scratches, InSave, Between, Within, Committed, Recognised, Residue,
     Occupied, ClosedRun, TypeOK, NextBatch, Control, Released, Abreast, Deserts, Ahead, Thrown
<1>15. CASE Ended
  BY <1>15 DEF Ended, Scratches, InSave, Between, Within, Committed, Recognised, Residue, Occupied,
     ClosedRun, TypeOK, NextBatch, Control, Released, Abreast, Deserts, Ahead, Thrown
<1>16. CASE Left
  BY <1>16 DEF Left, Scratches, InSave, Between, Within, Committed, Recognised, Residue, Occupied,
     ClosedRun, TypeOK, NextBatch, Control, Released, Abreast, Deserts, Ahead, Thrown
<1>17. CASE CloseRun
  BY <1>17 DEF CloseRun, Scratches, InSave, Between, Within, Committed, Recognised, Residue,
     Occupied, ClosedRun, TypeOK, NextBatch, Control, Released, Abreast, Deserts, Ahead, Thrown
<1>18. CASE Recorded
  BY <1>18 DEF Recorded, Scratches, InSave, Between, Within, Committed, Recognised, Residue,
     Occupied, ClosedRun, TypeOK, NextBatch, Control, Released, Abreast, Deserts, Ahead, Thrown
<1>19. CASE OpenScratch
  <2>1. pc[Primary] = "open" /\ next[Primary] = "wait" /\ Place(Primary) = "open"
    BY <1>19, LocalPlace DEF OpenScratch
  <2>2. /\ Place(Primary)' \in {"opened", "raised"}
        /\ \A r \in Ranks \ {Primary} : pc'[r] = pc[r] /\ Place(r)' = Place(r)
    <3>1. CASE Step(Primary, "opened")
      BY <3>1, <2>1, Moves DEF Step
    <3>2. ASSUME NEW what, Raise(Primary, what)
          PROVE  /\ Place(Primary)' = "raised"
                 /\ \A r \in Ranks \ {Primary} : pc'[r] = pc[r] /\ Place(r)' = Place(r)
      BY <2>1, <3>2, RaiseMoves
    <3> HIDE DEF Step, Raise, Place
    <3> QED  BY <1>19, <3>1, <3>2 DEF OpenScratch
  <2>3. \A r \in Ranks : /\ pc'[r] \notin {"work", "publish"}
                        /\ Place(r)' \notin {"work", "publish"}
    <3>1. \A r \in Ranks \ {Primary} :
            pc[r] \notin {"work", "publish"} /\ Place(r) \notin {"work", "publish"}
      BY <2>1, NoneWorks
    <3>2. pc'[Primary] \notin {"work", "publish"}
      BY <1>19, <2>1 DEF OpenScratch, TypeOK
    <3> HIDE DEF Place
    <3> QED  BY <2>2, <3>1, <3>2
  <2>4. UNCHANGED <<batch, artifacts, finalState>>
    BY <1>19 DEF OpenScratch
  <2>5. Committed' = Committed
    BY <1>19 DEF OpenScratch, Committed
  <2>6. CASE scratch
    <3>1. scratch' /\ Place(Primary)' = "raised"
      BY <1>19, <2>1, <2>6, RaiseMoves DEF OpenScratch
    <3> HIDE DEF Place, Control
    <3> QED  BY <2>1, <2>3, <2>4, <2>5, <2>6, <3>1 DEF Scratches, InSave, Between, Within
  <2>7. CASE ~scratch
    <3>1. scratch' /\ artifacts = {} /\ ~finalState
      BY <1>19, <2>1, <2>7, Batches \in Steps DEF OpenScratch, Scratches, Publishes
    <3> HIDE DEF Place, Control
    <3> QED  BY <2>1, <2>2, <2>3, <2>4, <3>1 DEF Scratches, InSave, Between, Within
  <2> QED  BY <2>6, <2>7
<1>20. CASE MakeArtifact
  <2>1. pc[Primary] = "artifact" /\ next[Primary] = "wait" /\ Place(Primary) = "artifact"
    BY <1>20, LocalPlace DEF MakeArtifact
  <2>2. /\ Place(Primary)' \in {"begin"}
        /\ \A r \in Ranks \ {Primary} : pc'[r] = pc[r] /\ Place(r)' = Place(r)
    BY <1>20, <2>1, Moves DEF MakeArtifact, Place
  <2>3. \A r \in Ranks : /\ pc'[r] \notin {"work", "publish"}
                        /\ Place(r)' \notin {"work", "publish"}
    <3>1. \A r \in Ranks \ {Primary} :
            pc[r] \notin {"work", "publish"} /\ Place(r) \notin {"work", "publish"}
      BY <2>1, NoneWorks
    <3>2. pc'[Primary] \notin {"work", "publish"}
      BY <1>20, <2>1 DEF MakeArtifact, TypeOK
    <3> HIDE DEF Place
    <3> QED  BY <2>2, <3>1, <3>2
  <2>4. UNCHANGED <<batch, scratch, finalState>>
    BY <1>20 DEF MakeArtifact
  <2>5. Committed' = Committed
    BY <1>20 DEF MakeArtifact, Committed
  <2>6. artifacts' = artifacts \cup {batch[Primary]}
    BY <1>20 DEF MakeArtifact
  <2> HIDE DEF Place, Control
  <2> QED
    BY <2>1, <2>2, <2>3, <2>4, <2>5, <2>6 DEF Scratches, InSave, Between, Within
<1>21. CASE RemoveArtifact
  <2>1. pc[Primary] = "remove" /\ next[Primary] = "wait" /\ Place(Primary) = "remove"
    BY <1>21, LocalPlace DEF RemoveArtifact
  <2>2. /\ Place(Primary)' \in {"removed"}
        /\ \A r \in Ranks \ {Primary} : pc'[r] = pc[r] /\ Place(r)' = Place(r)
    BY <1>21, <2>1, Moves DEF RemoveArtifact, Place
  <2>3. \A r \in Ranks : /\ pc'[r] \notin {"work", "publish"}
                        /\ Place(r)' \notin {"work", "publish"}
    <3>1. \A r \in Ranks \ {Primary} :
            pc[r] \notin {"work", "publish"} /\ Place(r) \notin {"work", "publish"}
      BY <2>1, NoneWorks
    <3>2. pc'[Primary] \notin {"work", "publish"}
      BY <1>21, <2>1 DEF RemoveArtifact, TypeOK
    <3> HIDE DEF Place
    <3> QED  BY <2>2, <3>1, <3>2
  <2>4. UNCHANGED <<batch, scratch, finalState>>
    BY <1>21 DEF RemoveArtifact
  <2>5. Committed' = Committed
    BY <1>21 DEF RemoveArtifact, Committed
  <2>6. artifacts' = artifacts \ {batch[Primary]}
    BY <1>21 DEF RemoveArtifact
  <2> HIDE DEF Place, Control
  <2> QED
    BY <2>1, <2>2, <2>3, <2>4, <2>5, <2>6 DEF Scratches, InSave, Between, Within
<1>22. CASE SealState
  <2>1. pc[Primary] = "state" /\ next[Primary] = "wait" /\ Place(Primary) = "state"
    BY <1>22, LocalPlace DEF SealState
  <2>2. /\ Place(Primary)' \in {"commit"}
        /\ \A r \in Ranks \ {Primary} : pc'[r] = pc[r] /\ Place(r)' = Place(r)
    BY <1>22, <2>1, Moves DEF SealState, Place
  <2>3. \A r \in Ranks : /\ pc'[r] \notin {"work", "publish"}
                        /\ Place(r)' \notin {"work", "publish"}
    <3>1. \A r \in Ranks \ {Primary} :
            pc[r] \notin {"work", "publish"} /\ Place(r) \notin {"work", "publish"}
      BY <2>1, NoneWorks
    <3>2. pc'[Primary] \notin {"work", "publish"}
      BY <1>22, <2>1 DEF SealState, TypeOK
    <3> HIDE DEF Place
    <3> QED  BY <2>2, <3>1, <3>2
  <2>4. UNCHANGED <<batch, scratch, artifacts, finalState>>
    BY <1>22 DEF SealState
  <2>5. Committed' = Committed
    BY <1>22 DEF SealState, Committed
  <2> HIDE DEF Place, Control
  <2> QED
    BY <2>1, <2>2, <2>3, <2>4, <2>5 DEF Scratches, InSave, Between, Within
<1>23. CASE SealCommit
  <2>1. pc[Primary] = "commit" /\ next[Primary] = "wait" /\ Place(Primary) = "commit"
    BY <1>23, LocalPlace DEF SealCommit
  <2>2. /\ Place(Primary)' \in {"replace"}
        /\ \A r \in Ranks \ {Primary} : pc'[r] = pc[r] /\ Place(r)' = Place(r)
    BY <1>23, <2>1, Moves DEF SealCommit, Place
  <2>3. \A r \in Ranks : /\ pc'[r] \notin {"work", "publish"}
                        /\ Place(r)' \notin {"work", "publish"}
    <3>1. \A r \in Ranks \ {Primary} :
            pc[r] \notin {"work", "publish"} /\ Place(r) \notin {"work", "publish"}
      BY <2>1, NoneWorks
    <3>2. pc'[Primary] \notin {"work", "publish"}
      BY <1>23, <2>1 DEF SealCommit, TypeOK
    <3> HIDE DEF Place
    <3> QED  BY <2>2, <3>1, <3>2
  <2>4. UNCHANGED <<batch, scratch, artifacts, finalState>>
    BY <1>23 DEF SealCommit
  <2>5. Committed' = Committed
    BY <1>23 DEF SealCommit, Committed
  <2> HIDE DEF Place, Control
  <2> QED
    BY <2>1, <2>2, <2>3, <2>4, <2>5 DEF Scratches, InSave, Between, Within
<1>24. CASE Replace
  <2>1. pc[Primary] = "replace" /\ next[Primary] = "wait" /\ Place(Primary) = "replace"
    BY <1>24, LocalPlace DEF Replace
  <2>2. /\ Place(Primary)' \in {"saved"}
        /\ \A r \in Ranks \ {Primary} : pc'[r] = pc[r] /\ Place(r)' = Place(r)
    BY <1>24, <2>1, Moves DEF Replace, Place
  <2>3. \A r \in Ranks : /\ pc'[r] \notin {"work", "publish"}
                        /\ Place(r)' \notin {"work", "publish"}
    <3>1. \A r \in Ranks \ {Primary} :
            pc[r] \notin {"work", "publish"} /\ Place(r) \notin {"work", "publish"}
      BY <2>1, NoneWorks
    <3>2. pc'[Primary] \notin {"work", "publish"}
      BY <1>24, <2>1 DEF Replace, TypeOK
    <3> HIDE DEF Place
    <3> QED  BY <2>2, <3>1, <3>2
  <2>4. UNCHANGED <<batch, scratch, artifacts, finalState>>
    BY <1>24 DEF Replace
  <2>5. Committed \subseteq Committed'
    BY <1>24 DEF Replace, Committed, TypeOK
  <2> HIDE DEF Place, Control
  <2> QED
    BY <2>1, <2>2, <2>3, <2>4, <2>5 DEF Scratches, InSave, Between, Within
<1>25. CASE RemoveScratch
  <2>1. pc[Primary] = "rmdir" /\ next[Primary] = "wait" /\ Place(Primary) = "rmdir"
    BY <1>25, LocalPlace DEF RemoveScratch
  <2>2. /\ Place(Primary)' \in {"left", "raised"}
        /\ \A r \in Ranks \ {Primary} : pc'[r] = pc[r] /\ Place(r)' = Place(r)
    <3>1. CASE Step(Primary, "left")
      BY <3>1, <2>1, Moves DEF Step
    <3>2. ASSUME NEW what, Raise(Primary, what)
          PROVE  /\ Place(Primary)' = "raised"
                 /\ \A r \in Ranks \ {Primary} : pc'[r] = pc[r] /\ Place(r)' = Place(r)
      BY <2>1, <3>2, RaiseMoves
    <3> HIDE DEF Step, Raise, Place
    <3> QED  BY <1>25, <3>1, <3>2 DEF RemoveScratch
  <2>3. \A r \in Ranks : /\ pc'[r] \notin {"work", "publish"}
                        /\ Place(r)' \notin {"work", "publish"}
    <3>1. \A r \in Ranks \ {Primary} :
            pc[r] \notin {"work", "publish"} /\ Place(r) \notin {"work", "publish"}
      BY <2>1, NoneWorks
    <3>2. pc'[Primary] \notin {"work", "publish"}
      BY <1>25, <2>1 DEF RemoveScratch, TypeOK
    <3> HIDE DEF Place
    <3> QED  BY <2>2, <3>1, <3>2
  <2>4. UNCHANGED <<batch, artifacts, finalState>>
    BY <1>25 DEF RemoveScratch
  <2>5. Committed' = Committed
    BY <1>25 DEF RemoveScratch, Committed
  <2>6. CASE artifacts = {}
    <3>1. ~scratch' /\ Place(Primary)' = "left"
      BY <1>25, <2>1, <2>6, Moves DEF RemoveScratch
    <3> HIDE DEF Place, Control
    <3> QED  BY <2>1, <2>3, <2>4, <2>5, <2>6, <3>1 DEF Scratches, InSave, Between, Within
  <2>7. CASE artifacts # {}
    <3>1. UNCHANGED scratch /\ Place(Primary)' = "raised"
      BY <1>25, <2>1, <2>7, RaiseMoves DEF RemoveScratch
    <3> HIDE DEF Place, Control
    <3> QED  BY <2>1, <2>3, <2>4, <2>5, <3>1 DEF Scratches, InSave, Between, Within
  <2> QED  BY <2>6, <2>7
<1>26. CASE RecordFinalState
  <2>1. pc[Primary] = "record" /\ next[Primary] = "wait" /\ Place(Primary) = "record"
    BY <1>26, LocalPlace DEF RecordFinalState
  <2>2. /\ Place(Primary)' \in {"recorded"}
        /\ \A r \in Ranks \ {Primary} : pc'[r] = pc[r] /\ Place(r)' = Place(r)
    BY <1>26, <2>1, Moves DEF RecordFinalState, Place
  <2>3. \A r \in Ranks : /\ pc'[r] \notin {"work", "publish"}
                        /\ Place(r)' \notin {"work", "publish"}
    <3>1. \A r \in Ranks \ {Primary} :
            pc[r] \notin {"work", "publish"} /\ Place(r) \notin {"work", "publish"}
      BY <2>1, NoneWorks
    <3>2. pc'[Primary] \notin {"work", "publish"}
      BY <1>26, <2>1 DEF RecordFinalState, TypeOK
    <3> HIDE DEF Place
    <3> QED  BY <2>2, <3>1, <3>2
  <2>4. UNCHANGED <<batch, scratch, artifacts>>
    BY <1>26 DEF RecordFinalState
  <2>5. Committed' = Committed
    BY <1>26 DEF RecordFinalState, Committed
  <2> HIDE DEF Place, Control
  <2> QED
    BY <2>1, <2>2, <2>3, <2>4, <2>5 DEF Scratches, InSave, Between, Within
<1>27. ASSUME NEW p \in Ranks, Leave(p) PROVE Scratches'
  BY <1>27 DEF Leave, Scratches, InSave, Between, Within, Committed, Recognised, Residue, Occupied,
     ClosedRun, TypeOK, NextBatch, Control, Released, Abreast, Deserts, Ahead, Thrown
<1>28. ASSUME NEW p \in Ranks, WriteShard(p) PROVE Scratches'
  <2>1. /\ next[p] = "wait" /\ Place(p) = "shard" /\ pc'[p] \in {"written", "reward"}
        /\ Place(p)' \in {"written", "reward"}
        /\ \A r \in Ranks \ {p} : pc'[r] = pc[r] /\ Place(r)' = Place(r)
    BY <1>28, LocalPlace, Moves DEF WriteShard
  <2>2. UNCHANGED <<batch, scratch, artifacts, finalState>> /\ Committed' = Committed
    BY <1>28 DEF WriteShard, Committed
  <2> HIDE DEF Place, Control
  <2> QED
    BY <2>1, <2>2 DEF Scratches, InSave, Between, Within
<1>29. ASSUME NEW p \in Ranks, FailAlone(p) PROVE Scratches'
  BY <1>29 DEF FailAlone, Scratches, InSave, Between, Within, Committed, Recognised, Residue,
     Occupied, ClosedRun, TypeOK, NextBatch, Control, Released, Abreast, Deserts, Ahead, Thrown
<1>30. ASSUME NEW p \in Ranks, Die(p) PROVE Scratches'
  BY <1>30 DEF Die, Scratches, InSave, Between, Within, Committed, Recognised, Residue, Occupied,
     ClosedRun, TypeOK, NextBatch, Control, Released, Abreast, Deserts, Ahead, Thrown
<1>31. ASSUME NEW p \in Ranks, NcclTimeout(p) PROVE Scratches'
  BY <1>31 DEF NcclTimeout, Scratches, InSave, Between, Within, Committed, Recognised, Residue,
     Occupied, ClosedRun, TypeOK, NextBatch, Control, Released, Abreast, Deserts, Ahead, Thrown
<1>32. CASE Restart
  BY <1>32 DEF Restart, Scratches, InSave, Between, Within, Committed, Recognised, Residue,
     Occupied, ClosedRun, TypeOK, NextBatch, Control, Released, Abreast, Deserts, Ahead, Thrown
<1>33. CASE UNCHANGED vars
  BY <1>33 DEF vars, Scratches, InSave, Between, Within, Committed, Recognised, Residue, Occupied,
     ClosedRun, TypeOK, NextBatch, Control, Released, Abreast, Deserts, Ahead, Thrown
<1>34. CASE FileError
  <2>1. /\ Place(Primary)' \in {"reward", "raised"} /\ pc'[Primary] \in {"reward", "raised"}
        /\ \A r \in Ranks \ {Primary} : pc'[r] = pc[r] /\ Place(r)' = Place(r)
        /\ UNCHANGED <<batch, scratch, artifacts, checkpoint, finalState>>
    BY <1>34, FileErrorMoves
  <2> HIDE DEF Place, Control
  <2> QED  BY <2>1 DEF Scratches, InSave, Between, Within, Committed
<1>35. QED
  BY <1>1, <1>2, <1>3, <1>4, <1>5, <1>6, <1>7, <1>8, <1>9, <1>10, <1>11, <1>12, <1>13, <1>14,
     <1>15, <1>16, <1>17, <1>18, <1>19, <1>20, <1>21, <1>22, <1>23, <1>24, <1>25, <1>26, <1>27,
     <1>28, <1>29, <1>30, <1>31, <1>32, <1>33, <1>34 DEF Next, CollectiveStep, PrimaryStep

-----------------------------------------------------------------------------
\* Theorems

\* The inductive invariant holds of every run of the run directory (trainer.py
\* 1522-1761).
THEOREM RunInvariant == Spec => []IInv
<1>1. ASSUME Init
      PROVE  IInv
  <2> USE <1>1, RunAssumption DEF Init
  <2>1. TypeOK
    <3>1. 1 \in Steps /\ -1 \in -1 .. Batches
      BY DEF Steps
    <3>2. "discover" \in Collectives /\ "none" \in Causes
      BY DEF Collectives, Opening, Causes
    <3> QED  BY <3>1, <3>2 DEF TypeOK
  <2>2. \A r \in Ranks : Place(r) = "discover"
    BY DEF Place
  <2>3. Control
    BY <2>2 DEF Control, Abreast, Deserts, Released
  <2>4. Saves
    BY <2>2 DEF Saves, CommittedIsWhole, Committed
  <2>5. Publishes
    BY <2>2 DEF Publishes, InSave, CheckpointWasServed, Committed
  <2>6. Scratches
    BY <2>2 DEF Scratches, InSave, Between, Within
  <2> QED
    BY <2>1, <2>3, <2>4, <2>5, <2>6 DEF IInv
<1>2. IInv /\ [Next]_vars => IInv'
  BY TypeStep, ControlStep, SavesStep, PublishesStep, ScratchesStep DEF IInv
<1> QED
  BY <1>1, <1>2, PTL DEF Spec

\* Every variable keeps its type.
THEOREM RunTypeOK == Spec => []TypeOK
<1>1. IInv => TypeOK
  BY DEF IInv
<1> QED
  BY <1>1, RunInvariant, PTL

\* A checkpoint under its final name holds every rank's shard and both of its other
\* files, whatever ranks fail and die during saves (save_checkpoint).
THEOREM RunCommittedIsWhole == Spec => []CommittedIsWhole
<1>1. IInv => CommittedIsWhole
  BY DEF IInv, Saves
<1> QED
  BY <1>1, RunInvariant, PTL

\* No checkpoint is ahead of the policy the serving set was last given
\* (run_training_loop).
THEOREM RunCheckpointWasServed == Spec => []CheckpointWasServed
<1>1. IInv => CheckpointWasServed
  BY DEF IInv, Publishes
<1> QED
  BY <1>1, RunInvariant, PTL

\* A batch's files stay until every rank has left the batch (the barrier before
\* their removal in run_training_loop).
THEOREM RunArtifactsInUse == Spec => []ArtifactsInUse
<1>1. IInv => ArtifactsInUse
  BY DEF IInv, Scratches, ArtifactsInUse
<1> QED
  BY <1>1, RunInvariant, PTL

\* final_state.json is written only over a whole last checkpoint and a removed
\* scratch area (_run_plan).
THEOREM RunFinalStateCloses == Spec => []FinalStateCloses
<1>1. IInv => FinalStateCloses
  BY DEF IInv, Saves, Scratches, FinalStateCloses, CommittedIsWhole
<1> QED
  BY <1>1, RunInvariant, PTL

\* Ranks that wait without a failure wait in the same collective of the same batch.
THEOREM RunLockstep == Spec => []Lockstep
<1>1. IInv => Lockstep
  <2> SUFFICES ASSUME IInv, \A r \in Ranks : Live(r) /\ cause[r] = "none",
                      NEW r \in Ranks, NEW q \in Ranks, Waiting(r), Waiting(q)
               PROVE  pc[r] = pc[q] /\ batch[r] = batch[q]
    BY DEF Lockstep
  <2>1. Place(r) = pc[r] /\ Place(q) = pc[q] /\ pc[r] \notin Exits /\ pc[q] \notin Exits
    BY DEF Waiting, Live, Place
  <2>2. Ahead(pc[r]) = pc[r] /\ Ahead(pc[q]) = pc[q]
    BY DEF Waiting, Ahead, Collectives, Opening, InBatch, Saving, Cleanup, Closing
  <2>3. Abreast(r, q) /\ batch[r] = batch[q]
    BY DEF IInv, Control
  <2> QED
    BY <2>1, <2>2, <2>3 DEF Abreast, Deserts, Thrown
<1> QED
  BY <1>1, RunInvariant, PTL

=============================================================================
