---------------------- MODULE WeightPublicationProofs ----------------------
(***************************************************************************)
(* Proofs about WeightPublication, for any number of replicas, runs,       *)
(* publications and relaunches.                                            *)
(*                                                                         *)
(* A replica is Live when it serves, or when it holds weights that a       *)
(* commit would make it serve.  The argument is that Live replicas always  *)
(* agree (Agreement).  A publication reaches the transfer stage only after *)
(* every replica was paused with nothing pending, so that nothing is Live  *)
(* but what this transfer delivers (Transferring); a relaunch breaks that, *)
(* but also takes the replica out of the trainer's NCCL groups.  The rest  *)
(* of the invariant says what is left of requests that timed out: an       *)
(* update still to be served keeps its replica silent, and so keeps the    *)
(* next trainer from being admitted (Outstanding).                         *)
(***************************************************************************)
EXTENDS WeightPublication, TLAPS

Live(r) == ~paused[r] \/ pending[r] # None

\* An update nobody waits for, on a replica that is still in its group.
LateUpdate(u) == u.kind = "update" /\ group[u.to] = u.run

WeightsOf(u) == [run |-> u.run, policy |-> u.policy]

\* Live weights are whole and carry their own name.
Whole ==
  \A r \in Replicas :
    /\ Live(r) => tensors[r] \in Weights
    /\ ~paused[r] => pending[r] = None /\ active[r] = tensors[r].policy
    /\ pending[r] # None => pending[r] = tensors[r].policy

Agreement == \A r, q \in Replicas : Live(r) /\ Live(q) => tensors[r] = tensors[q]

Counters ==
  /\ stage # "down" => policy >= 1
  /\ stage = "rollout" => policy < LastPolicy
  /\ stage \in {"transfer", "commit", "verify", "rollout"} => initialized
  /\ stage = "status" => \A r \in Replicas : group[r] # run
  /\ \A r \in Replicas : group[r] # None => group[r] <= run
  /\ \A u \in late : /\ u.run <= run
                     /\ u.kind = "update" /\ stage = "status" => u.run < run
                     /\ u.kind = "update" /\ stage = "prepare" /\ ~initialized => u.run < run

\* A stable status was read of a replica that stays without pending version.
Stable ==
  /\ stage \in {"status", "verify"} =>
       \A r \in Replicas : call[r] = "ok" /\ seen[r] # None => pending[r] = None
  /\ stage \in {"prepare", "rollout"} => \A r \in Replicas : pending[r] = None

\* What an answered prepare request leaves true.
Preparing ==
  stage = "prepare" =>
    /\ \A r \in Replicas : call[r] = "ok" => paused[r] \/ tensors[r] = Base
    /\ \A r, q \in Replicas :
         group[r] = run /\ (~initialized \/ call[q] = "ok") => paused[q]

Transferring ==
  stage = "transfer" =>
    \A r \in Replicas : group[r] = run =>
      /\ call[r] = "sent" => ~Live(r)
      /\ \A q \in Replicas : Live(q) => tensors[q] = Current

Exposing ==
  stage \in {"transfer", "commit", "verify", "rollout"} =>
    \A r \in Replicas : Live(r) => tensors[r] \in {Current, Base}

Outstanding ==
  \A u \in late : LateUpdate(u) =>
    /\ ~Live(u.to)
    /\ stage \in {"transfer", "repause", "down", "status"}
    /\ stage = "transfer" => u.run = run /\ u.policy = policy /\ call[u.to] = "failed"
    /\ stage = "status" /\ call[u.to] = "ok" => seen[u.to] = None
    /\ \A q \in Replicas : Live(q) => tensors[q] = WeightsOf(u)
    /\ \A v \in late : LateUpdate(v) => WeightsOf(v) = WeightsOf(u)

IInv ==
  /\ TypeOK
  /\ Whole
  /\ Agreement
  /\ Counters
  /\ Stable
  /\ Preparing
  /\ Transferring
  /\ Exposing
  /\ Outstanding
  /\ OnPolicy

\* The stages in which each kind of request is outstanding.
LEMMA AskedStage ==
  ASSUME TypeOK
  PROVE  \A r \in Replicas : \A k :
           Asked(k, r) =>
             /\ call[r] = "sent"
             /\ k = "init" => stage = "prepare" /\ ~initialized
             /\ k = "pause" => stage \in {"prepare", "repause"}
             /\ k = "update" => stage = "transfer"
             /\ k = "commit" => stage = "commit"
             /\ k = "status" => stage \in {"status", "verify"}
             /\ k = "rollout" => stage = "rollout"
             /\ k = "destroy" => stage = "close"
  BY DEF Asked, Waiting, KindOf, TypeOK, Stages

\* What a request left behind in a stage looks like.
LEMMA AbandonedRequests ==
  ASSUME TypeOK, stage # "down", NEW S \in SUBSET Replicas
  PROVE  \A u \in Abandoned(S) :
           /\ u \in Requests
           /\ u.run = run /\ u.policy = policy
           /\ u.to \in S /\ call[u.to] = "sent"
           /\ u.kind = "update" => stage = "transfer"
  BY DEF Abandoned, RequestTo, Waiting, KindOf, Requests, Controls, TypeOK, Stages

\* Requests are told apart by their fields.
LEMMA RequestFields ==
  ASSUME NEW u \in Requests, NEW v \in Requests,
         u.kind = v.kind, u.to = v.to, WeightsOf(u) = WeightsOf(v)
  PROVE  u = v
  BY DEF Requests, WeightsOf

\* A paused replica is Live only if a version is pending on it.
LEMMA PauseReplicaKeepsIInv ==
  ASSUME IInv, NEW r \in Replicas, PauseReplica(r)
  PROVE  IInv'
<1>1. /\ stage \in {"prepare", "repause"}
      /\ call[r] = "sent"
      /\ paused' = [paused EXCEPT ![r] = TRUE]
      /\ call' = [call EXCEPT ![r] = "ok"]
      /\ UNCHANGED <<active, pending, tensors, group, stage, run, policy,
                     initialized, seen, outcome, before, sampled, late,
                     relaunches>>
  BY AskedStage DEF IInv, PauseReplica, Pauses, Answer, trainerVars
<1>2. TypeOK'
  BY <1>1 DEF IInv, TypeOK
<1>3. Whole'
  BY <1>1 DEF IInv, Whole, Live
<1>4. Agreement'
  BY <1>1 DEF IInv, Agreement, Live
<1>5. Stable'
  BY <1>1 DEF IInv, Stable
<1>6. Preparing'
  BY <1>1 DEF IInv, TypeOK, Preparing
<1>7. Transferring'
  BY <1>1 DEF IInv, Transferring
<1>8. Exposing'
  BY <1>1 DEF IInv, Exposing
<1>9. Outstanding'
  BY <1>1 DEF IInv, Outstanding, Live, LateUpdate
<1>10. Counters' /\ OnPolicy'
  BY <1>1 DEF IInv, Counters, OnPolicy, Current
<1>11. QED
  BY <1>2, <1>3, <1>4, <1>5, <1>6, <1>7, <1>8, <1>9, <1>10 DEF IInv

\* Group initialisation pauses the replica before the rendezvous.
LEMMA InitPausesKeepsIInv ==
  ASSUME IInv, NEW r \in Replicas, InitPauses(r)
  PROVE  IInv'
<1>1. /\ stage = "prepare"
      /\ ~initialized
      /\ paused' = [paused EXCEPT ![r] = TRUE]
      /\ UNCHANGED <<active, pending, tensors, group, stage, run, policy,
                     initialized, call, seen, outcome, before, sampled, late,
                     relaunches>>
  BY AskedStage DEF IInv, InitPauses, Pauses, trainerVars
<1>2. TypeOK'
  BY <1>1 DEF IInv, TypeOK
<1>3. Whole'
  BY <1>1 DEF IInv, Whole, Live
<1>4. Agreement'
  BY <1>1 DEF IInv, Agreement, Live
<1>5. Preparing'
  BY <1>1 DEF IInv, Preparing
<1>6. Transferring'
  BY <1>1 DEF IInv, Transferring
<1>7. Exposing'
  BY <1>1 DEF IInv, Exposing
<1>8. Outstanding'
  BY <1>1 DEF IInv, Outstanding, LateUpdate
<1>9. Counters' /\ Stable' /\ OnPolicy'
  BY <1>1 DEF IInv, Counters, Stable, OnPolicy, Current
<1>10. QED
  BY <1>2, <1>3, <1>4, <1>5, <1>6, <1>7, <1>8, <1>9 DEF IInv

\* The rendezvous completes on paused replicas only: what is in a group of this
\* run is silent.
LEMMA JoinGroupsKeepsIInv ==
  ASSUME IInv, JoinGroups
  PROVE  IInv'
<1>1. /\ stage = "prepare"
      /\ ~initialized
      /\ \A r \in Replicas : paused[r]
      /\ group' = [r \in Replicas |-> run]
      /\ UNCHANGED <<active, pending, paused, tensors, stage, run, policy,
                     initialized, call, seen, outcome, before, sampled, late,
                     relaunches>>
  BY AskedStage, ConstantsAssumption DEF IInv, JoinGroups, trainerVars
<1>2. TypeOK'
  BY <1>1 DEF IInv, TypeOK
<1>3. Counters'
  BY <1>1 DEF IInv, TypeOK, Counters, Runs
<1>4. Preparing'
  BY <1>1 DEF IInv, Preparing
<1>5. Transferring'
  BY <1>1 DEF IInv, Transferring
<1>6. Outstanding'
  BY <1>1 DEF IInv, TypeOK, Counters, Outstanding, LateUpdate, Runs, Requests
<1>7. Whole' /\ Agreement' /\ Stable' /\ Exposing' /\ OnPolicy'
  BY <1>1 DEF IInv, Whole, Agreement, Stable, Exposing, OnPolicy, Live, Current
<1>8. QED
  BY <1>2, <1>3, <1>4, <1>5, <1>6, <1>7 DEF IInv

\* The answer adds no more than the pause and the rendezvous left.
LEMMA AnswerInitKeepsIInv ==
  ASSUME IInv, NEW r \in Replicas, AnswerInit(r)
  PROVE  IInv'
<1>1. /\ stage = "prepare"
      /\ ~initialized
      /\ group[r] = run
      /\ call' = [call EXCEPT ![r] = "ok"]
      /\ UNCHANGED <<active, pending, paused, tensors, group, stage, run,
                     policy, initialized, seen, outcome, before, sampled,
                     late, relaunches>>
  BY AskedStage DEF IInv, AnswerInit, Answer, replicaVars, trainerVars
<1>2. TypeOK'
  BY <1>1 DEF IInv, TypeOK
<1>3. Stable'
  BY <1>1 DEF IInv, Stable
<1>4. Preparing'
  BY <1>1 DEF IInv, Preparing
<1>5. Transferring'
  BY <1>1 DEF IInv, Transferring
<1>6. Outstanding'
  BY <1>1 DEF IInv, Outstanding, LateUpdate
<1>7. Whole' /\ Agreement' /\ Counters' /\ Exposing' /\ OnPolicy'
  BY <1>1 DEF IInv, Whole, Agreement, Counters, Exposing, OnPolicy, Live, Current
<1>8. QED
  BY <1>2, <1>3, <1>4, <1>5, <1>6, <1>7 DEF IInv

\* A bucket tears only a replica that is not Live.
LEMMA ReceiveBucketKeepsIInv ==
  ASSUME IInv, NEW r \in Replicas, ReceiveBucket(r)
  PROVE  IInv'
<1>1. /\ stage = "transfer"
      /\ call[r] = "sent"
      /\ group[r] = run
      /\ ~Live(r)
      /\ tensors' = [tensors EXCEPT ![r] = Torn]
      /\ UNCHANGED <<active, pending, paused, group, stage, run, policy,
                     initialized, call, seen, outcome, before, sampled, late,
                     relaunches>>
  BY AskedStage DEF IInv, ReceiveBucket, Tears, trainerVars, Transferring
<1>2. TypeOK'
  BY <1>1 DEF IInv, TypeOK
<1>3. Whole'
  BY <1>1 DEF IInv, Whole, Live
<1>4. Agreement'
  BY <1>1 DEF IInv, Agreement, Live
<1>5. Preparing'
  BY <1>1 DEF IInv, Preparing
<1>6. Transferring'
  BY <1>1 DEF IInv, Transferring, Live, Current
<1>7. Exposing'
  BY <1>1 DEF IInv, Exposing, Live, Current
<1>8. Outstanding'
  BY <1>1 DEF IInv, Outstanding, Live, LateUpdate
<1>9. Counters' /\ Stable' /\ OnPolicy'
  BY <1>1 DEF IInv, Counters, Stable, OnPolicy, Current
<1>10. QED
  BY <1>2, <1>3, <1>4, <1>5, <1>6, <1>7, <1>8, <1>9 DEF IInv

\* A finished update makes a replica Live with the weights of this publication.
LEMMA FinishUpdateKeepsIInv ==
  ASSUME IInv, NEW r \in Replicas, FinishUpdate(r)
  PROVE  IInv'
<1>1. /\ stage = "transfer"
      /\ call[r] = "sent"
      /\ group[r] = run
      /\ tensors' = [tensors EXCEPT ![r] = Current]
      /\ pending' = [pending EXCEPT ![r] = policy]
      /\ call' = [call EXCEPT ![r] = "ok"]
      /\ UNCHANGED <<active, paused, group, stage, run, policy, initialized,
                     seen, outcome, before, sampled, late, relaunches>>
  BY AskedStage DEF IInv, FinishUpdate, Holds, Answer, Current, trainerVars
<1>2. TypeOK'
  BY <1>1 DEF IInv, TypeOK, Current, Weights
<1>3. Whole'
  BY <1>1 DEF IInv, TypeOK, Whole, Transferring, Live, Current, Weights
<1>4. Agreement'
  BY <1>1 DEF IInv, TypeOK, Agreement, Transferring, Live
<1>5. Stable'
  BY <1>1 DEF IInv, Stable
<1>6. Preparing'
  BY <1>1 DEF IInv, Preparing
<1>7. Transferring'
  BY <1>1 DEF IInv, TypeOK, Transferring, Live, Current
<1>8. Exposing'
  BY <1>1 DEF IInv, TypeOK, Exposing, Live, Current
<1>9. Outstanding'
  BY <1>1 DEF IInv, TypeOK, Outstanding, Live, LateUpdate, WeightsOf, Current
<1>10. Counters' /\ OnPolicy'
  BY <1>1 DEF IInv, Counters, OnPolicy, Current
<1>11. QED
  BY <1>2, <1>3, <1>4, <1>5, <1>6, <1>7, <1>8, <1>9, <1>10 DEF IInv

\* A commit turns pending weights into served ones; the replica was Live already.
LEMMA CommitReplicaKeepsIInv ==
  ASSUME IInv, NEW r \in Replicas, CommitReplica(r)
  PROVE  IInv'
<1>1. /\ stage = "commit"
      /\ pending[r] = policy
      /\ active' = [active EXCEPT ![r] = policy]
      /\ pending' = [pending EXCEPT ![r] = None]
      /\ paused' = [paused EXCEPT ![r] = FALSE]
      /\ call' = [call EXCEPT ![r] = "ok"]
      /\ UNCHANGED <<tensors, group, stage, run, policy, initialized, seen,
                     outcome, before, sampled, late, relaunches>>
  BY AskedStage DEF IInv, CommitReplica, Commits, Answer, trainerVars
<1>2. TypeOK'
  BY <1>1 DEF IInv, TypeOK
<1>3. Whole'
  BY <1>1, ConstantsAssumption DEF IInv, TypeOK, Whole, Live
<1>4. Agreement'
  BY <1>1, ConstantsAssumption DEF IInv, TypeOK, Agreement, Live
<1>5. Stable'
  BY <1>1 DEF IInv, Stable
<1>6. Preparing'
  BY <1>1 DEF IInv, Preparing
<1>7. Transferring'
  BY <1>1 DEF IInv, Transferring
<1>8. Exposing'
  BY <1>1, ConstantsAssumption DEF IInv, TypeOK, Exposing, Live, Current
<1>9. Outstanding'
  BY <1>1 DEF IInv, Outstanding, LateUpdate
<1>10. Counters' /\ OnPolicy'
  BY <1>1 DEF IInv, Counters, OnPolicy, Current
<1>11. QED
  BY <1>2, <1>3, <1>4, <1>5, <1>6, <1>7, <1>8, <1>9, <1>10 DEF IInv

\* A status keeps a version only of a replica without a pending one.
LEMMA ReadStatusKeepsIInv ==
  ASSUME IInv, NEW r \in Replicas, ReadStatus(r)
  PROVE  IInv'
<1>1. /\ stage \in {"status", "verify"}
      /\ seen' = [seen EXCEPT ![r] =
                    IF paused[r] \/ pending[r] # None THEN None ELSE active[r]]
      /\ call' = [call EXCEPT ![r] = "ok"]
      /\ UNCHANGED <<active, pending, paused, tensors, group, stage, run,
                     policy, initialized, outcome, before, sampled, late,
                     relaunches>>
  BY AskedStage DEF IInv, ReadStatus, Answer, replicaVars, trainerVars
<1>2. TypeOK'
  BY <1>1 DEF IInv, TypeOK
<1>3. Stable'
  BY <1>1 DEF IInv, TypeOK, Stable
<1>4. Preparing'
  BY <1>1 DEF IInv, Preparing
<1>5. Transferring'
  BY <1>1 DEF IInv, Transferring
<1>6. Outstanding'
  BY <1>1 DEF IInv, TypeOK, Outstanding, Live, LateUpdate
<1>7. Whole' /\ Agreement' /\ Counters' /\ Exposing' /\ OnPolicy'
  BY <1>1 DEF IInv, Whole, Agreement, Counters, Exposing, OnPolicy, Live, Current
<1>8. QED
  BY <1>2, <1>3, <1>4, <1>5, <1>6, <1>7 DEF IInv

\* The accepted name stands for the current weights: policy >= 1 rules out Base.
LEMMA ServeRolloutKeepsIInv ==
  ASSUME IInv, NEW r \in Replicas, ServeRollout(r)
  PROVE  IInv'
<1>1. /\ stage = "rollout"
      /\ ~paused[r]
      /\ active[r] = policy
      /\ sampled' = sampled \cup {tensors[r]}
      /\ call' = [call EXCEPT ![r] = "ok"]
      /\ UNCHANGED <<active, pending, paused, tensors, group, stage, run,
                     policy, initialized, seen, outcome, before, late,
                     relaunches>>
  BY AskedStage DEF IInv, ServeRollout, Accepts, Answer, replicaVars, trainerVars
<1>2. TypeOK'
  BY <1>1 DEF IInv, TypeOK
<1>3. Stable'
  BY <1>1 DEF IInv, Stable
<1>4. Preparing'
  BY <1>1 DEF IInv, Preparing
<1>5. Transferring'
  BY <1>1 DEF IInv, Transferring
<1>6. Outstanding'
  BY <1>1 DEF IInv, Outstanding, LateUpdate
<1>7. OnPolicy'
  BY <1>1 DEF IInv, Whole, Counters, Exposing, OnPolicy, Live, Current, Base
<1>8. Whole' /\ Agreement' /\ Counters' /\ Exposing'
  BY <1>1 DEF IInv, Whole, Agreement, Counters, Exposing, Live, Current
<1>9. QED
  BY <1>2, <1>3, <1>4, <1>5, <1>6, <1>7, <1>8 DEF IInv

\* Leaving a group makes no replica Live.
LEMMA DestroyGroupKeepsIInv ==
  ASSUME IInv, NEW r \in Replicas, DestroyGroup(r)
  PROVE  IInv'
<1>1. /\ stage = "close"
      /\ group' = [group EXCEPT ![r] = None]
      /\ call' = [call EXCEPT ![r] = "ok"]
      /\ UNCHANGED <<active, pending, paused, tensors, stage, run, policy,
                     initialized, seen, outcome, before, sampled, late,
                     relaunches>>
  BY AskedStage DEF IInv, DestroyGroup, Leaves, Answer, trainerVars
<1>2. TypeOK'
  BY <1>1 DEF IInv, TypeOK
<1>3. Counters'
  BY <1>1 DEF IInv, Counters
<1>4. Stable'
  BY <1>1 DEF IInv, Stable
<1>5. Preparing'
  BY <1>1 DEF IInv, Preparing
<1>6. Transferring'
  BY <1>1 DEF IInv, Transferring
<1>7. Outstanding'
  BY <1>1, ConstantsAssumption DEF IInv, TypeOK, Outstanding, LateUpdate, Requests
<1>8. Whole' /\ Agreement' /\ Exposing' /\ OnPolicy'
  BY <1>1 DEF IInv, Whole, Agreement, Exposing, OnPolicy, Live, Current
<1>9. QED
  BY <1>2, <1>3, <1>4, <1>5, <1>6, <1>7, <1>8 DEF IInv

\* A refused request changes what the trainer has heard, nothing else.
LEMMA RefuseKeepsIInv ==
  ASSUME IInv, NEW r \in Replicas, Refuse(r)
  PROVE  IInv'
<1>1. /\ call[r] = "sent"
      /\ call' = [call EXCEPT ![r] = "failed"]
      /\ UNCHANGED <<active, pending, paused, tensors, group, stage, run,
                     policy, initialized, seen, outcome, before, sampled,
                     late, relaunches>>
  BY DEF Refuse, Waiting, replicaVars, trainerVars
<1>2. TypeOK'
  BY <1>1 DEF IInv, TypeOK
<1>3. Stable'
  BY <1>1 DEF IInv, Stable
<1>4. Preparing'
  BY <1>1 DEF IInv, Preparing
<1>5. Transferring'
  BY <1>1 DEF IInv, Transferring, Live, Current
<1>6. Outstanding'
  BY <1>1 DEF IInv, Outstanding, Live, LateUpdate
<1>7. Whole' /\ Agreement' /\ Counters' /\ Exposing' /\ OnPolicy'
  BY <1>1 DEF IInv, Whole, Agreement, Counters, Exposing, OnPolicy, Live, Current
<1>8. QED
  BY <1>2, <1>3, <1>4, <1>5, <1>6, <1>7 DEF IInv

\* A request given up stays outstanding; an update of this stage is on a replica
\* not Live.
LEMMA TimeoutKeepsIInv ==
  ASSUME IInv, NEW r \in Replicas, Timeout(r)
  PROVE  IInv'
<1>1. /\ stage # "down"
      /\ call[r] = "sent"
      /\ call' = [call EXCEPT ![r] = "failed"]
      /\ late' = late \cup Abandoned({r})
      /\ UNCHANGED <<active, pending, paused, tensors, group, stage, run,
                     policy, initialized, seen, outcome, before, sampled,
                     relaunches>>
  BY DEF Timeout, Waiting, replicaVars, trainerVars
<1>2. TypeOK'
  BY <1>1, AbandonedRequests DEF IInv, TypeOK
<1>3. Counters'
  BY <1>1, AbandonedRequests DEF IInv, Counters, Runs, Requests
<1>4. Stable'
  BY <1>1 DEF IInv, Stable
<1>5. Preparing'
  BY <1>1 DEF IInv, Preparing
<1>6. Transferring'
  BY <1>1 DEF IInv, Transferring, Live, Current
<1>7. Outstanding'
  BY <1>1, AbandonedRequests DEF IInv, TypeOK, Transferring, Outstanding, Live,
      LateUpdate, WeightsOf, Current
<1>8. Whole' /\ Agreement' /\ Exposing' /\ OnPolicy'
  BY <1>1 DEF IInv, Whole, Agreement, Exposing, OnPolicy, Live, Current
<1>9. QED
  BY <1>2, <1>3, <1>4, <1>5, <1>6, <1>7, <1>8 DEF IInv

\* A pause nobody waits for silences one more replica.
LEMMA LatePauseKeepsIInv ==
  ASSUME IInv, NEW u \in late, Pauses(u.to),
         late' = late \ {u}, UNCHANGED <<trainerVars, call, seen, sampled, relaunches>>
  PROVE  IInv'
<1>1. /\ u \in Requests
      /\ u.to \in Replicas
      /\ u.run \in Runs
      /\ u.policy \in Names
      /\ paused' = [paused EXCEPT ![u.to] = TRUE]
      /\ late' = late \ {u}
      /\ UNCHANGED <<active, pending, tensors, group, stage, run, policy,
                     initialized, call, seen, outcome, before, sampled,
                     relaunches>>
  BY DEF IInv, TypeOK, Requests, Pauses, trainerVars
<1>2. TypeOK'
  BY <1>1 DEF IInv, TypeOK
<1>3. Whole'
  BY <1>1 DEF IInv, Whole, Live
<1>4. Agreement'
  BY <1>1 DEF IInv, Agreement, Live
<1>5. Counters'
  BY <1>1 DEF IInv, Counters
<1>6. Preparing'
  BY <1>1 DEF IInv, Preparing
<1>7. Transferring'
  BY <1>1 DEF IInv, Transferring, Live, Current
<1>8. Exposing'
  BY <1>1 DEF IInv, Exposing, Live, Current
<1>9. Outstanding'
  BY <1>1 DEF IInv, Outstanding, Live, LateUpdate
<1>10. Stable' /\ OnPolicy'
  BY <1>1 DEF IInv, Stable, OnPolicy, Current
<1>11. QED
  BY <1>2, <1>3, <1>4, <1>5, <1>6, <1>7, <1>8, <1>9, <1>10 DEF IInv

\* A late update completes with the weights that every Live replica has
\* (Outstanding).
LEMMA LateHoldKeepsIInv ==
  ASSUME IInv, NEW u \in late, u.kind = "update", group[u.to] = u.run,
         Holds(u.to, WeightsOf(u)),
         late' = late \ {u}, UNCHANGED <<trainerVars, call, seen, sampled, relaunches>>
  PROVE  IInv'
<1>1. /\ u \in Requests
      /\ u.to \in Replicas
      /\ u.run \in Runs
      /\ u.policy \in Names
      /\ tensors' = [tensors EXCEPT ![u.to] = WeightsOf(u)]
      /\ pending' = [pending EXCEPT ![u.to] = u.policy]
      /\ LateUpdate(u)
      /\ late' = late \ {u}
      /\ UNCHANGED <<active, paused, group, stage, run, policy, initialized,
                     call, seen, outcome, before, sampled, relaunches>>
  BY DEF IInv, TypeOK, Requests, Holds, WeightsOf, LateUpdate, trainerVars
<1>2. TypeOK'
  BY <1>1 DEF IInv, TypeOK, WeightsOf, Weights
<1>3. Whole'
  BY <1>1 DEF IInv, TypeOK, Whole, Outstanding, Live, WeightsOf, Weights
<1>4. Agreement'
  BY <1>1 DEF IInv, TypeOK, Agreement, Outstanding, Live
<1>5. Counters'
  BY <1>1 DEF IInv, Counters
<1>6. Stable'
  BY <1>1 DEF IInv, Stable, Outstanding
<1>7. Preparing'
  BY <1>1 DEF IInv, Preparing, Outstanding
<1>8. Transferring'
  BY <1>1 DEF IInv, TypeOK, Transferring, Outstanding, Live, WeightsOf, Current
<1>9. Exposing'
  BY <1>1 DEF IInv, TypeOK, Exposing, Outstanding, Live, WeightsOf, Current
<1>10. Outstanding'
  BY <1>1, RequestFields DEF IInv, TypeOK, Outstanding, Live, LateUpdate
<1>11. OnPolicy'
  BY <1>1 DEF IInv, OnPolicy, Current
<1>12. QED
  BY <1>2, <1>3, <1>4, <1>5, <1>6, <1>7, <1>8, <1>9, <1>10, <1>11 DEF IInv

\* A late bucket tears a replica that is not Live (Outstanding).
LEMMA LateTearKeepsIInv ==
  ASSUME IInv, NEW u \in late, u.kind = "update", group[u.to] = u.run, Tears(u.to),
         late' = late \ {u}, UNCHANGED <<trainerVars, call, seen, sampled, relaunches>>
  PROVE  IInv'
<1>1. /\ u \in Requests
      /\ u.to \in Replicas
      /\ u.run \in Runs
      /\ u.policy \in Names
      /\ tensors' = [tensors EXCEPT ![u.to] = Torn]
      /\ LateUpdate(u)
      /\ ~Live(u.to)
      /\ late' = late \ {u}
      /\ UNCHANGED <<active, pending, paused, group, stage, run, policy,
                     initialized, call, seen, outcome, before, sampled,
                     relaunches>>
  BY DEF IInv, TypeOK, Requests, Tears, Outstanding, LateUpdate, trainerVars
<1>2. TypeOK'
  BY <1>1 DEF IInv, TypeOK
<1>3. Whole'
  BY <1>1 DEF IInv, Whole, Live
<1>4. Agreement'
  BY <1>1 DEF IInv, Agreement, Live
<1>5. Counters'
  BY <1>1 DEF IInv, Counters
<1>6. Preparing'
  BY <1>1 DEF IInv, Preparing, Live
<1>7. Transferring'
  BY <1>1 DEF IInv, Transferring, Live, Current
<1>8. Exposing'
  BY <1>1 DEF IInv, Exposing, Live, Current
<1>9. Outstanding'
  BY <1>1, RequestFields DEF IInv, Outstanding, Live, LateUpdate
<1>10. Stable' /\ OnPolicy'
  BY <1>1 DEF IInv, Stable, OnPolicy, Current
<1>11. QED
  BY <1>2, <1>3, <1>4, <1>5, <1>6, <1>7, <1>8, <1>9, <1>10 DEF IInv

\* A late commit finds no pending version, or the one every Live replica has.
LEMMA LateCommitKeepsIInv ==
  ASSUME IInv, NEW u \in late, Commits(u.to, u.policy),
         late' = late \ {u}, UNCHANGED <<trainerVars, call, seen, sampled, relaunches>>
  PROVE  IInv'
<1>1. /\ u \in Requests
      /\ u.to \in Replicas
      /\ u.run \in Runs
      /\ u.policy \in Names
      /\ pending[u.to] = u.policy
      /\ active' = [active EXCEPT ![u.to] = u.policy]
      /\ pending' = [pending EXCEPT ![u.to] = None]
      /\ paused' = [paused EXCEPT ![u.to] = FALSE]
      /\ late' = late \ {u}
      /\ UNCHANGED <<tensors, group, stage, run, policy, initialized, call,
                     seen, outcome, before, sampled, relaunches>>
  BY DEF IInv, TypeOK, Requests, Commits, trainerVars
<1>2. TypeOK'
  BY <1>1 DEF IInv, TypeOK
<1>3. Whole'
  BY <1>1, ConstantsAssumption DEF IInv, TypeOK, Whole, Live
<1>4. Agreement'
  BY <1>1, ConstantsAssumption DEF IInv, Agreement, Live
<1>5. Counters'
  BY <1>1 DEF IInv, Counters
<1>6. Stable'
  BY <1>1 DEF IInv, Stable
<1>7. Preparing'
  BY <1>1, ConstantsAssumption DEF IInv, Stable, Preparing
<1>8. Transferring'
  BY <1>1, ConstantsAssumption DEF IInv, Transferring, Live, Current
<1>9. Exposing'
  BY <1>1, ConstantsAssumption DEF IInv, Exposing, Live, Current
<1>10. Outstanding'
  BY <1>1, ConstantsAssumption DEF IInv, Outstanding, Live, LateUpdate
<1>11. OnPolicy'
  BY <1>1 DEF IInv, OnPolicy, Current
<1>12. QED
  BY <1>2, <1>3, <1>4, <1>5, <1>6, <1>7, <1>8, <1>9, <1>10, <1>11 DEF IInv

\* A late departure takes the replica out of the reach of late updates.
LEMMA LateLeaveKeepsIInv ==
  ASSUME IInv, NEW u \in late, Leaves(u.to),
         late' = late \ {u}, UNCHANGED <<trainerVars, call, seen, sampled, relaunches>>
  PROVE  IInv'
<1>1. /\ u \in Requests
      /\ u.to \in Replicas
      /\ u.run \in Runs
      /\ u.policy \in Names
      /\ group' = [group EXCEPT ![u.to] = None]
      /\ late' = late \ {u}
      /\ UNCHANGED <<active, pending, paused, tensors, stage, run, policy,
                     initialized, call, seen, outcome, before, sampled,
                     relaunches>>
  BY DEF IInv, TypeOK, Requests, Leaves, trainerVars
<1>2. TypeOK'
  BY <1>1 DEF IInv, TypeOK
<1>3. Counters'
  BY <1>1, ConstantsAssumption DEF IInv, TypeOK, Counters
<1>4. Preparing'
  BY <1>1, ConstantsAssumption DEF IInv, TypeOK, Preparing
<1>5. Transferring'
  BY <1>1, ConstantsAssumption DEF IInv, TypeOK, Transferring, Live, Current
<1>6. Outstanding'
  BY <1>1, ConstantsAssumption DEF IInv, TypeOK, Outstanding, Live, LateUpdate, Requests
<1>7. Whole' /\ Agreement' /\ Stable' /\ Exposing' /\ OnPolicy'
  BY <1>1 DEF IInv, Whole, Agreement, Stable, Exposing, OnPolicy, Live, Current
<1>8. QED
  BY <1>2, <1>3, <1>4, <1>5, <1>6, <1>7 DEF IInv

\* A request nobody waits for any more is a pause, an update, a commit or a
\* departure: one of the five lemmas above.
LEMMA ServeLateKeepsIInv ==
  ASSUME IInv, NEW u \in late, ServeLate(u)
  PROVE  IInv'
<1>1. /\ late' = late \ {u}
      /\ UNCHANGED <<trainerVars, call, seen, sampled, relaunches>>
  BY DEF ServeLate
<1>2. CASE u.kind \in {"init", "pause"} /\ Pauses(u.to)
  BY <1>1, <1>2, LatePauseKeepsIInv
<1>3. CASE u.kind = "update" /\ group[u.to] = u.run /\ Holds(u.to, WeightsOf(u))
  BY <1>1, <1>3, LateHoldKeepsIInv
<1>4. CASE u.kind = "update" /\ group[u.to] = u.run /\ Tears(u.to)
  BY <1>1, <1>4, LateTearKeepsIInv
<1>5. CASE u.kind = "commit" /\ Commits(u.to, u.policy)
  BY <1>1, <1>5, LateCommitKeepsIInv
<1>6. CASE u.kind = "destroy" /\ Leaves(u.to)
  BY <1>1, <1>6, LateLeaveKeepsIInv
<1>7. QED
  BY <1>2, <1>3, <1>4, <1>5, <1>6 DEF ServeLate, WeightsOf

\* A new run has a number no group and no outstanding request has.
LEMMA StartKeepsIInv ==
  ASSUME IInv, Start
  PROVE  IInv'
<1>1. /\ stage = "down"
      /\ run < MaxRuns
      /\ run' = run + 1
      /\ policy' = 1
      /\ initialized' = FALSE
      /\ before' = outcome
      /\ outcome' = "none"
      /\ sampled' = {}
      /\ stage' = "status"
      /\ call' = [q \in Replicas |-> "sent"]
      /\ seen' = [q \in Replicas |-> None]
      /\ UNCHANGED <<active, pending, paused, tensors, group, late,
                     relaunches>>
  BY DEF Start, SendAll, replicaVars
<1>2. TypeOK'
  <2>1. run' \in Runs /\ policy' \in Names
    BY <1>1, ConstantsAssumption DEF IInv, TypeOK, Runs, Names
  <2>2. call' \in [Replicas -> {"none", "sent", "ok", "failed"}]
        /\ seen' \in [Replicas -> Names \cup {None}]
    BY <1>1
  <2>3. QED
    BY <1>1, <2>1, <2>2 DEF IInv, TypeOK, Stages, Outcomes
<1>3. Counters'
  BY <1>1, ConstantsAssumption DEF IInv, TypeOK, Counters, Runs, Requests
<1>4. Stable'
  BY <1>1 DEF IInv, Stable
<1>5. Preparing'
  BY <1>1 DEF IInv, Preparing
<1>6. Transferring'
  BY <1>1 DEF IInv, Transferring
<1>7. Exposing'
  BY <1>1 DEF IInv, Exposing
<1>8. Outstanding'
  BY <1>1 DEF IInv, TypeOK, Outstanding, Live, LateUpdate, Requests
<1>9. OnPolicy'
  BY <1>1 DEF IInv, OnPolicy
<1>10. Whole' /\ Agreement'
  BY <1>1 DEF IInv, Whole, Agreement, Live
<1>11. QED
  BY <1>2, <1>3, <1>4, <1>5, <1>6, <1>7, <1>8, <1>9, <1>10 DEF IInv

\* An admitted set is stable: nothing is pending and no update is outstanding.
LEMMA AdmitKeepsIInv ==
  ASSUME IInv, Admit
  PROVE  IInv'
<1>1. /\ stage = "status"
      /\ \/ /\ Admissible /\ stage' = "prepare"
            /\ call' = [q \in Replicas |-> "sent"]
            /\ seen' = [q \in Replicas |-> None] /\ outcome' = outcome
         \/ stage' = "down" /\ outcome' = "refused" /\ UNCHANGED <<call, seen>>
      /\ UNCHANGED <<active, pending, paused, tensors, group, run, policy,
                     initialized, before, sampled, late, relaunches>>
  BY DEF Admit, SendAll, Exit, replicaVars
<1>2. TypeOK'
  BY <1>1 DEF IInv, TypeOK, Stages, Outcomes
<1>3. Counters'
  BY <1>1 DEF IInv, Counters
<1>4. Stable'
  BY <1>1 DEF IInv, Stable, AllOk, Admissible
<1>5. Preparing'
  BY <1>1 DEF IInv, Counters, Preparing
<1>6. Transferring'
  BY <1>1 DEF IInv, Transferring
<1>7. Exposing'
  BY <1>1 DEF IInv, Exposing
<1>8. Outstanding'
  BY <1>1 DEF IInv, TypeOK, Outstanding, Live, LateUpdate, Requests, AllOk, Admissible
<1>9. Whole' /\ Agreement' /\ OnPolicy'
  BY <1>1 DEF IInv, Whole, Agreement, OnPolicy, Live, Current
<1>10. QED
  BY <1>2, <1>3, <1>4, <1>5, <1>6, <1>7, <1>8, <1>9 DEF IInv

\* After prepare every replica of the groups is paused with nothing pending.
LEMMA PreparedKeepsIInv ==
  ASSUME IInv, Prepared
  PROVE  IInv'
<1>1. /\ stage = "prepare"
      /\ initialized' = TRUE
      /\ \/ /\ AllOk /\ stage' = "transfer"
            /\ call' = [q \in Replicas |-> "sent"]
            /\ seen' = [q \in Replicas |-> None] /\ outcome' = outcome
         \/ stage' = "down" /\ outcome' = "failed" /\ UNCHANGED <<call, seen>>
      /\ UNCHANGED <<active, pending, paused, tensors, group, run, policy,
                     before, sampled, late, relaunches>>
  BY DEF Prepared, Ready, SendAll, Exit, replicaVars
<1>2. TypeOK'
  BY <1>1 DEF IInv, TypeOK, Stages, Outcomes
<1>3. Counters'
  BY <1>1 DEF IInv, Counters
<1>4. Stable'
  BY <1>1 DEF IInv, Stable
<1>5. Preparing'
  BY <1>1 DEF IInv, Preparing
<1>6. Transferring'
  BY <1>1 DEF IInv, Stable, Preparing, Transferring, Live, AllOk
<1>7. Exposing'
  BY <1>1 DEF IInv, Stable, Preparing, Exposing, Live, AllOk
<1>8. Outstanding'
  BY <1>1 DEF IInv, Outstanding, LateUpdate
<1>9. Whole' /\ Agreement' /\ OnPolicy'
  BY <1>1 DEF IInv, Whole, Agreement, OnPolicy, Live, Current
<1>10. QED
  BY <1>2, <1>3, <1>4, <1>5, <1>6, <1>7, <1>8, <1>9 DEF IInv

\* Every replica answered: none is left to be written by this transfer.
LEMMA TransferredKeepsIInv ==
  ASSUME IInv, Transferred
  PROVE  IInv'
<1>1. /\ stage = "transfer"
      /\ \/ /\ AllOk /\ stage' = "commit"
            /\ call' = [q \in Replicas |-> "sent"]
            /\ seen' = [q \in Replicas |-> None] /\ outcome' = outcome
         \/ /\ stage' = "repause"
            /\ call' = [q \in Replicas |-> "sent"]
            /\ seen' = [q \in Replicas |-> None] /\ outcome' = outcome
         \/ stage' = "down" /\ outcome' = "failed" /\ UNCHANGED <<call, seen>>
      /\ UNCHANGED <<active, pending, paused, tensors, group, run, policy,
                     initialized, before, sampled, late, relaunches>>
  BY DEF Transferred, SendAll, Exit, replicaVars
<1>2. TypeOK'
  BY <1>1 DEF IInv, TypeOK, Stages, Outcomes
<1>3. Counters'
  BY <1>1 DEF IInv, Counters
<1>4. Stable'
  BY <1>1 DEF IInv, Stable
<1>5. Preparing'
  BY <1>1 DEF IInv, Preparing
<1>6. Transferring'
  BY <1>1 DEF IInv, Transferring
<1>7. Exposing'
  BY <1>1 DEF IInv, Exposing, Live, Current
<1>8. Outstanding'
  BY <1>1 DEF IInv, TypeOK, Outstanding, Live, LateUpdate, Requests, AllOk
<1>9. Whole' /\ Agreement' /\ OnPolicy'
  BY <1>1 DEF IInv, Whole, Agreement, OnPolicy, Live, Current
<1>10. QED
  BY <1>2, <1>3, <1>4, <1>5, <1>6, <1>7, <1>8, <1>9 DEF IInv

\* Verification begins with no status read.
LEMMA CommittedKeepsIInv ==
  ASSUME IInv, Committed
  PROVE  IInv'
<1>1. /\ stage = "commit"
      /\ stage' \in {"verify", "repause"}
      /\ call' = [q \in Replicas |-> "sent"]
      /\ seen' = [q \in Replicas |-> None]
      /\ UNCHANGED <<active, pending, paused, tensors, group, run, policy,
                     initialized, outcome, before, sampled, late,
                     relaunches>>
  BY DEF Committed, SendAll, replicaVars
<1>2. TypeOK'
  BY <1>1 DEF IInv, TypeOK, Stages
<1>3. Counters'
  BY <1>1 DEF IInv, Counters
<1>4. Stable'
  BY <1>1 DEF IInv, Stable
<1>5. Preparing'
  BY <1>1 DEF IInv, Preparing
<1>6. Transferring'
  BY <1>1 DEF IInv, Transferring
<1>7. Exposing'
  BY <1>1 DEF IInv, Exposing, Live, Current
<1>8. Outstanding'
  BY <1>1 DEF IInv, Outstanding, LateUpdate
<1>9. Whole' /\ Agreement' /\ OnPolicy'
  BY <1>1 DEF IInv, Whole, Agreement, OnPolicy, Live, Current
<1>10. QED
  BY <1>2, <1>3, <1>4, <1>5, <1>6, <1>7, <1>8, <1>9 DEF IInv

\* Rollouts begin only on replicas that exposed the version.
LEMMA VerifiedKeepsIInv ==
  ASSUME IInv, Verified
  PROVE  IInv'
<1>1. /\ stage = "verify"
      /\ stage' \in {"rollout", "close", "repause"}
      /\ stage' = "rollout" => Exposed /\ policy # LastPolicy
      /\ call' = [q \in Replicas |-> "sent"]
      /\ seen' = [q \in Replicas |-> None]
      /\ UNCHANGED <<active, pending, paused, tensors, group, run, policy,
                     initialized, outcome, before, sampled, late,
                     relaunches>>
  BY DEF Verified, AfterExposure, SendAll, replicaVars
<1>2. TypeOK'
  BY <1>1 DEF IInv, TypeOK, Stages
<1>3. Counters'
  BY <1>1, ConstantsAssumption DEF IInv, TypeOK, Counters, Names
<1>4. Stable'
  BY <1>1, ConstantsAssumption DEF IInv, TypeOK, Stable, AllOk, Exposed
<1>5. Preparing'
  BY <1>1 DEF IInv, Preparing
<1>6. Transferring'
  BY <1>1 DEF IInv, Transferring
<1>7. Exposing'
  BY <1>1 DEF IInv, Exposing, Live, Current
<1>8. Outstanding'
  BY <1>1 DEF IInv, Outstanding, LateUpdate
<1>9. Whole' /\ Agreement' /\ OnPolicy'
  BY <1>1 DEF IInv, Whole, Agreement, OnPolicy, Live, Current
<1>10. QED
  BY <1>2, <1>3, <1>4, <1>5, <1>6, <1>7, <1>8, <1>9 DEF IInv

\* The trainer exits; the replicas stay as they are.
LEMMA RepausedKeepsIInv ==
  ASSUME IInv, Repaused
  PROVE  IInv'
<1>1. /\ stage = "repause"
      /\ stage' = "down"
      /\ outcome' \in {"repaused", "failed"}
      /\ UNCHANGED <<active, pending, paused, tensors, group, run, policy,
                     initialized, call, seen, before, sampled, late,
                     relaunches>>
  BY DEF Repaused, Exit, replicaVars
<1>2. TypeOK'
  BY <1>1 DEF IInv, TypeOK, Stages, Outcomes
<1>3. Counters'
  BY <1>1 DEF IInv, Counters
<1>4. Stable'
  BY <1>1 DEF IInv, Stable
<1>5. Preparing'
  BY <1>1 DEF IInv, Preparing
<1>6. Transferring'
  BY <1>1 DEF IInv, Transferring
<1>7. Exposing'
  BY <1>1 DEF IInv, Exposing
<1>8. Outstanding'
  BY <1>1 DEF IInv, Outstanding, Live, LateUpdate
<1>9. Whole' /\ Agreement' /\ OnPolicy'
  BY <1>1 DEF IInv, Whole, Agreement, OnPolicy, Live, Current
<1>10. QED
  BY <1>2, <1>3, <1>4, <1>5, <1>6, <1>7, <1>8, <1>9 DEF IInv

\* The next publication starts from a set without a pending version.
LEMMA TrainBatchKeepsIInv ==
  ASSUME IInv, TrainBatch
  PROVE  IInv'
<1>1. /\ stage = "rollout"
      /\ \/ /\ stage' = "prepare" /\ policy' = policy + 1 /\ sampled' = {}
            /\ call' = [q \in Replicas |-> "sent"]
            /\ seen' = [q \in Replicas |-> None] /\ outcome' = outcome
         \/ /\ stage' = "down" /\ outcome' = "failed"
            /\ UNCHANGED <<call, seen, policy, sampled>>
      /\ UNCHANGED <<active, pending, paused, tensors, group, run,
                     initialized, before, late, relaunches>>
  BY DEF TrainBatch, SendAll, Exit, replicaVars
<1>2. TypeOK'
  BY <1>1, ConstantsAssumption DEF IInv, TypeOK, Counters, Names, Stages, Outcomes
<1>3. Counters'
  BY <1>1 DEF IInv, TypeOK, Counters, Names
<1>4. Stable'
  BY <1>1 DEF IInv, Stable
<1>5. Preparing'
  BY <1>1 DEF IInv, Counters, Preparing
<1>6. Transferring'
  BY <1>1 DEF IInv, Transferring
<1>7. Exposing'
  BY <1>1 DEF IInv, Exposing
<1>8. Outstanding'
  BY <1>1 DEF IInv, Outstanding, LateUpdate
<1>9. OnPolicy'
  BY <1>1 DEF IInv, OnPolicy, Current
<1>10. Whole' /\ Agreement'
  BY <1>1 DEF IInv, Whole, Agreement, Live
<1>11. QED
  BY <1>2, <1>3, <1>4, <1>5, <1>6, <1>7, <1>8, <1>9, <1>10 DEF IInv

\* The trainer exits; the replicas stay as they are.
LEMMA ClosedKeepsIInv ==
  ASSUME IInv, Closed
  PROVE  IInv'
<1>1. /\ stage = "close"
      /\ stage' = "down"
      /\ outcome' \in {"finished", "failed"}
      /\ UNCHANGED <<active, pending, paused, tensors, group, run, policy,
                     initialized, call, seen, before, sampled, late,
                     relaunches>>
  BY DEF Closed, Exit, replicaVars
<1>2. TypeOK'
  BY <1>1 DEF IInv, TypeOK, Stages, Outcomes
<1>3. Counters'
  BY <1>1 DEF IInv, Counters
<1>4. Stable'
  BY <1>1 DEF IInv, Stable
<1>5. Preparing'
  BY <1>1 DEF IInv, Preparing
<1>6. Transferring'
  BY <1>1 DEF IInv, Transferring
<1>7. Exposing'
  BY <1>1 DEF IInv, Exposing
<1>8. Outstanding'
  BY <1>1 DEF IInv, Outstanding, LateUpdate
<1>9. Whole' /\ Agreement' /\ OnPolicy'
  BY <1>1 DEF IInv, Whole, Agreement, OnPolicy, Live, Current
<1>10. QED
  BY <1>2, <1>3, <1>4, <1>5, <1>6, <1>7, <1>8, <1>9 DEF IInv

\* Requests of a dead trainer are outstanding like those that timed out.
LEMMA CrashKeepsIInv ==
  ASSUME IInv, Crash
  PROVE  IInv'
<1>1. /\ stage # "down"
      /\ stage' = "down"
      /\ outcome' = "crashed"
      /\ late' = late \cup Abandoned(Replicas)
      /\ UNCHANGED <<active, pending, paused, tensors, group, run, policy,
                     initialized, call, seen, before, sampled, relaunches>>
  BY DEF Crash, Exit, replicaVars
<1>2. TypeOK'
  BY <1>1, AbandonedRequests DEF IInv, TypeOK, Stages, Outcomes
<1>3. Counters'
  BY <1>1, AbandonedRequests DEF IInv, Counters, Runs, Requests
<1>4. Stable'
  BY <1>1 DEF IInv, Stable
<1>5. Preparing'
  BY <1>1 DEF IInv, Preparing
<1>6. Transferring'
  BY <1>1 DEF IInv, Transferring
<1>7. Exposing'
  BY <1>1 DEF IInv, Exposing
<1>8. Outstanding'
  BY <1>1, AbandonedRequests DEF IInv, Transferring, Outstanding, Live, LateUpdate,
      WeightsOf, Current
<1>9. Whole' /\ Agreement' /\ OnPolicy'
  BY <1>1 DEF IInv, Whole, Agreement, OnPolicy, Live, Current
<1>10. QED
  BY <1>2, <1>3, <1>4, <1>5, <1>6, <1>7, <1>8, <1>9 DEF IInv

\* A relaunched set serves the base checkpoint and is in no group.
LEMMA RelaunchKeepsIInv ==
  ASSUME IInv, Relaunch
  PROVE  IInv'
<1>1. /\ relaunches' \in 0 .. MaxRelaunches
      /\ active' = [q \in Replicas |-> 0]
      /\ pending' = [q \in Replicas |-> None]
      /\ paused' = [q \in Replicas |-> FALSE]
      /\ tensors' = [q \in Replicas |-> Base]
      /\ group' = [q \in Replicas |-> None]
      /\ call' = [q \in Replicas |-> IF Waiting(q) THEN "failed" ELSE call[q]]
      /\ late' = {}
      /\ UNCHANGED <<stage, run, policy, initialized, seen, outcome, before,
                     sampled>>
  BY ConstantsAssumption DEF Relaunch, IInv, TypeOK, trainerVars
<1>2. TypeOK'
  BY <1>1, ConstantsAssumption DEF IInv, TypeOK, Base, Weights, Names, Runs
<1>3. Whole'
  BY <1>1, ConstantsAssumption DEF IInv, Whole, Base, Weights, Names, Runs
<1>4. Agreement'
  BY <1>1 DEF IInv, Agreement
<1>5. Counters'
  BY <1>1, ConstantsAssumption DEF IInv, TypeOK, Counters
<1>6. Stable'
  BY <1>1 DEF IInv, Stable
<1>7. Preparing'
  BY <1>1, ConstantsAssumption DEF IInv, TypeOK, Preparing
<1>8. Transferring'
  BY <1>1, ConstantsAssumption DEF IInv, TypeOK, Transferring
<1>9. Exposing'
  BY <1>1 DEF IInv, Exposing
<1>10. Outstanding'
  BY <1>1 DEF IInv, Outstanding
<1>11. OnPolicy'
  BY <1>1 DEF IInv, OnPolicy, Current
<1>12. QED
  BY <1>2, <1>3, <1>4, <1>5, <1>6, <1>7, <1>8, <1>9, <1>10, <1>11 DEF IInv

-----------------------------------------------------------------------------
\* The invariant is inductive

\* The set is launched with the base checkpoint on every replica.
LEMMA InitIInv == Init => IInv
<1> SUFFICES ASSUME Init PROVE IInv
  OBVIOUS
<1>1. Base \in Weights
  BY ConstantsAssumption DEF Base, Weights, Runs, Names
<1>2. TypeOK
  <2>1. 0 \in Runs /\ 0 \in Names /\ 0 \in 0 .. MaxRelaunches
    BY ConstantsAssumption DEF Runs, Names
  <2>2. QED
    BY <1>1, <2>1 DEF Init, TypeOK, Stages, Outcomes
<1>3. Whole /\ Agreement
  BY <1>1 DEF Init, Whole, Agreement, Live, Base
<1>4. Counters /\ Stable /\ Preparing /\ Transferring /\ Exposing /\ Outstanding /\ OnPolicy
  BY DEF Init, Counters, Stable, Preparing, Transferring, Exposing, Outstanding, OnPolicy
<1>5. QED
  BY <1>2, <1>3, <1>4 DEF IInv

\* A step that changes nothing keeps it.
LEMMA StutterKeepsIInv == IInv /\ UNCHANGED vars => IInv'
  BY DEF vars, IInv, TypeOK, Whole, Agreement, Counters, Stable, Preparing,
     Transferring, Exposing, Outstanding, OnPolicy, Live, LateUpdate, Current

\* Every step keeps it.
LEMMA NextKeepsIInv ==
  ASSUME IInv, Next
  PROVE  IInv'
<1>1. ASSUME NEW r \in Replicas, ReplicaStep(r) PROVE IInv'
  BY <1>1, PauseReplicaKeepsIInv, InitPausesKeepsIInv, AnswerInitKeepsIInv,
     ReceiveBucketKeepsIInv, FinishUpdateKeepsIInv, CommitReplicaKeepsIInv,
     ReadStatusKeepsIInv, ServeRolloutKeepsIInv, DestroyGroupKeepsIInv,
     RefuseKeepsIInv, TimeoutKeepsIInv DEF ReplicaStep
<1>2. CASE TrainerStep
  BY <1>2, AdmitKeepsIInv, PreparedKeepsIInv, TransferredKeepsIInv,
     CommittedKeepsIInv, VerifiedKeepsIInv, RepausedKeepsIInv,
     TrainBatchKeepsIInv, ClosedKeepsIInv DEF TrainerStep
<1>3. QED
  BY <1>1, <1>2, JoinGroupsKeepsIInv, ServeLateKeepsIInv, StartKeepsIInv,
     CrashKeepsIInv, RelaunchKeepsIInv DEF Next

\* The inductive invariant holds of every behaviour, for any number of
\* replicas, runs, publications and relaunches.
THEOREM Inductive == Spec => []IInv
<1>1. IInv /\ [Next]_vars => IInv'
  BY NextKeepsIInv, StutterKeepsIInv
<1>2. QED
  BY InitIInv, <1>1, PTL DEF Spec

-----------------------------------------------------------------------------
\* What follows from it

\* The variables of the publication keep their types.
THEOREM TypeCorrect == Spec => []TypeOK
<1>1. IInv => TypeOK
  BY DEF IInv
<1>2. QED
  BY Inductive, <1>1, PTL

\* Replicas that serve at the same time serve the same whole weights under their
\* own name: a serving replica is Live, and Live replicas agree.
THEOREM ReplicasNeverMixed == Spec => []NoMixedServing
<1>1. IInv => NoMixedServing
  BY ConstantsAssumption DEF IInv, Whole, Agreement, Live, NoMixedServing
<1>2. QED
  BY Inductive, <1>1, PTL

\* A batch is trained only on rollouts of the policy the trainer holds.
THEOREM BatchesOnPolicy == Spec => []OnPolicy
<1>1. IInv => OnPolicy
  BY DEF IInv
<1>2. QED
  BY Inductive, <1>1, PTL

-----------------------------------------------------------------------------
\* The refinement of ServingSet

View == [r \in Replicas |-> IF paused[r] THEN None ELSE tensors[r]]

\* A pause withdraws the replica.
LEMMA PauseWithdraws ==
  ASSUME TypeOK, NEW r \in Replicas, Pauses(r)
  PROVE  ServingSetView!Withdraw(r)
  BY DEF TypeOK, Pauses, ServingSetView!Withdraw

\* A commit exposes the weights of the replica, which all Live ones have.
LEMMA CommitExposes ==
  ASSUME IInv, IInv', NEW r \in Replicas, NEW name \in Names, Commits(r, name)
  PROVE  ServingSetView!Next
<1>1. /\ paused' = [paused EXCEPT ![r] = FALSE] /\ UNCHANGED tensors
      /\ pending[r] # None
  BY ConstantsAssumption DEF Commits, IInv, TypeOK, Names
<1>2. Live(r) /\ tensors[r] \in Weights
  BY <1>1 DEF Live, IInv, Whole
<1>3. \A q \in Replicas : ~paused[q] => tensors[q] = tensors[r]
  BY <1>2 DEF Live, IInv, Agreement
<1>4. \E v \in Weights : ServingSetView!Expose(r, v)
  <2>1. PICK v \in Weights : v = tensors[r]
    BY <1>2
  <2>2. ServingSetView!Expose(r, v)
    BY <1>1, <1>2, <1>3, <2>1
       DEF IInv, TypeOK, ServingSetView!Expose, ServingSetView!Serving
  <2>3. QED
    BY <2>2
<1>5. QED
  BY <1>4 DEF ServingSetView!Next

\* Weights written on a silent replica do not show.
LEMMA SilentWriteHidden ==
  ASSUME TypeOK, NEW r \in Replicas, paused[r], NEW w,
         tensors' = [tensors EXCEPT ![r] = w], UNCHANGED paused
  PROVE  UNCHANGED View
  BY DEF TypeOK, View

\* Every step of the publication is a step of the serving set or hides from it.
LEMMA StepRefines ==
  ASSUME IInv, IInv', Next
  PROVE  ServingSetView!Next \/ UNCHANGED View
<1> USE DEF View
<1>1. ASSUME NEW r \in Replicas, ReplicaStep(r)
      PROVE  ServingSetView!Next \/ UNCHANGED View
  <2>1. CASE PauseReplica(r) \/ InitPauses(r)
    BY <2>1, PauseWithdraws DEF PauseReplica, InitPauses, IInv, ServingSetView!Next
  <2>2. CASE CommitReplica(r)
    <3>1. policy \in Names /\ Commits(r, policy)
      BY <2>2 DEF IInv, TypeOK, CommitReplica
    <3>2. QED
      BY <3>1, CommitExposes
  <2>3. CASE ReceiveBucket(r) \/ FinishUpdate(r)
    <3>1. paused[r]
      BY <2>3, AskedStage DEF ReceiveBucket, FinishUpdate, IInv, Transferring, Live
    <3>2. QED
      BY <2>3, <3>1, SilentWriteHidden
         DEF ReceiveBucket, FinishUpdate, Tears, Holds, IInv
  <2>4. CASE UNCHANGED <<paused, tensors>>
    BY <2>4
  <2>5. QED
    BY <1>1, <2>1, <2>2, <2>3, <2>4
       DEF ReplicaStep, AnswerInit, ReadStatus, ServeRollout, DestroyGroup, Leaves,
           Refuse, Timeout, replicaVars
<1>2. ASSUME NEW u \in late, ServeLate(u)
      PROVE  ServingSetView!Next \/ UNCHANGED View
  <2>1. u.to \in Replicas /\ u.policy \in Names
    BY DEF IInv, TypeOK, Requests
  <2>2. CASE Pauses(u.to)
    BY <2>1, <2>2, PauseWithdraws DEF IInv, ServingSetView!Next
  <2>3. CASE Commits(u.to, u.policy)
    BY <2>1, <2>3, CommitExposes
  <2>4. CASE u.kind = "update" /\ group[u.to] = u.run /\ UNCHANGED paused
             /\ \E w : tensors' = [tensors EXCEPT ![u.to] = w]
    BY <2>1, <2>4, SilentWriteHidden DEF IInv, Outstanding, LateUpdate, Live
  <2>5. CASE Leaves(u.to)
    BY <2>5 DEF Leaves
  <2>6. QED
    BY <1>2, <2>2, <2>3, <2>4, <2>5 DEF ServeLate, Holds, Tears
<1>3. CASE Relaunch
  <2>1. Base \in Weights
    BY ConstantsAssumption DEF Base, Weights, Runs, Names
  <2>2. ServingSetView!Relaunch(Base)
    BY <1>3 DEF Relaunch, ServingSetView!Relaunch
  <2>3. QED
    BY <2>1, <2>2 DEF ServingSetView!Next
<1>4. CASE JoinGroups \/ Start \/ TrainerStep \/ Crash
  BY <1>4 DEF JoinGroups, Start, TrainerStep, Crash, Admit, Prepared, Transferred,
     Committed, Verified, Repaused, TrainBatch, Closed, replicaVars
<1>5. QED
  BY <1>1, <1>2, <1>3, <1>4 DEF Next

\* The replicas implement the abstract serving set: what is served changes only
\* while the whole set is silent, or is relaunched.
THEOREM ReplicasImplementServingSet == Spec => ImplementsServingSet
<1>1. Init => ServingSetView!Init
  BY ConstantsAssumption
     DEF Init, ServingSetView!Init, Base, Weights, Runs, Names
<1>2. IInv /\ IInv' /\ [Next]_vars => [ServingSetView!Next]_View
  BY StepRefines DEF vars, View
<1>3. QED
  BY <1>1, <1>2, Inductive, PTL
     DEF Spec, ImplementsServingSet, ServingSetView!Spec, View

=============================================================================
