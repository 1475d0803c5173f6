------------------------- MODULE WeightPublication -------------------------
(***************************************************************************)
(* Publishing a live policy to a set of serving replicas:                  *)
(* src/sensenova_u1/rl/weight_publisher.py (ServingWeightPublisher and     *)
(* publish_sharded_model_state) as run_training_loop of                    *)
(* src/sensenova_u1/rl/trainer.py drives it.                               *)
(*                                                                         *)
(* One trainer runs at a time (the run-directory lock).  Its rank 0 sends  *)
(* one HTTP request to every replica at once, waits for all of them, and   *)
(* decides the next stage from the answers.  The replicas are the external *)
(* serving engine, modelled from how the publisher uses its endpoints.  A  *)
(* request can be refused, can time out at the trainer and still be served *)
(* later, the trainer can crash between any two steps, and the operator    *)
(* can relaunch the set at any time.                                       *)
(*                                                                         *)
(* One launcher starts the whole set.  Where serving spans nodes, each     *)
(* node has a launcher of its own (docs/serving.md:31-33) that stops and   *)
(* restarts its replicas only; such a partial relaunch, after which the    *)
(* set serves two policies until the trainer next reads its statuses, is   *)
(* not an action here, and what the module shows is not shown of it.       *)
(*                                                                         *)
(* A trained policy is named by its step only (policy_version_for_step):   *)
(* two runs of one plan publish different weights under the same names.    *)
(***************************************************************************)
EXTENDS Integers, FiniteSets

CONSTANTS
  Replicas,        \* the serving replicas
  LastPolicy,      \* the plan's last publication; 1 is the initial one
  MaxRuns,         \* bound: trainer runs
  MaxRelaunches,   \* bound: relaunches of the serving set
  None,            \* no pending version, no group, no stable status
  Torn             \* tensors of a replica in the middle of an update

Runs == 0 .. MaxRuns
Names == 0 .. LastPolicy
Weights == [run : Runs, policy : Names]

ASSUME ConstantsAssumption ==
  /\ Replicas # {}
  /\ LastPolicy \in Nat /\ LastPolicy >= 2
  /\ MaxRuns \in Nat /\ MaxRelaunches \in Nat
  /\ None \notin Runs \cup Names
  /\ Torn \notin Weights

\* The checkpoint the replicas are launched with, named rollout_policy_version.
Base == [run |-> 0, policy |-> 0]

VARIABLES
  \* the replicas
  active,      \* active_policy_version
  pending,     \* pending_policy_version, or None
  paused,      \* generation is paused
  tensors,     \* the weights in GPU memory, or Torn
  group,       \* the run whose NCCL groups the replica is in, or None
  \* the trainer
  stage,       \* what rank 0 is doing; "down" when no trainer runs
  run,         \* number of the current or last trainer run
  policy,      \* number of the policy it publishes
  initialized, \* the publisher holds process groups
  call,        \* the state of the stage's request to each replica
  seen,        \* stable active version read by a status request, or None
  outcome,     \* how the last trainer ended
  before,      \* how the one before it ended
  sampled,     \* weights that produced the current batch's accepted rollouts
  \* the network and the operator
  late,        \* requests the trainer gave up, not yet served
  relaunches   \* relaunches so far

replicaVars == <<active, pending, paused, tensors, group>>
trainerVars == <<stage, run, policy, initialized, outcome, before>>
vars == <<active, pending, paused, tensors, group, stage, run, policy, initialized,
          call, seen, outcome, before, sampled, late, relaunches>>

Current == [run |-> run, policy |-> policy]

\* The requests that change a replica; status and rollout requests do not.
Controls == {"init", "pause", "update", "commit", "destroy"}
Requests == [kind : Controls, to : Replicas, run : Runs, policy : Names]

\* The request the trainer's stage sends to every replica.
KindOf(s) ==
  CASE s \in {"status", "verify"} -> "status"
    [] s = "prepare" -> IF initialized THEN "pause" ELSE "init"
    [] s = "transfer" -> "update"
    [] s = "commit" -> "commit"
    [] s = "repause" -> "pause"
    [] s = "rollout" -> "rollout"
    [] s = "close" -> "destroy"

RequestTo(r) ==
  [kind |-> KindOf(stage), to |-> r, run |-> run, policy |-> policy]

Waiting(r) == stage # "down" /\ call[r] = "sent"
Asked(kind, r) == Waiting(r) /\ KindOf(stage) = kind
\* What is left of the unanswered requests to a set of replicas.
Abandoned(S) ==
  IF KindOf(stage) \in Controls THEN {RequestTo(r) : r \in {q \in S : Waiting(q)}} ELSE {}
AllOk == \A r \in Replicas : call[r] = "ok"
AnsweredByAll == AllOk                 \* mutant: a replica that failed is waited for
Answered == \A r \in Replicas : call[r] # "sent"

SendAll(s) ==
  /\ stage' = s
  /\ call' = [r \in Replicas |-> "sent"]
  /\ seen' = [r \in Replicas |-> None]

Exit(how) ==
  /\ stage' = "down"
  /\ outcome' = how
  /\ UNCHANGED <<call, seen>>

-----------------------------------------------------------------------------

Init ==
  /\ active = [r \in Replicas |-> 0]
  /\ pending = [r \in Replicas |-> None]
  /\ paused = [r \in Replicas |-> FALSE]
  /\ tensors = [r \in Replicas |-> Base]
  /\ group = [r \in Replicas |-> None]
  /\ stage = "down"
  /\ run = 0
  /\ policy = 0
  /\ initialized = FALSE
  /\ call = [r \in Replicas |-> "none"]
  /\ seen = [r \in Replicas |-> None]
  /\ outcome = "none"
  /\ before = "none"
  /\ sampled = {}
  /\ late = {}
  /\ relaunches = 0

-----------------------------------------------------------------------------
\* The replicas' endpoints

Pauses(r) ==
  /\ paused' = [paused EXCEPT ![r] = TRUE]
  /\ UNCHANGED <<active, pending, tensors, group>>

\* Every bucket received: the weights wait for their commit.
Holds(r, weights) ==
  /\ tensors' = [tensors EXCEPT ![r] = weights]
  /\ pending' = [pending EXCEPT ![r] = weights.policy]
  /\ UNCHANGED <<active, paused, group>>

Tears(r) ==
  /\ tensors' = [tensors EXCEPT ![r] = Torn]
  /\ UNCHANGED <<active, pending, paused, group>>

\* Committing the pending version makes it the active one and resumes serving.
Commits(r, name) ==
  /\ pending[r] = name
  /\ active' = [active EXCEPT ![r] = name]
  /\ pending' = [pending EXCEPT ![r] = None]
  /\ paused' = [paused EXCEPT ![r] = FALSE]
  /\ UNCHANGED <<tensors, group>>

Leaves(r) ==
  /\ group' = [group EXCEPT ![r] = None]
  /\ UNCHANGED <<active, pending, paused, tensors>>

Answer(r) ==
  /\ call' = [call EXCEPT ![r] = "ok"]
  /\ UNCHANGED <<trainerVars, late, relaunches>>

PauseReplica(r) ==
  /\ Asked("pause", r)
  /\ Pauses(r)
  /\ Answer(r)
  /\ UNCHANGED <<seen, sampled>>

\* Group initialisation pauses the replica, then waits in the rendezvous...
InitPauses(r) ==
  /\ Asked("init", r)
  /\ Pauses(r)
  /\ UNCHANGED <<trainerVars, call, seen, sampled, late, relaunches>>

\* ... which completes (with its warm-up) only with all replicas and rank 0.
JoinGroups ==
  /\ \A r \in Replicas : Asked("init", r) /\ paused[r]
  /\ group' = [r \in Replicas |-> run]
  /\ UNCHANGED <<active, pending, paused, tensors, trainerVars, call, seen,
                 sampled, late, relaunches>>

AnswerInit(r) ==
  /\ Asked("init", r)
  /\ group[r] = run
  /\ Answer(r)
  /\ UNCHANGED <<replicaVars, seen, sampled>>

\* A bucket overwrites part of the weights in place.
ReceiveBucket(r) ==
  /\ Asked("update", r)
  /\ group[r] = run
  /\ Tears(r)
  /\ UNCHANGED <<trainerVars, call, seen, sampled, late, relaunches>>

FinishUpdate(r) ==
  /\ Asked("update", r)
  /\ group[r] = run
  /\ Holds(r, Current)
  /\ Answer(r)
  /\ UNCHANGED <<seen, sampled>>

CommitReplica(r) ==
  /\ Asked("commit", r)
  /\ Commits(r, policy)
  /\ Answer(r)
  /\ UNCHANGED <<seen, sampled>>

\* What the trainer keeps of a status: the active version of a replica that is
\* neither paused nor pending.
ReadStatus(r) ==
  /\ Asked("status", r)
  /\ seen' = [seen EXCEPT ![r] = IF paused[r] \/ pending[r] # None THEN None ELSE active[r]]
  /\ Answer(r)
  /\ UNCHANGED <<replicaVars, sampled>>

\* A replica answers 409 unless it serves the version the client expects.
AcceptsAnyVersion(r) == ~paused[r]     \* mutant: the expected version is not compared
Accepts(r) == ~paused[r] /\ active[r] = policy

ServeRollout(r) ==
  /\ Asked("rollout", r)
  /\ Accepts(r)
  /\ sampled' = sampled \cup {tensors[r]}
  /\ Answer(r)
  /\ UNCHANGED <<replicaVars, seen>>

DestroyGroup(r) ==
  /\ Asked("destroy", r)
  /\ Leaves(r)
  /\ Answer(r)
  /\ UNCHANGED <<seen, sampled>>

\* An HTTP error, a refused connection or a malformed answer.
Refuse(r) ==
  /\ Waiting(r)
  /\ call' = [call EXCEPT ![r] = "failed"]
  /\ UNCHANGED <<replicaVars, trainerVars, seen, sampled, late, relaunches>>

\* The request outlives the client's timeout.
Timeout(r) ==
  /\ Waiting(r)
  /\ call' = [call EXCEPT ![r] = "failed"]
  /\ late' = late \cup Abandoned({r})
  /\ UNCHANGED <<replicaVars, trainerVars, seen, sampled, relaunches>>

\* A replica serves a request nobody waits for any more.
ServeLate(q) ==
  /\ \/ q.kind \in {"init", "pause"} /\ Pauses(q.to)
     \/ /\ q.kind = "update" /\ group[q.to] = q.run
        /\ Holds(q.to, [run |-> q.run, policy |-> q.policy]) \/ Tears(q.to)
     \/ q.kind = "commit" /\ Commits(q.to, q.policy)
     \/ q.kind = "destroy" /\ Leaves(q.to)
  /\ late' = late \ {q}
  /\ UNCHANGED <<trainerVars, call, seen, sampled, relaunches>>

-----------------------------------------------------------------------------
\* The trainer

\* A new trainer takes the run-directory lock and reads every replica's status.
Start ==
  /\ stage = "down"
  /\ run < MaxRuns
  /\ run' = run + 1
  /\ policy' = 1
  /\ initialized' = FALSE
  /\ before' = outcome
  /\ outcome' = "none"
  /\ sampled' = {}
  /\ SendAll("status")
  /\ UNCHANGED <<replicaVars, late, relaunches>>

\* Only a stable set that exposes one version may be taken over.
Admissible ==
  AllOk /\ \A r, q \in Replicas : seen[r] # None /\ seen[r] = seen[q]

Admit ==
  /\ stage = "status"
  /\ Answered
  /\ IF Admissible
       THEN SendAll("prepare") /\ UNCHANGED outcome
       ELSE Exit("refused")
  /\ UNCHANGED <<replicaVars, run, policy, initialized, before, sampled, late, relaunches>>

\* prepare() raises on any failure and does not pause the set again; a closure
\* that does not match the model raises after it.
ReadyDespiteFailures == TRUE           \* mutant: a replica that did not pause is ignored
Ready == AllOk

Prepared ==
  /\ stage = "prepare"
  /\ Answered
  /\ initialized' = TRUE
  /\ \/ Ready /\ SendAll("transfer") /\ UNCHANGED outcome
     \/ Exit("failed")
  /\ UNCHANGED <<replicaVars, run, policy, before, sampled, late, relaunches>>

\* A failed control request pauses the set again; a failed GPU transfer and a
\* bad receipt do not.
Transferred ==
  /\ stage = "transfer"
  /\ Answered
  /\ \/ /\ SendAll(IF AllOk THEN "commit" ELSE "repause")
        /\ UNCHANGED outcome
     \/ Exit("failed")
  /\ UNCHANGED <<replicaVars, run, policy, initialized, before, sampled, late, relaunches>>

Committed ==
  /\ stage = "commit"
  /\ Answered
  /\ SendAll(IF AllOk THEN "verify" ELSE "repause")
  /\ UNCHANGED <<replicaVars, run, policy, initialized, outcome, before, sampled,
                 late, relaunches>>

Exposed == AllOk /\ \A r \in Replicas : seen[r] = policy

\* After the last publication the loop is over and the groups are destroyed.
AfterExposureOneMore == IF policy > LastPolicy THEN "close" ELSE "rollout"   \* mutant
AfterExposure == IF policy = LastPolicy THEN "close" ELSE "rollout"

Verified ==
  /\ stage = "verify"
  /\ Answered
  /\ SendAll(IF Exposed THEN AfterExposure ELSE "repause")
  /\ UNCHANGED <<replicaVars, run, policy, initialized, outcome, before, sampled,
                 late, relaunches>>

\* Re-pausing is best effort; the original error is raised whatever it returns.
Repaused ==
  /\ stage = "repause"
  /\ Answered
  /\ Exit(IF AllOk THEN "repaused" ELSE "failed")
  /\ UNCHANGED <<replicaVars, run, policy, initialized, before, sampled, late, relaunches>>

\* Every prompt group arrived, the batch is trained on and the next policy is
\* published; a failed rollout ends the run with the set still serving.
TrainBatch ==
  /\ stage = "rollout"
  /\ Answered
  /\ IF AllOk
       THEN /\ policy' = policy + 1
            /\ sampled' = {}
            /\ SendAll("prepare")
            /\ UNCHANGED outcome
       ELSE Exit("failed") /\ UNCHANGED <<policy, sampled>>
  /\ UNCHANGED <<replicaVars, run, initialized, before, late, relaunches>>

Closed ==
  /\ stage = "close"
  /\ Answered
  /\ Exit(IF AllOk THEN "finished" ELSE "failed")
  /\ UNCHANGED <<replicaVars, run, policy, initialized, before, sampled, late, relaunches>>

\* The trainer dies; what it had sent may still reach the replicas.
Crash ==
  /\ stage # "down"
  /\ Exit("crashed")
  /\ late' = late \cup Abandoned(Replicas)
  /\ UNCHANGED <<replicaVars, run, policy, initialized, before, sampled, relaunches>>

-----------------------------------------------------------------------------
\* The operator

\* Mutant: a replica that stops is restarted alone, as where every node launches
\* its own replicas.
RelaunchAlone ==
  /\ relaunches < MaxRelaunches
  /\ relaunches' = relaunches + 1
  /\ \E r \in Replicas :
       /\ active' = [active EXCEPT ![r] = 0]
       /\ pending' = [pending EXCEPT ![r] = None]
       /\ paused' = [paused EXCEPT ![r] = FALSE]
       /\ tensors' = [tensors EXCEPT ![r] = Base]
       /\ group' = [group EXCEPT ![r] = None]
  /\ UNCHANGED <<trainerVars, call, seen, sampled, late>>

\* launch_server.sh stops every replica it launched when one stops (161-184): a
\* set with one launcher restarts whole.
Relaunch ==
  /\ relaunches < MaxRelaunches
  /\ relaunches' = relaunches + 1
  /\ active' = [r \in Replicas |-> 0]
  /\ pending' = [r \in Replicas |-> None]
  /\ paused' = [r \in Replicas |-> FALSE]
  /\ tensors' = [r \in Replicas |-> Base]
  /\ group' = [r \in Replicas |-> None]
  /\ call' = [r \in Replicas |-> IF Waiting(r) THEN "failed" ELSE call[r]]
  /\ late' = {}
  /\ UNCHANGED <<trainerVars, seen, sampled>>

ReplicaStep(r) ==
  \/ PauseReplica(r) \/ InitPauses(r) \/ AnswerInit(r)
  \/ ReceiveBucket(r) \/ FinishUpdate(r) \/ CommitReplica(r)
  \/ ReadStatus(r) \/ ServeRollout(r) \/ DestroyGroup(r)
  \/ Refuse(r) \/ Timeout(r)

TrainerStep ==
  \/ Admit \/ Prepared \/ Transferred \/ Committed \/ Verified
  \/ Repaused \/ TrainBatch \/ Closed

Next ==
  \/ \E r \in Replicas : ReplicaStep(r)
  \/ JoinGroups
  \/ \E q \in late : ServeLate(q)
  \/ Start
  \/ TrainerStep
  \/ Crash
  \/ Relaunch

Spec == Init /\ [][Next]_vars

\* _request gives every call a timeout, and rank 0 goes on when all have ended.
FairSpec ==
  /\ Spec
  /\ \A r \in Replicas : WF_vars(Timeout(r))
  /\ WF_vars(TrainerStep)

-----------------------------------------------------------------------------
\* Properties

Stages == {"down", "status", "prepare", "transfer", "commit", "verify", "repause",
           "rollout", "close"}
Outcomes == {"none", "refused", "failed", "repaused", "finished", "crashed"}

\* Type invariant.
TypeOK ==
  /\ active \in [Replicas -> Names]
  /\ pending \in [Replicas -> Names \cup {None}]
  /\ paused \in [Replicas -> BOOLEAN]
  /\ tensors \in [Replicas -> Weights \cup {Torn}]
  /\ group \in [Replicas -> Runs \cup {None}]
  /\ stage \in Stages
  /\ run \in Runs
  /\ policy \in Names
  /\ initialized \in BOOLEAN
  /\ call \in [Replicas -> {"none", "sent", "ok", "failed"}]
  /\ seen \in [Replicas -> Names \cup {None}]
  /\ outcome \in Outcomes
  /\ before \in Outcomes
  /\ sampled \subseteq Weights \cup {Torn}
  /\ late \subseteq Requests
  /\ relaunches \in 0 .. MaxRelaunches

\* Two replicas that serve at the same time serve the same weights, whole, under
\* their own name - whatever fails, times out or is relaunched in the middle of a
\* publication (weight_publisher.py:369-430, 774-891).
NoMixedServing ==
  \A r, q \in Replicas :
    ~paused[r] /\ ~paused[q] =>
      /\ tensors[r] # Torn
      /\ tensors[r] = tensors[q]
      /\ active[r] = tensors[r].policy

\* A batch is trained only on rollouts of the policy the trainer holds: the name
\* check of the rollout API stands for the weights themselves, even though runs
\* of one plan reuse the names (api_rollout.py:365, trainer.py:1654).
OnPolicy == sampled \subseteq {Current}

\* A publication does not hang: it ends in rollouts, in the final teardown or in
\* the trainer's exit, whatever the replicas do (weight_publisher.py:48).
PublicationEnds == stage = "prepare" ~> stage \in {"rollout", "close", "down"}

\* The comment of commit's failure path: after the set was re-paused, "the next
\* recovery publishes a fresh version to the complete set"
\* (weight_publisher.py:417-419).  Read of the next trainer: if a commit that
\* reached only some replicas was followed by a complete re-pause, a trainer to
\* which all replicas answer is not refused.
NextRecoveryPublishes ==
  /\ before = "repaused"
  /\ \E r, q \in Replicas : active[r] # active[q]
  /\ outcome = "refused"
  => \E r \in Replicas : call[r] = "failed"

-----------------------------------------------------------------------------
\* The replicas implement the abstract serving set.

ServingSetView ==
  INSTANCE ServingSet
    WITH Policies <- Weights, Silent <- None,
         serves <- [r \in Replicas |-> IF paused[r] THEN None ELSE tensors[r]]

\* No replica resumes with weights other than those the others serve, and the
\* served weights change only while the whole set is silent, or is relaunched.
ImplementsServingSet == ServingSetView!Spec

=============================================================================
