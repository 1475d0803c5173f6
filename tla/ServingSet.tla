----------------------------- MODULE ServingSet -----------------------------
(***************************************************************************)
(* What a set of serving replicas promises while policies are published to *)
(* it: the replicas that serve all serve the same policy, and the policy   *)
(* they serve changes only while none of them serves.                      *)
(*                                                                         *)
(* This is the promise of "atomic language/vision/X2V policy updates" of   *)
(* ServingWeightPublisher (weight_publisher.py:220-221); WeightPublication *)
(* implements it.                                                          *)
(***************************************************************************)
CONSTANTS
  Replicas,   \* the replicas of the set
  Policies,   \* the weights a replica can serve
  Silent      \* what a replica that does not serve shows

VARIABLE serves   \* what each replica serves, or Silent

Serving == {r \in Replicas : serves[r] # Silent}

Init == \E v \in Policies : serves = [r \in Replicas |-> v]

\* Replicas stop serving one at a time, whatever the others do.
Withdraw(r) == serves' = [serves EXCEPT ![r] = Silent]

\* A replica serves v only when every other serving replica already does.
Expose(r, v) ==
  /\ \A q \in Serving : serves[q] = v
  /\ serves' = [serves EXCEPT ![r] = v]

\* Starting the set anew gives every replica the same weights.
Relaunch(v) == serves' = [r \in Replicas |-> v]

Next ==
  \/ \E r \in Replicas : Withdraw(r)
  \/ \E r \in Replicas, v \in Policies : Expose(r, v)
  \/ \E v \in Policies : Relaunch(v)

Spec == Init /\ [][Next]_serves

=============================================================================
