--------------------------- MODULE ReplaySchedule ---------------------------
(***************************************************************************)
(* The replay schedule of one on-policy batch,                             *)
(* src/sensenova_u1/rl/trainer.py:525-592.                                 *)
(*                                                                         *)
(* Every FSDP rank owns one prompt group of G rollouts.  A rollout's       *)
(* replay signature is the sequence of forward passes it costs, and all    *)
(* ranks must run the same passes in the same wave or their collectives no *)
(* longer match.  The function first groups the W * G rollouts into one    *)
(* bucket per signature (Collect), then cuts every bucket into waves of W  *)
(* slots, one per rank (PlaceWave), pads the last wave of a bucket with    *)
(* loss-free copies of the bucket's first rollout (PlaceRemainder), and    *)
(* finally checks its own result (Check), raising on a fault.              *)
(*                                                                         *)
(* Rollouts are named by their advantage_index, which the code computes as *)
(* prompt_index * group_size + position; ranks are 0 .. W-1.               *)
(***************************************************************************)
EXTENDS Integers, Sequences, FiniteSets

CONSTANTS
  W,           \* world_size: number of FSDP ranks, and of prompt groups
  G,           \* group_size: rollouts sampled for each prompt
  Signatures   \* the replay signatures rollouts can have

\* The guard at the top of the function (and the immutable plan) refuses less.
ASSUME SizesAssumption == W \in Nat /\ W >= 2 /\ G \in Nat /\ G >= 1

VARIABLES
  signature,    \* input: the signature of every rollout
  collected,    \* number of rollouts the grouping loop has passed
  bucket,       \* signature -> its rollouts, in the order they were appended
  bucketOrder,  \* the signatures in first-seen order, as a dict keeps them
  current,      \* index in bucketOrder of the bucket being cut
  offset,       \* rollouts of the current bucket already placed
  rankCursor,   \* rank that receives the next remainder's first rollout
  schedule,     \* the waves built so far
  phase         \* control: "group", "place", "check", "done" or "raised"

scheduleVars == <<signature, collected, bucket, bucketOrder, current, offset,
                  rankCursor, schedule, phase>>

Ranks == 0 .. W - 1
Rollouts == 0 .. W * G - 1

\* A slot replays a rollout on one rank; a padding slot has loss_weight 0.
Slot == [rollout : Rollouts, real : BOOLEAN]
Wave == [Ranks -> Slot]

\* The bucket being cut, and what is left of it.
Current == bucket[bucketOrder[current]]
Left == Len(Current) - offset

\* slots[(rank_cursor + position) % world_size] = item, for the m rollouts that
\* follow `offset` in the current bucket (m <= W); position is the only one
\* that lands on rank r.
PositionOnUnrotated(r) == r           \* mutant: every wave starts at rank 0
PositionOn(r) == (r - rankCursor) % W

WaveWithWeightedPadding(m) ==         \* mutant: padding keeps loss_weight 1
  [r \in Ranks |-> [rollout |-> IF PositionOn(r) < m THEN Current[offset + PositionOn(r) + 1]
                                                     ELSE Current[1],
                    real |-> TRUE]]
FilledWave(m) ==
  [r \in Ranks |-> IF PositionOn(r) < m
                     THEN [rollout |-> Current[offset + PositionOn(r) + 1], real |-> TRUE]
                     ELSE [rollout |-> Current[1], real |-> FALSE]]

\* Where the next remainder starts, once one of n rollouts is placed.
CursorUnwrapped(n) == rankCursor + n    \* mutant: no % world_size
CursorStuck(n) == rankCursor            \* mutant: the cursor is not carried on
CursorAfter(n) == (rankCursor + n) % W

RealSlots == {s \in (1 .. Len(schedule)) \X Ranks : schedule[s[1]][s[2]].real}
RolloutAt(s) == schedule[s[1]][s[2]].rollout
RealWaves(r) == {w \in 1 .. Len(schedule) : schedule[w][r].real}

-----------------------------------------------------------------------------

ScheduleInit ==
  /\ signature \in [Rollouts -> Signatures]
  /\ collected = 0
  /\ bucket = [s \in Signatures |-> <<>>]
  /\ bucketOrder = <<>>
  /\ current = 1
  /\ offset = 0
  /\ rankCursor = 0
  /\ schedule = <<>>
  /\ phase = "group"

\* buckets.setdefault(signature, []).append(slot)
Collect ==
  /\ phase = "group"
  /\ collected < W * G
  /\ LET s == signature[collected]
     IN /\ bucket' = [bucket EXCEPT ![s] = Append(@, collected)]
        /\ bucketOrder' = IF bucket[s] = <<>> THEN Append(bucketOrder, s) ELSE bucketOrder
  /\ collected' = collected + 1
  /\ phase' = IF collected + 1 = W * G THEN "place" ELSE "group"
  /\ UNCHANGED <<signature, current, offset, rankCursor, schedule>>

\* A full wave: every rank replays a rollout of its own.
PlaceWave ==
  /\ phase = "place"
  /\ Left >= W
  /\ schedule' = Append(schedule, FilledWave(W))
  /\ offset' = offset + W
  /\ UNCHANGED <<signature, collected, bucket, bucketOrder, current, rankCursor, phase>>

\* The end of a bucket: a padded wave for the remainder, if there is one, then
\* the next bucket.
PlaceRemainder ==
  /\ phase = "place"
  /\ Left < W
  /\ IF Left > 0
       THEN /\ schedule' = Append(schedule, FilledWave(Left))
            /\ rankCursor' = CursorAfter(Left)
       ELSE UNCHANGED <<schedule, rankCursor>>
  /\ current' = current + 1
  /\ offset' = 0
  /\ phase' = IF current = Len(bucketOrder) THEN "check" ELSE "place"
  /\ UNCHANGED <<signature, collected, bucket, bucketOrder>>

\* The three checks at the end, in the code's order.
LostOrDuplicated ==
  ~ \A i \in Rollouts : \E s \in RealSlots :
       RolloutAt(s) = i /\ \A t \in RealSlots : RolloutAt(t) = i => t = s
Unbalanced == \E r \in Ranks : Cardinality(RealWaves(r)) # G
Unaligned ==
  \E w \in 1 .. Len(schedule) : \E r \in Ranks :
     signature[schedule[w][r].rollout] # signature[schedule[w][0].rollout]

Check ==
  /\ phase = "check"
  /\ phase' = IF LostOrDuplicated \/ Unbalanced \/ Unaligned THEN "raised" ELSE "done"
  /\ UNCHANGED <<signature, collected, bucket, bucketOrder, current, offset,
                 rankCursor, schedule>>

ScheduleNext == Collect \/ PlaceWave \/ PlaceRemainder \/ Check

ScheduleSpec == ScheduleInit /\ [][ScheduleNext]_scheduleVars

-----------------------------------------------------------------------------
\* Properties

\* Type invariant of the grouping and placing loops.
TypeOK ==
  /\ signature \in [Rollouts -> Signatures]
  /\ collected \in 0 .. W * G
  /\ bucket \in [Signatures -> Seq(Rollouts)]
  /\ bucketOrder \in Seq(Signatures)
  /\ current \in Nat \ {0}
  /\ offset \in Nat
  /\ rankCursor \in Ranks
  /\ schedule \in Seq(Wave)
  /\ phase \in {"group", "place", "check", "done", "raised"}

\* The function never raises on its own result: whatever mix of signatures the
\* batch has, no rollout is lost or replayed twice with loss, every rank trains
\* on exactly G rollouts and every wave is aligned (trainer.py:583-591).
NeverRaises == phase # "raised"

\* At every wave boundary the ranks' shares of real rollouts differ by at most
\* one, the ranks before the cursor being the ones ahead.  This is why resuming
\* each remainder at rank_cursor (trainer.py:579-581) balances buckets whose
\* sizes are not multiples of the world size.
RunningBalance ==
  \E base \in 0 .. G : \A r \in Ranks :
     Cardinality(RealWaves(r)) = base + (IF r < rankCursor THEN 1 ELSE 0)

\* No rollout contributes to the loss from two slots, at any time.
NoDoubleReplay ==
  \A s, t \in RealSlots : RolloutAt(s) = RolloutAt(t) => s = t

=============================================================================
