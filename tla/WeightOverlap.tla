---------------------------- MODULE WeightOverlap ----------------------------
(***************************************************************************)
(* Weight parallelism with overlap: every process keeps a shard of each    *)
(* weight and all-gathers it ahead of use by module hooks                  *)
(* (sensenovalm/core/parallel/comm/isp.py), while the parameters that other*)
(* processes updated are still being broadcast (comm/zero.py).  Forward,   *)
(* recomputation of checkpointed blocks and backward each release what they*)
(* gathered; what is left is drained before the optimizer changes weights. *)
(*                                                                         *)
(* Modules are numbered in the order the communicator lists them; a block  *)
(* runs its modules in cfg.order.  A collective is done once every process *)
(* has issued it; a process that waits for it until then stands still.     *)
(***************************************************************************)
EXTENDS Integers, FiniteSets, SequencesExt

CONSTANTS
  Processes,      \* the processes that share every weight
  Blocks,         \* transformer blocks, numbered from 0
  Width,          \* weight-parallel modules of a block
  Launch,         \* the module before which the next block is prefetched
  Owners,         \* ranks that update parameters and broadcast them
  Closures,       \* broadcasts of an owner after an update
  QueueLength,    \* broadcasts kept in flight ahead of need
  Updates,        \* optimizer updates (a bound)
  Configurations  \* [grain, order, ckpt, span, owners]

Ranks == 0 .. Owners - 1

ASSUME OverlapAssumption ==
  /\ {Blocks, Width, Owners, Closures, QueueLength, Updates} \subseteq Nat \ {0}
  /\ Launch \in 1 .. Width
  /\ Configurations \subseteq
       [grain : {"layer", "module"}, order : [1 .. Width -> 1 .. Width], ckpt : 0 .. Blocks,
        span : 1 .. Blocks, owners : [0 .. Blocks - 1 -> SUBSET Ranks]]

(* A block runs each of its modules once; module granularity takes them in  *)
(* the order they are listed.  Spans of several blocks recompute them all.  *)
ASSUME OrderAssumption ==
  \A c \in Configurations :
    /\ \A i \in 1 .. Width : \E k \in 1 .. Width : c.order[k] = i
    /\ \A k, l \in 1 .. Width : c.order[k] = c.order[l] => k = l
    /\ c.grain = "module" => \A k \in 1 .. Width : c.order[k] = k
    /\ c.span > 1 => c.grain = "layer" /\ c.ckpt = Blocks /\ Blocks % c.span = 0

(* ParamAsyncBcastHandler allots parameters block after block, to one rank  *)
(* and then the next; each takes part of some block.                        *)
ASSUME OwnersAssumption ==
  \A c \in Configurations :
    /\ \A r \in Ranks : \E b \in 0 .. Blocks - 1 : r \in c.owners[b]
    /\ \A b \in 0 .. Blocks - 1 : \A r \in c.owners[b], q \in Ranks :
         q < r => \E a \in 0 .. b : q \in c.owners[a]

VARIABLES
  cfg,      \* granularity, execution order, recomputed blocks, owners of each block
  pc,       \* where each process is: [phase, at, block, k]
  held,     \* all-gathered weights: {[module, op, fresh]}
  ops,      \* collectives issued on the weight group
  early,    \* reduce-scatters not yet waited for, of the last two blocks
  left,     \* broadcasts queued and not yet issued, by number
  issued,   \* broadcasts issued, in order
  landed,   \* how many of them have arrived
  update,   \* updates done
  broken    \* an assertion or a lookup of the hooks failed

vars == <<cfg, pc, held, ops, early, left, issued, landed, update, broken>>
weights == <<held, ops, broken>>
broadcasts == <<left, issued>>

-----------------------------------------------------------------------------
BlockOf(m) == (m - 1) \div Width
ModulesOf(b) == [i \in 1 .. Width |-> b * Width + i]
Running(p) == pc[p].block * Width + cfg.order[pc[p].k]
At(p, phase, at) == ~broken[p] /\ pc[p].phase = phase /\ pc[p].at = at
Goto(p, phase, at, b, k) ==
  pc' = [pc EXCEPT ![p] = [phase |-> phase, at |-> at, block |-> b, k |-> k]]
Continue(p, at) == pc' = [pc EXCEPT ![p].at = at]

Holding(p) == {h.module : h \in held[p]}
OpOf(p, m) == (CHOOSE h \in held[p] : h.module = m).op
Done(n) == \A q \in Processes : ops[q] >= n
Recomputed(b) == b < cfg.ckpt

(* Reentrant checkpointing recomputes cfg.span blocks, then runs their      *)
(* backward from the last to the first.                                     *)
SpanStart(b) == (b \div cfg.span) * cfg.span

-----------------------------------------------------------------------------
(* Broadcasts of updated parameters: every update queues Closures of each   *)
(* owner, numbered by owner.                                                *)

Batch == Owners * Closures
Owner(n) == ((n - 1) % Batch) \div Closures

Arrived(p, b) ==
  /\ \A n \in left[p] : Owner(n) \notin cfg.owners[b]
  /\ \A i \in DOMAIN issued[p] : Owner(issued[p][i]) \in cfg.owners[b] => i <= landed[p]

Below(S, n) == Cardinality({m \in S : m < n})
Ascending(S) == [i \in 1 .. Cardinality(S) |-> CHOOSE n \in S : Below(S, n) = i - 1]

Issue(p, S) ==
  /\ issued' = [issued EXCEPT ![p] = @ \o Ascending(S)]
  /\ left' = [left EXCEPT ![p] = @ \ S]

Room(p) == QueueLength - (Len(issued[p]) - landed[p])

\* Mutant: a block's owners are left to the queue.
SubmitNone(p, b) == UNCHANGED broadcasts

\* Issue every broadcast of the block's owners.
SubmitOwners(p, b) == Issue(p, {n \in left[p] : Owner(n) \in cfg.owners[b]})

\* Mutant: the queue takes the last closure.
SubmitQueueFromBack(p) ==
  Issue(p, {n \in left[p] : Cardinality(left[p]) - Below(left[p], n) <= Room(p)})

\* Issue the first owners' broadcasts until QueueLength are in flight.
SubmitQueue(p) == Issue(p, {n \in left[p] : Below(left[p], n) < Room(p)})

\* A broadcast arrives once every process has issued it; in order.
Land(p) ==
  /\ \A q \in Processes : Len(issued[q]) > landed[p]
  /\ landed' = [landed EXCEPT ![p] = @ + 1]
  /\ UNCHANGED <<cfg, pc, weights, early, broadcasts, update>>

-----------------------------------------------------------------------------
(* All-gathers.  A module that already holds a gathered weight must not be  *)
(* gathered again: _all_gather_module_weight asserts it.                    *)

Gathered(p, ms) ==
  {[module |-> ms[i], op |-> ops[p] + i, fresh |-> Arrived(p, BlockOf(ms[i]))] : i \in DOMAIN ms}

GatherRelease(p, ms, released) ==
  IF \E i \in DOMAIN ms : ms[i] \in Holding(p)
  THEN broken' = [broken EXCEPT ![p] = TRUE] /\ UNCHANGED <<held, ops>>
  ELSE /\ held' = [held EXCEPT ![p] = {h \in @ \union Gathered(p, ms) : h.module \notin released}]
       /\ ops' = [ops EXCEPT ![p] = @ + Len(ms)]
       /\ UNCHANGED broken

Gather(p, ms) == GatherRelease(p, ms, {})
IfMissing(p, m) == IF m \in Holding(p) THEN <<>> ELSE <<m>>

-----------------------------------------------------------------------------
(* Forward. *)

\* The block's pre-forward hook asks for its parameters ...
EnterBlock(p) ==
  /\ At(p, "forward", "enter")
  /\ SubmitOwners(p, pc[p].block) /\ Continue(p, "own")
  /\ UNCHANGED <<cfg, weights, early, landed, update>>

\* ... and waits for them; before the first block, its weights are gathered.
AwaitBlock(p) ==
  /\ At(p, "forward", "own") /\ Arrived(p, pc[p].block)
  /\ SubmitQueue(p)
  /\ Gather(p, IF pc[p].block = 0 /\ cfg.grain = "layer" THEN ModulesOf(0) ELSE <<>>)
  /\ Continue(p, "pre")
  /\ UNCHANGED <<cfg, early, landed, update>>

Launches(p) == cfg.grain = "layer" /\ cfg.order[pc[p].k] = Launch

\* Before the launch module: the next block's parameters, then its weights.
RequestNext(p) ==
  /\ At(p, "forward", "pre") /\ Launches(p) /\ pc[p].block + 1 < Blocks
  /\ SubmitOwners(p, pc[p].block + 1) /\ Continue(p, "next")
  /\ UNCHANGED <<cfg, weights, early, landed, update>>

\* Mutant: the prefetch does not wait for its prerequisite.
PrefetchNextEarly(p) ==
  /\ At(p, "forward", "next")
  /\ SubmitQueue(p) /\ Gather(p, ModulesOf(pc[p].block + 1)) /\ Continue(p, "launched")
  /\ UNCHANGED <<cfg, early, landed, update>>

PrefetchNext(p) ==
  /\ At(p, "forward", "next") /\ Arrived(p, pc[p].block + 1)
  /\ SubmitQueue(p) /\ Gather(p, ModulesOf(pc[p].block + 1)) /\ Continue(p, "launched")
  /\ UNCHANGED <<cfg, early, landed, update>>

\* Recomputing, the next block of the span or the first of the span before it.
NextRecomputed(b) == IF (b + 1) % cfg.span = 0 THEN b - cfg.span * 2 + 1 ELSE b + 1

PrefetchRecomputed(p) ==
  /\ At(p, "recompute", "pre") /\ Launches(p)
  /\ LET next == NextRecomputed(pc[p].block)
     IN  Gather(p, IF next \in 0 .. Blocks - 1 THEN ModulesOf(next) ELSE <<>>)
  /\ Continue(p, "launched")
  /\ UNCHANGED <<cfg, early, broadcasts, landed, update>>

PreModule(p) ==
  /\ \E phase \in {"forward", "recompute"} :
       \/ At(p, phase, "launched")
       \/ At(p, phase, "pre") /\ ~(Launches(p) /\ (phase = "recompute" \/ pc[p].block + 1 < Blocks))
  /\ Gather(p, IfMissing(p, Running(p))) /\ Continue(p, "run")
  /\ UNCHANGED <<cfg, early, broadcasts, landed, update>>

\* Module granularity: the next module; recomputing, within the block, then
\* the first module of the block before.
NextModule(p) ==
  LET m == Running(p)
      last == m = Blocks * Width
  IN  IF cfg.grain = "layer" THEN <<>>
      ELSE IF pc[p].phase = "forward" THEN IF last THEN <<>> ELSE <<m + 1>>
      ELSE IF ~last /\ BlockOf(m + 1) = BlockOf(m) THEN <<m + 1>>
      ELSE IF BlockOf(m) >= 1 THEN <<(BlockOf(m) - 1) * Width + 1>> ELSE <<>>

\* Backward of a block, or of its whole span after recomputing it.
StartBackward(p, b) ==
  IF Recomputed(b) THEN Goto(p, "recompute", "pre", SpanStart(b), 1)
  ELSE Goto(p, "backward", "pre", b, Width)

RunModule(p) ==
  LET m == Running(p)
      b == pc[p].block
      kept == pc[p].phase = "recompute" /\ Recomputed(b)
  IN  /\ At(p, "forward", "run") \/ At(p, "recompute", "run")
      /\ Done(OpOf(p, m))
      /\ GatherRelease(p, NextModule(p), IF kept THEN {} ELSE {m})
      /\ IF pc[p].k < Width THEN Goto(p, pc[p].phase, "pre", b, pc[p].k + 1)
         ELSE IF pc[p].phase = "forward"
         THEN IF b + 1 < Blocks THEN Goto(p, "forward", "enter", b + 1, 1)
              ELSE StartBackward(p, b)
         ELSE IF b + 1 < SpanStart(b) + cfg.span THEN Goto(p, "recompute", "pre", b + 1, 1)
              ELSE Goto(p, "backward", "pre", b, Width)
      /\ UNCHANGED <<cfg, early, broadcasts, landed, update>>

-----------------------------------------------------------------------------
(* Backward.  The pre-backward hooks exist unless every block is recomputed.*)

Hooked == cfg.ckpt < Blocks

PreBackward(p) ==
  /\ At(p, "backward", "pre")
  /\ Gather(p, IF Hooked THEN IfMissing(p, Running(p)) ELSE <<>>) /\ Continue(p, "run")
  /\ UNCHANGED <<cfg, early, broadcasts, landed, update>>

Preceding(m) ==
  IF Hooked /\ m > 1 /\ ~Recomputed(BlockOf(m - 1)) THEN <<m - 1>> ELSE <<>>

\* The gradient's reduce-scatter follows the prefetch on the same group.
RunBackward(p) ==
  LET m == Running(p) IN
  /\ At(p, "backward", "run")
  /\ m \in Holding(p) => Done(OpOf(p, m))
  /\ IF m \notin Holding(p) \/ (\E i \in DOMAIN Preceding(m) : Preceding(m)[i] \in Holding(p))
     THEN broken' = [broken EXCEPT ![p] = TRUE] /\ UNCHANGED <<pc, held, ops, early>>
     ELSE LET n == ops[p] + Len(Preceding(m)) + 1 IN
          /\ held' = [held EXCEPT ![p] =
                        {h \in @ \union Gathered(p, Preceding(m)) : h.module # m}]
          /\ ops' = [ops EXCEPT ![p] = n]
          /\ early' = [early EXCEPT ![p].curr = @ \union {n}]
          /\ IF pc[p].k > 1 THEN Goto(p, "backward", "pre", pc[p].block, pc[p].k - 1)
             ELSE Continue(p, "end")
          /\ UNCHANGED broken
  /\ UNCHANGED <<cfg, broadcasts, landed, update>>

\* The block's backward hook waits for the block after it.
EndBlock(p) ==
  LET b == pc[p].block IN
  /\ At(p, "backward", "end")
  /\ \A n \in early[p].prev : Done(n)
  /\ early' = [early EXCEPT ![p] = [prev |-> @.curr, curr |-> {}]]
  /\ IF b = 0 THEN Goto(p, "after", "backward", 0, 1)
     ELSE IF Recomputed(b) /\ b # SpanStart(b) THEN Goto(p, "backward", "pre", b - 1, Width)
     ELSE StartBackward(p, b - 1)
  /\ UNCHANGED <<cfg, weights, broadcasts, landed, update>>

-----------------------------------------------------------------------------
\* after_backward: drain_prefetch_state waits for what is left and drops it.
AfterBackward(p) ==
  /\ At(p, "after", "backward")
  /\ \A h \in held[p] : Done(h.op)
  /\ held' = [held EXCEPT ![p] = {}]
  /\ early' = [early EXCEPT ![p] = [prev |-> {}, curr |-> {}]]
  /\ Goto(p, "update", "enter", 0, 1)
  /\ UNCHANGED <<cfg, ops, broadcasts, landed, update, broken>>

\* The optimizer changes the parameters each owner holds and leaves the
\* broadcasts to the handler, behind those of the update before.
Update(p) ==
  /\ At(p, "update", "enter") /\ update[p] < Updates
  /\ update' = [update EXCEPT ![p] = @ + 1]
  /\ left' = [left EXCEPT ![p] = @ \union update[p] * Batch + 1 .. (update[p] + 1) * Batch]
  /\ Goto(p, "forward", "enter", 0, 1)
  /\ UNCHANGED <<cfg, weights, early, issued, landed>>

-----------------------------------------------------------------------------
Init ==
  /\ cfg \in Configurations
  /\ pc = [p \in Processes |-> [phase |-> "update", at |-> "enter", block |-> 0, k |-> 1]]
  /\ held = [p \in Processes |-> {}] /\ ops = [p \in Processes |-> 0]
  /\ early = [p \in Processes |-> [prev |-> {}, curr |-> {}]]
  /\ left = [p \in Processes |-> {}] /\ issued = [p \in Processes |-> <<>>]
  /\ landed = [p \in Processes |-> 0] /\ update = [p \in Processes |-> 0]
  /\ broken = [p \in Processes |-> FALSE]

Step(p) ==
  \/ EnterBlock(p) \/ AwaitBlock(p) \/ RequestNext(p) \/ PrefetchNext(p)
  \/ PrefetchRecomputed(p) \/ PreModule(p) \/ RunModule(p)
  \/ PreBackward(p) \/ RunBackward(p) \/ EndBlock(p) \/ AfterBackward(p) \/ Update(p)

Finished(p) == pc[p].phase = "update" /\ update[p] = Updates

Next == \E p \in Processes : Step(p) \/ Land(p)

Fairness == \A p \in Processes : WF_vars(Step(p)) /\ WF_vars(Land(p))
FairSpec == Init /\ [][Next]_vars /\ Fairness

-----------------------------------------------------------------------------
(* No weight is gathered while it is held, none is missing when its module  *)
(* runs, and with full recomputation at most two blocks (the blocks of a    *)
(* span and one more) are held: hooks of three passes agree on ownership.   *)
GatheredOnce ==
  \A p \in Processes :
    /\ ~broken[p]
    /\ ~Hooked => Cardinality({BlockOf(m) : m \in Holding(p)}) <= cfg.span + 1

(* Prefetching a block's weights never reads a parameter whose broadcast is *)
(* still under way, and nothing gathered before an update outlives it.      *)
FreshWeights ==
  \A p \in Processes :
    /\ cfg.grain = "layer" => \A h \in held[p] : h.fresh
    /\ pc[p].phase = "update" => held[p] = {}

(* What modules compute with is gathered when it should be.                 *)
GatheredInTime == GatheredOnce /\ FreshWeights

(* Processes issue their broadcasts in one order, however the arrival of    *)
(* earlier ones lets their queues run ahead.                                *)
BroadcastsMatch ==
  \A p, q \in Processes :
    IsPrefix(issued[p], issued[q]) \/ IsPrefix(issued[q], issued[p])

(* No process waits for ever for a collective another never issues.         *)
UpdatesEnd == <>(\A p \in Processes : Finished(p))

=============================================================================
