------------------------------- MODULE RlBatch -------------------------------
(***************************************************************************)
(* One on-policy batch, execute_on_policy_batch of                         *)
(* src/sensenova_u1/rl/trainer.py, on every FSDP rank.  Rank 0 requests    *)
(* one rollout group per prompt from threads of its own, broadcasts each   *)
(* group, sends every image trace to the ranks that replay it, scores the  *)
(* rollouts in a thread while all ranks anchor them, and broadcasts the    *)
(* advantages with its budget; then the ranks replay and update together.  *)
(*                                                                         *)
(* The replay schedule is any that ReplaySchedule's theorems allow.  A     *)
(* collective is over once every rank has called it; a rank that fails by  *)
(* itself leaves, and the others wait for it for ever.                     *)
(***************************************************************************)
EXTENDS Integers, FiniteSets, Sequences

CONSTANTS
  W,             \* world_size: ranks, and prompts of the batch
  G,             \* group_size
  Clients,       \* rollout clients; prompt p uses client p % Clients
  Updates,       \* policy_updates_per_batch
  OffloadFrom,   \* optimizer_cpu_offload_min_images
  Batches        \* [images, schedule]: what is rolled out and where it is replayed

Ranks == 0 .. W - 1
Rollouts == 0 .. W * G - 1
Slot == [rollout : Rollouts, real : BOOLEAN]

(* Every rollout is real in one slot, and a wave's slots are alike.         *)
ASSUME BatchAssumption ==
  /\ {W, G, Clients, Updates} \subseteq Nat \ {0} /\ OffloadFrom \in Nat
  /\ \A b \in Batches :
       /\ b.images \in [Rollouts -> Nat] /\ b.schedule \in Seq([Ranks -> Slot])
       /\ \A x \in Rollouts :
            Cardinality({s \in (DOMAIN b.schedule) \X Ranks :
                           b.schedule[s[1]][s[2]] = [rollout |-> x, real |-> TRUE]}) = 1
       /\ \A w \in DOMAIN b.schedule : \A r \in Ranks :
            b.images[b.schedule[w][r].rollout] = b.images[b.schedule[w][0].rollout]

VARIABLES
  input,      \* the batch
  at,         \* where each rank is: [stage, i]
  group,      \* rollout threads: rollouts persisted, and "asked", "ready" or "failed"
  pending,    \* traces each client holds at rank 0
  said,       \* outcomes rank 0 broadcast
  turn,       \* the owner rank 0 sends to, and the image it sends next
  wire,       \* traces sent to each rank and not yet received, with the wave rank 0 was at
  received,   \* traces of each rank's work item of each wave, in order
  scoring,    \* prompts the reward thread scored, and its state
  ledger,     \* the budget as each rank knows it: [samples, calls]
  payload,    \* the budget the reward thread read
  norms,      \* whether the gradient norm of each update was finite
  offloaded,  \* ranks whose optimizer state is on the CPU
  alone       \* ranks that failed by themselves

vars == <<input, at, group, pending, said, turn, wire, received, scoring, ledger, payload,
          norms, offloaded, alone>>
rolling == <<group, pending>>
moving == <<turn, wire, received>>
paying == <<scoring, ledger, payload>>
updating == <<norms, offloaded>>

-----------------------------------------------------------------------------
Prompt(x) == x \div G
ClientOf(x) == Prompt(x) % Clients
TracesOf(x) == {x} \X (1 .. input.images[x])
TraceSeq(x) == [i \in 1 .. input.images[x] |-> <<x, i>>]
Waves == 1 .. Len(input.schedule)
Mine(r, w) == input.schedule[w][r].rollout

At(r, stage) == at[r].stage = stage
Go(r, stage, i) == at' = [at EXCEPT ![r] = [stage |-> stage, i |-> i]]
Here(stage) == \A r \in Ranks : At(r, stage)
All(stage, i) == at' = [r \in Ranks |-> [stage |-> stage, i |-> i]]

-----------------------------------------------------------------------------
(* Rollout threads of rank 0: generate, then persist one rollout after     *)
(* another with its traces; either may fail.                               *)

Persist(p) ==
  LET x == p * G + group[p].done
  IN  /\ group[p].state = "asked" /\ group[p].done < G
      /\ pending' = [pending EXCEPT ![ClientOf(x)] = @ \union TracesOf(x)]
      /\ group' = [group EXCEPT ![p] = [done |-> @.done + 1,
                                        state |-> IF @.done + 1 = G THEN "ready" ELSE @.state]]
      /\ UNCHANGED <<input, at, said, moving, paying, updating, alone>>

GroupFails(p) ==
  /\ group[p].state = "asked"
  /\ group' = [group EXCEPT ![p].state = "failed"]
  /\ UNCHANGED <<input, at, pending, said, moving, paying, updating, alone>>

\* Mutant: a failure of rank 0 is not broadcast.
BroadcastGroupSilent ==
  LET p == at[0].i IN
  /\ At(0, "collect") /\ group[p].state # "asked"
  /\ said' = IF group[p].state = "ready" THEN Append(said, TRUE) ELSE said
  /\ IF group[p].state = "failed" THEN Go(0, "reap", 0)
     ELSE IF p + 1 < W THEN Go(0, "collect", p + 1) ELSE Go(0, "join", 0)
  /\ UNCHANGED <<input, rolling, moving, paying, updating, alone>>

\* Rank 0 waits for the prompts in order and broadcasts each outcome.
BroadcastGroup ==
  LET p == at[0].i IN
  /\ At(0, "collect") /\ group[p].state # "asked"
  /\ said' = Append(said, group[p].state = "ready")
  /\ IF group[p].state = "failed" THEN Go(0, "reap", 0)
     ELSE IF p + 1 < W THEN Go(0, "collect", p + 1) ELSE Go(0, "join", 0)
  /\ UNCHANGED <<input, rolling, moving, paying, updating, alone>>

ReceiveGroup(r) ==
  LET p == at[r].i IN
  /\ r # 0 /\ At(r, "collect") /\ Len(said) > p
  /\ IF ~said[p + 1] THEN Go(r, "failed", 0)
     ELSE IF p + 1 < W THEN Go(r, "collect", p + 1) ELSE Go(r, "move", 1)
  /\ UNCHANGED <<input, rolling, said, moving, paying, updating, alone>>

\* Rank 0 leaves the loop, whatever its outcome, once every thread is done.
JoinThreads ==
  /\ At(0, "join") \/ At(0, "reap")
  /\ \A p \in Ranks : group[p].state # "asked"
  /\ IF At(0, "join") THEN Go(0, "move", 1) ELSE Go(0, "failed", 0)
  /\ UNCHANGED <<input, rolling, said, moving, paying, updating, alone>>

-----------------------------------------------------------------------------
(* Traces go from rank 0 to the owner of each slot; a padding slot needs   *)
(* the trace again, so they are kept until all are sent.                   *)

\* Mutant: a trace is given up when it is sent.
TakeTraceConsuming(trace) ==
  pending' = [pending EXCEPT ![ClientOf(trace[1])] = @ \ {trace}]

TakeTrace(trace) == UNCHANGED pending

MoveTrace ==
  LET w == at[0].i
      x == Mine(turn.owner, w)
      trace == <<x, turn.image>>
  IN  /\ At(0, "move") /\ w \in Waves /\ turn.image <= input.images[x]
      /\ IF trace \in pending[ClientOf(x)]
         THEN /\ TakeTrace(trace) /\ turn' = [turn EXCEPT !.image = @ + 1]
              /\ IF turn.owner = 0
                 THEN received' = [received EXCEPT ![0][w] = Append(@, trace)] /\ UNCHANGED wire
                 ELSE /\ wire' = [wire EXCEPT ![turn.owner] = Append(@, [wave |-> w, trace |-> trace])]
                      /\ UNCHANGED received
              /\ UNCHANGED <<at, alone>>
         ELSE Go(0, "lost", 0) /\ alone' = alone \union {0} /\ UNCHANGED <<moving, pending>>
  /\ UNCHANGED <<input, group, said, paying, updating>>

NextSlot ==
  /\ At(0, "move") /\ at[0].i \in Waves /\ turn.image > input.images[Mine(turn.owner, at[0].i)]
  /\ turn' = [owner |-> (turn.owner + 1) % W, image |-> 1]
  /\ IF turn.owner + 1 = W THEN Go(0, "move", at[0].i + 1) ELSE UNCHANGED at
  /\ UNCHANGED <<input, rolling, said, wire, received, paying, updating, alone>>

\* A receiver only counts: what arrives next is for the wave it is at.
ReceiveTrace(r) ==
  LET w == at[r].i IN
  /\ r # 0 /\ At(r, "move") /\ w \in Waves
  /\ Len(received[r][w]) < input.images[Mine(r, w)] /\ wire[r] # <<>>
  /\ received' = [received EXCEPT ![r][w] = Append(@, Head(wire[r]).trace)]
  /\ wire' = [wire EXCEPT ![r] = Tail(@)]
  /\ UNCHANGED <<input, at, rolling, said, turn, paying, updating, alone>>

NextWave(r) ==
  LET w == at[r].i IN
  /\ r # 0 /\ At(r, "move") /\ w \in Waves
  /\ Len(received[r][w]) = input.images[Mine(r, w)] /\ Go(r, "move", w + 1)
  /\ UNCHANGED <<input, rolling, said, moving, paying, updating, alone>>

\* Every payload's traces are released.
Released ==
  [c \in 0 .. Clients - 1 |-> pending[c] \ UNION {TracesOf(x) : x \in Rollouts}]

Release(r) ==
  /\ At(r, "move") /\ at[r].i > Len(input.schedule)
  /\ IF r = 0 /\ \E x \in Rollouts : ~(TracesOf(x) \subseteq pending[ClientOf(x)])
     THEN Go(0, "lost", 0) /\ alone' = alone \union {0} /\ UNCHANGED pending
     ELSE Go(r, "moved", 0) /\ pending' = (IF r = 0 THEN Released ELSE pending) /\ UNCHANGED alone
  /\ UNCHANGED <<input, group, said, moving, paying, updating>>

Barrier ==
  /\ Here("moved") /\ All("record", 0)
  /\ UNCHANGED <<input, rolling, said, moving, paying, updating, alone>>

-----------------------------------------------------------------------------
(* Scoring overlaps the anchor; the reward thread adds to rank 0's ledger.  *)

\* Mutant: the reward thread starts before the rollouts are recorded.
RecordLate(r) ==
  /\ At(r, "record")
  /\ IF r # 0 THEN UNCHANGED paying /\ Go(r, "anchor", 0)
     ELSE IF scoring.state = "idle"
     THEN scoring' = [scoring EXCEPT !.state = "running"] /\ UNCHANGED <<ledger, payload, at>>
     ELSE ledger' = [ledger EXCEPT ![0].samples = @ + W] /\ Go(0, "anchor", 0) /\ UNCHANGED <<scoring, payload>>
  /\ UNCHANGED <<input, rolling, said, moving, updating, alone>>

Record(r) ==
  /\ At(r, "record") /\ Go(r, "anchor", 0)
  /\ IF r = 0 THEN /\ ledger' = [ledger EXCEPT ![0].samples = @ + W]
                   /\ scoring' = [scoring EXCEPT !.state = "running"]
              ELSE UNCHANGED <<ledger, scoring>>
  /\ UNCHANGED <<input, rolling, said, moving, payload, updating, alone>>

Score ==
  /\ scoring.state = "running" /\ scoring.done < W
  /\ scoring' = [scoring EXCEPT !.done = @ + 1]
  /\ ledger' = [ledger EXCEPT ![0].calls = @ + 1]
  /\ UNCHANGED <<input, at, rolling, said, moving, payload, updating, alone>>

ScoringFails ==
  /\ scoring.state = "running" /\ scoring.done < W
  /\ scoring' = [scoring EXCEPT !.state = "failed"]
  /\ UNCHANGED <<input, at, rolling, said, moving, ledger, payload, updating, alone>>

ScoringEnds ==
  /\ scoring.state = "running" /\ scoring.done = W
  /\ scoring' = [scoring EXCEPT !.state = "ready"] /\ payload' = ledger[0]
  /\ UNCHANGED <<input, at, rolling, said, moving, ledger, updating, alone>>

\* A rank's own checks of its rollouts may fail; rank 0 still waits for the
\* reward thread before it leaves.
FailsAlone(r) ==
  /\ At(r, "anchor") \/ At(r, "replay")
  /\ alone' = alone \union {r}
  /\ IF r = 0 /\ At(0, "anchor") THEN Go(0, "reap reward", 0) ELSE Go(r, "failed", 0)
  /\ UNCHANGED <<input, rolling, said, moving, paying, updating>>

Anchored(r) ==
  /\ At(r, "anchor") /\ Go(r, "anchored", 0)
  /\ UNCHANGED <<input, rolling, said, moving, paying, updating, alone>>

ReduceAnchors ==
  /\ Here("anchored") /\ All("reward", 0)
  /\ UNCHANGED <<input, rolling, said, moving, paying, updating, alone>>

\* Rank 0 waits for the scores and broadcasts them with the budget.
BroadcastReward ==
  /\ At(0, "reward") /\ scoring.state \in {"ready", "failed"}
  /\ said' = Append(said, scoring.state = "ready")
  /\ IF scoring.state = "ready"
     THEN ledger' = [ledger EXCEPT ![0] = payload] /\ Go(0, "images", 0)
     ELSE Go(0, "reap reward", 0) /\ UNCHANGED ledger
  /\ UNCHANGED <<input, rolling, moving, scoring, payload, updating, alone>>

ReceiveReward(r) ==
  /\ r # 0 /\ At(r, "reward") /\ Len(said) = W + 1
  /\ IF said[W + 1] THEN ledger' = [ledger EXCEPT ![r] = payload] /\ Go(r, "images", 0)
     ELSE Go(r, "failed", 0) /\ UNCHANGED ledger
  /\ UNCHANGED <<input, rolling, said, moving, scoring, payload, updating, alone>>

ReapReward ==
  /\ At(0, "reap reward") /\ scoring.state # "running" /\ Go(0, "failed", 0)
  /\ UNCHANGED <<input, rolling, said, moving, paying, updating, alone>>

-----------------------------------------------------------------------------
(* Updates.  Whether the optimizer state is moved to the CPU for the replay *)
(* is decided for all ranks by the largest rollout any of them replays.     *)

Offloads == \E x \in Rollouts : input.images[x] >= OffloadFrom

ReduceImages ==
  /\ Here("images") /\ All("update", 1)
  /\ UNCHANGED <<input, rolling, said, moving, paying, updating, alone>>

Offload(r) ==
  /\ At(r, "update") /\ Go(r, "signatures", at[r].i)
  /\ offloaded' = IF Offloads THEN offloaded \union {r} ELSE offloaded
  /\ UNCHANGED <<input, rolling, said, moving, paying, norms, alone>>

GatherSignatures ==
  /\ Here("signatures") /\ All("replay", at[0].i)
  /\ UNCHANGED <<input, rolling, said, moving, paying, updating, alone>>

Replayed(r) ==
  /\ At(r, "replay") /\ Go(r, "norm", at[r].i)
  /\ UNCHANGED <<input, rolling, said, moving, paying, updating, alone>>

\* The norm is global: if it is not finite, every rank fails as it stands.
ReduceNorm ==
  /\ Here("norm")
  /\ \E finite \in BOOLEAN :
       /\ norms' = Append(norms, finite)
       /\ All(IF finite THEN "step" ELSE "failed", at[0].i)
  /\ UNCHANGED <<input, rolling, said, moving, paying, offloaded, alone>>

OptimizerStep(r) ==
  /\ At(r, "step")
  /\ offloaded' = offloaded \ {r}
  /\ IF at[r].i < Updates THEN Go(r, "update", at[r].i + 1) ELSE Go(r, "done", 0)
  /\ UNCHANGED <<input, rolling, said, moving, paying, norms, alone>>

-----------------------------------------------------------------------------
Init ==
  /\ input \in Batches
  /\ at = [r \in Ranks |-> [stage |-> "collect", i |-> 0]]
  /\ group = [p \in Ranks |-> [done |-> 0, state |-> "asked"]]
  /\ pending = [c \in 0 .. Clients - 1 |-> {}] /\ said = <<>>
  /\ turn = [owner |-> 0, image |-> 1] /\ wire = [r \in Ranks |-> <<>>]
  /\ received = [r \in Ranks |-> [w \in Waves |-> <<>>]]
  /\ scoring = [done |-> 0, state |-> "idle"]
  /\ ledger = [r \in Ranks |-> [samples |-> 0, calls |-> 0]]
  /\ payload = [samples |-> 0, calls |-> 0]
  /\ norms = <<>> /\ offloaded = {} /\ alone = {}

Threads ==
  \/ \E p \in Ranks : Persist(p) \/ GroupFails(p)
  \/ Score \/ ScoringFails \/ ScoringEnds

Primary == BroadcastGroup \/ JoinThreads \/ MoveTrace \/ NextSlot \/ BroadcastReward \/ ReapReward

Peer(r) ==
  \/ ReceiveGroup(r) \/ ReceiveTrace(r) \/ NextWave(r) \/ Release(r) \/ Record(r)
  \/ Anchored(r) \/ ReceiveReward(r) \/ Offload(r) \/ Replayed(r) \/ OptimizerStep(r)

Together == Barrier \/ ReduceAnchors \/ ReduceImages \/ GatherSignatures \/ ReduceNorm

Next == Threads \/ Primary \/ Together \/ \E r \in Ranks : Peer(r) \/ FailsAlone(r)

Spec == Init /\ [][Next]_vars

FairSpec ==
  /\ Spec
  /\ WF_vars(Threads) /\ WF_vars(Primary) /\ WF_vars(Together)
  /\ \A r \in Ranks : WF_vars(Peer(r))

-----------------------------------------------------------------------------
Scored(r) == at[r].stage \in {"images", "update", "signatures", "replay", "norm", "step", "done"}
Moved(r) == Scored(r) \/ at[r].stage \in {"moved", "record", "anchor", "anchored", "reward"}

(* Once traces were moved, every rank holds those of its own slots, wave    *)
(* after wave, padding included, and rank 0 no longer holds any: no trace   *)
(* is missing when a padding slot needs it again, and none outlives its     *)
(* batch.                                                                   *)
TracesWhereReplayed ==
  /\ \A r \in Ranks :
       Moved(r) => received[r] = [w \in Waves |-> TraceSeq(Mine(r, w))]
  /\ Moved(0) => \A c \in 0 .. Clients - 1 : pending[c] = {}
  /\ ~At(0, "lost")

(* Every rank replaces its budget by the one the reward thread read: it     *)
(* must hold all that rank 0 recorded and every call that was scored.       *)
BudgetsAgree ==
  \A r \in Ranks : Scored(r) => ledger[r] = [samples |-> W, calls |-> W]

(* The batch ends on every rank, with success everywhere or nowhere, unless *)
(* a rank failed by itself; a failed rollout or reward reaches all of them. *)
BatchEnds ==
  \/ <>(alone # {})
  \/ <>((\A r \in Ranks : At(r, "done") /\ offloaded = {}) \/ (\A r \in Ranks : At(r, "failed")))
=============================================================================
