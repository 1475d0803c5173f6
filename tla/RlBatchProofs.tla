---------------------------- MODULE RlBatchProofs ----------------------------
EXTENDS RlBatch, FiniteSetTheorems, TLAPS

Early == {"collect", "join", "reap", "move", "lost", "moved"}
Late == {"record", "anchor", "anchored", "reward", "reap reward",
         "images", "update", "signatures", "replay", "norm", "step", "done"}
Stages == Early \union Late \union {"failed"}
Traces == Rollouts \X (Nat \ {0})
Budget == [samples : Nat, calls : Nat]

Types ==
  /\ input \in Batches
  /\ at \in [Ranks -> [stage : Stages, i : Nat]]
  /\ group \in [Ranks -> [done : 0 .. G, state : {"asked", "ready", "failed"}]]
  /\ pending \in [0 .. Clients - 1 -> SUBSET Traces]
  /\ said \in Seq(BOOLEAN)
  /\ turn \in [owner : Ranks, image : Nat \ {0}]
  /\ wire \in [Ranks -> Seq([wave : Nat, trace : Traces])]
  /\ received \in [Ranks -> [Waves -> Seq(Traces)]]
  /\ scoring \in [done : 0 .. W, state : {"idle", "running", "ready", "failed"}]
  /\ ledger \in [Ranks -> Budget] /\ payload \in Budget
  /\ norms \in Seq(BOOLEAN) /\ offloaded \subseteq Ranks /\ alone \subseteq Ranks

SaidLength ==
  /\ Len(said) <= W + 1
  /\ At(0, "collect") => Len(said) = at[0].i /\ at[0].i < W
  /\ at[0].stage \in {"join", "move", "moved", "record", "anchor", "anchored", "reward"} =>
       Len(said) = W

SaidTruth ==
  /\ at[0].stage \in {"collect", "join", "move", "moved"} => \A p \in DOMAIN said : said[p]
  /\ At(0, "reap") => \E p \in DOMAIN said : ~said[p]
  /\ At(0, "reap reward") /\ alone = {} => \E p \in DOMAIN said : ~said[p]

PrimaryAlone ==
  \A r \in Ranks : at[r].stage \in {"join", "reap", "lost", "reap reward"} => r = 0

Abreast == \A r, s \in Ranks : at[r].stage \in Late => at[s].stage \in Late \union {"failed"}

Admitted ==
  \A r \in Ranks :
    /\ at[r].stage \in Late => Len(said) >= W /\ \A p \in 1 .. W : said[p]
    /\ Scored(r) => Len(said) = W + 1 /\ said[W + 1]

Excused ==
  alone = {} /\ (\E s \in Ranks : At(s, "failed")) =>
    (\E p \in DOMAIN said : ~said[p]) \/ \A r \in Ranks : At(r, "failed")

Control == SaidLength /\ SaidTruth /\ PrimaryAlone /\ Abreast /\ Admitted /\ Excused

(* The rank passed the exchange of the traces.                             *)
After(r) == at[r].stage \in {"moved"} \union Late

Threaded ==
  /\ \A p \in Ranks : group[p].state = "ready" => group[p].done = G
  /\ At(0, "collect") => \A p \in Ranks : p < at[0].i => group[p].state = "ready"
  /\ at[0].stage \in {"join", "move"} => \A p \in Ranks : group[p].state = "ready"
  /\ at[0].stage \notin {"collect", "join", "reap"} => \A p \in Ranks : group[p].state # "asked"

Kept ==
  /\ at[0].stage \in {"collect", "join", "move"} =>
       \A p \in Ranks : \A g \in 0 .. G - 1 :
         g < group[p].done => TracesOf(p * G + g) \subseteq pending[ClientOf(p * G + g)]
  /\ \A c \in 0 .. Clients - 1 : pending[c] \subseteq UNION {TracesOf(x) : x \in Rollouts}
  /\ After(0) => \A c \in 0 .. Clients - 1 : pending[c] = {}

Groups == Threaded /\ Kept

-----------------------------------------------------------------------------
(* A rank's traces have places <<wave, image>>, in the order they are sent  *)
(* in.  The wire of a rank carries, in that order, the traces from the one  *)
(* it awaits up to the one rank 0 sends next.                               *)

Before(p, q) == p[1] < q[1] \/ (p[1] = q[1] /\ p[2] < q[2])
Beyond(p) == <<p[1], p[2] + 1>>
Places(b, r) ==
  UNION {{w} \X (1 .. b.images[b.schedule[w][r].rollout]) : w \in 1 .. Len(b.schedule)}
Parcel(b, r, p) == [wave |-> p[1], trace |-> <<b.schedule[p[1]][r].rollout, p[2]>>]
Place(e) == <<e.wave, e.trace[2]>>

Carries(b, r, s, from, to) ==
  /\ \A n \in DOMAIN s : /\ Place(s[n]) \in Places(b, r) /\ s[n] = Parcel(b, r, Place(s[n]))
                         /\ ~Before(Place(s[n]), from) /\ Before(Place(s[n]), to)
  /\ \A p \in Places(b, r) :
       ~Before(p, from) /\ Before(p, to) => \E n \in DOMAIN s : Place(s[n]) = p
  /\ \A m, n \in DOMAIN s : m < n => Before(Place(s[m]), Place(s[n]))
  /\ \A p \in Places(b, r) : Before(p, from) => Before(p, to)

Images(r, w) == input.images[Mine(r, w)]

Awaited(r) ==
  IF At(r, "collect") THEN <<1, 1>>
  ELSE <<at[r].i, IF at[r].i \in Waves THEN Len(received[r][at[r].i]) + 1 ELSE 1>>

Unsent(r) ==
  IF After(0) THEN <<Len(input.schedule) + 1, 1>>
  ELSE IF ~At(0, "move") THEN <<1, 1>>
  ELSE IF turn.owner < r THEN <<at[0].i, 1>>
  ELSE IF turn.owner = r THEN <<at[0].i, turn.image>>
  ELSE <<at[0].i, Images(r, at[0].i) + 1>>

Begun(r, w) ==
  /\ Len(received[r][w]) <= Images(r, w)
  /\ \A i \in DOMAIN received[r][w] : received[r][w][i] = <<Mine(r, w), i>>
Whole(r, w) == received[r][w] = TraceSeq(Mine(r, w))

Turns ==
  /\ at[0].stage \in {"collect", "join"} => turn = [owner |-> 0, image |-> 1]
  /\ At(0, "move") /\ at[0].i \in Waves =>
       /\ turn.image <= Images(turn.owner, at[0].i) + 1
       /\ turn.owner = 0 => Len(received[0][at[0].i]) = turn.image - 1
       /\ turn.owner # 0 => Whole(0, at[0].i)
  /\ At(0, "move") /\ at[0].i \notin Waves => turn = [owner |-> 0, image |-> 1]

Holds(r) ==
  /\ at[r].stage \in {"collect", "join"} => \A w \in Waves : received[r][w] = <<>>
  /\ At(r, "move") => at[r].i \in 1 .. Len(input.schedule) + 1
  /\ At(r, "move") => \A w \in Waves : w < at[r].i => Whole(r, w)
  /\ At(r, "move") => \A w \in Waves : w = at[r].i => Begun(r, w)
  /\ At(r, "move") => \A w \in Waves : w > at[r].i => received[r][w] = <<>>
  /\ After(r) => \A w \in Waves : Whole(r, w)

OnItsWay(r) ==
  at[r].stage \in {"collect", "move"} => Carries(input, r, wire[r], Awaited(r), Unsent(r))

Transfers ==
  /\ Turns /\ \A r \in Ranks : Holds(r)
  /\ \A r \in Ranks \ {0} : OnItsWay(r)

-----------------------------------------------------------------------------
(* The reward thread works between the record of the rollouts and the       *)
(* broadcast of the advantages; what it charges is what rank 0 knows.       *)
First == Early \union {"record"}
Idle == at[0].stage \in First => scoring.state = "idle"
Charged ==
  /\ scoring.state = "idle" => ledger[0] = [samples |-> 0, calls |-> 0] /\ scoring.done = 0
  /\ scoring.state # "idle" => ledger[0] = [samples |-> W, calls |-> scoring.done]
  /\ scoring.state = "ready" => scoring.done = W /\ payload = [samples |-> W, calls |-> W]
Announced == Len(said) = W + 1 /\ said[W + 1] => scoring.state = "ready"
Paid == \A r \in Ranks \ {0} : Scored(r) => ledger[r] = [samples |-> W, calls |-> W]

Budgets == Idle /\ Charged /\ Announced /\ Paid

IInv == Types /\ ~At(0, "lost") /\ Control /\ Groups /\ Transfers /\ Budgets

-----------------------------------------------------------------------------
(* A batch that succeeds somewhere fails nowhere, unless a rank failed by   *)
(* itself.                                                                  *)
OutcomesAgree ==
  alone = {} => ~((\E r \in Ranks : At(r, "done")) /\ (\E r \in Ranks : At(r, "failed")))
-----------------------------------------------------------------------------
(* The batch and where the ranks are.                                      *)

\* The constants, as the proofs use them.
LEMMA Sizes ==
  /\ W \in Nat \ {0} /\ G \in Nat \ {0} /\ Clients \in Nat \ {0} /\ Updates \in Nat \ {0}
  /\ 0 \in Ranks /\ Ranks \subseteq Nat /\ \A r \in Ranks : r < W
BY BatchAssumption DEF Ranks

(* Every rank has as many images to receive in a wave.                     *)
LEMMA Alike ==
  ASSUME input \in Batches
  PROVE  /\ input.images \in [Rollouts -> Nat] /\ Len(input.schedule) \in Nat
         /\ Waves \subseteq Nat \ {0}
         /\ \A r \in Ranks, w \in Waves :
              Mine(r, w) \in Rollouts /\ Images(r, w) \in Nat /\ Images(r, w) = Images(0, w)
<1>1. /\ input.images \in [Rollouts -> Nat] /\ input.schedule \in Seq([Ranks -> Slot])
      /\ \A w \in DOMAIN input.schedule : \A r \in Ranks :
           input.images[input.schedule[w][r].rollout] = input.images[input.schedule[w][0].rollout]
  BY BatchAssumption
<1>2. Len(input.schedule) \in Nat /\ DOMAIN input.schedule = Waves /\ Waves \subseteq Nat \ {0}
  BY <1>1 DEF Waves
<1>3. ASSUME NEW r \in Ranks, NEW w \in Waves
      PROVE  Mine(r, w) \in Rollouts /\ Images(r, w) \in Nat /\ Images(r, w) = Images(0, w)
  <2>1. input.schedule[w] \in [Ranks -> Slot]
    BY <1>1, <1>2
  <2>2. input.schedule[w][r] \in Slot
    BY <2>1
  <2>3. input.schedule[w][r].rollout \in Rollouts
    BY <2>2 DEF Slot
  <2> QED BY <1>1, <1>2, <2>3 DEF Mine, Images
<1> QED BY <1>1, <1>2, <1>3

(* One rank moves, or all of them do.                                      *)
LEMMA OneMoves ==
  ASSUME NEW r \in Ranks, NEW s, NEW n,
         at \in [Ranks -> [stage : Stages, i : Nat]], Go(r, s, n)
  PROVE  /\ at'[r].stage = s /\ at'[r].i = n /\ \A q \in Ranks \ {r} : at'[q] = at[q]
         /\ s \in Stages /\ n \in Nat => at' \in [Ranks -> [stage : Stages, i : Nat]]
BY DEF Go

\* All of them do.
LEMMA AllMove ==
  ASSUME NEW s, NEW n, All(s, n)
  PROVE  /\ \A q \in Ranks : at'[q].stage = s /\ at'[q].i = n
         /\ s \in Stages /\ n \in Nat => at' \in [Ranks -> [stage : Stages, i : Nat]]
BY DEF All


(* What an appended sequence holds.                                        *)
LEMMA Appended ==
  ASSUME NEW S, NEW s \in Seq(S), NEW b \in S
  PROVE  /\ Append(s, b) \in Seq(S) /\ Len(s) \in Nat /\ DOMAIN s = 1 .. Len(s)
         /\ Len(Append(s, b)) = Len(s) + 1 /\ DOMAIN Append(s, b) = 1 .. Len(s) + 1
         /\ Append(s, b)[Len(s) + 1] = b /\ \A q \in 1 .. Len(s) : Append(s, b)[q] = s[q]
OBVIOUS

-----------------------------------------------------------------------------
\* The first state is typed.
LEMMA InitTypes == Init => Types
<1> SUFFICES ASSUME Init PROVE Types
  OBVIOUS
<1>1. 0 \in Ranks /\ W \in Nat \ {0} /\ G \in Nat \ {0}
  BY Sizes
<1>2. "collect" \in Stages
  BY DEF Stages, Early
<1>3. at \in [Ranks -> [stage : Stages, i : Nat]]
  BY <1>2 DEF Init
<1>4. /\ input \in Batches /\ said \in Seq(BOOLEAN) /\ norms \in Seq(BOOLEAN)
      /\ offloaded \subseteq Ranks /\ alone \subseteq Ranks
  BY DEF Init
<1>5. /\ turn \in [owner : Ranks, image : Nat \ {0}] /\ scoring \in [done : 0 .. W,
             state : {"idle", "running", "ready", "failed"}]
      /\ ledger \in [Ranks -> Budget] /\ payload \in Budget
  BY <1>1 DEF Init, Budget
<1>6. /\ group \in [Ranks -> [done : 0 .. G, state : {"asked", "ready", "failed"}]]
      /\ pending \in [0 .. Clients - 1 -> SUBSET Traces]
  BY <1>1 DEF Init
<1>7. /\ wire \in [Ranks -> Seq([wave : Nat, trace : Traces])]
      /\ received \in [Ranks -> [Waves -> Seq(Traces)]]
  BY DEF Init
<1> QED BY <1>3, <1>4, <1>5, <1>6, <1>7 DEF Types

\* A rollout's traces, as a set and in order.
LEMMA TracesTyped ==
  ASSUME input \in Batches, NEW x \in Rollouts
  PROVE  TracesOf(x) \subseteq Traces /\ TraceSeq(x) \in Seq(Traces)
<1>1. input.images \in [Rollouts -> Nat]
  BY Alike
<1>2. input.images[x] \in Nat
  BY <1>1
<1> QED BY <1>2 DEF TracesOf, TraceSeq, Traces

\* A step of the ranks leaves these alone, or changes only their places.
LEMMA PlacesTyped ==
  ASSUME Types, UNCHANGED <<input, rolling, said, moving, paying, updating, alone>>,
         at' \in [Ranks -> [stage : Stages, i : Nat]]
  PROVE  Types'
<1>1. Waves' = Waves
  BY DEF Waves
<1> QED BY <1>1 DEF Types, rolling, moving, paying, updating, Traces, Budget

\* Every step keeps the types.
LEMMA NextTypes == Types /\ [Next]_vars => Types'
<1> SUFFICES ASSUME Types, [Next]_vars PROVE Types'
  OBVIOUS
<1>s. /\ W \in Nat \ {0} /\ G \in Nat \ {0} /\ 0 \in Ranks
      /\ Updates \in Nat \ {0} /\ Clients \in Nat \ {0}
  BY Sizes
<1>t. /\ input \in Batches /\ at \in [Ranks -> [stage : Stages, i : Nat]]
      /\ group \in [Ranks -> [done : 0 .. G, state : {"asked", "ready", "failed"}]]
      /\ pending \in [0 .. Clients - 1 -> SUBSET Traces] /\ said \in Seq(BOOLEAN)
      /\ turn \in [owner : Ranks, image : Nat \ {0}]
      /\ wire \in [Ranks -> Seq([wave : Nat, trace : Traces])]
      /\ received \in [Ranks -> [Waves -> Seq(Traces)]]
      /\ scoring \in [done : 0 .. W, state : {"idle", "running", "ready", "failed"}]
      /\ ledger \in [Ranks -> Budget] /\ payload \in Budget
      /\ norms \in Seq(BOOLEAN) /\ offloaded \subseteq Ranks /\ alone \subseteq Ranks
  BY DEF Types
<1>a. at \in [Ranks -> [stage : Stages, i : Nat]] /\ \A r \in Ranks : at[r].i \in Nat
  BY <1>t
<1>w. input' = input => Waves' = Waves
  BY DEF Waves
<1>p. /\ "collect" \in Stages /\ "join" \in Stages /\ "reap" \in Stages /\ "move" \in Stages
      /\ "lost" \in Stages /\ "moved" \in Stages /\ "record" \in Stages /\ "anchor" \in Stages
      /\ "anchored" \in Stages /\ "reward" \in Stages /\ "reap reward" \in Stages
      /\ "images" \in Stages /\ "update" \in Stages /\ "signatures" \in Stages
      /\ "replay" \in Stages /\ "norm" \in Stages /\ "step" \in Stages /\ "done" \in Stages
      /\ "failed" \in Stages
  BY DEF Stages, Early, Late
<1> DEFINE Placed == at' \in [Ranks -> [stage : Stages, i : Nat]]
<1>1. ASSUME NEW p \in Ranks, Persist(p) PROVE Types'
  <2> DEFINE x == p * G + group[p].done
  <2>1. x \in Rollouts /\ group[p].done \in 0 .. G /\ group[p].done < G
    <3>1. group[p].done \in 0 .. G /\ group[p].done < G /\ p \in 0 .. W - 1
      BY <1>1, <1>t DEF Persist, Ranks
    <3>2. PICK d \in Nat : d = group[p].done
      BY <3>1
    <3>3. p * G \in Nat /\ p * G + G <= W * G
      <4>1. p + 1 <= W /\ p \in Nat
        BY <3>1, <1>s
      <4>2. (p + 1) * G <= W * G /\ (p + 1) * G = p * G + G /\ p * G \in Nat /\ W * G \in Nat
        BY <4>1, <1>s
      <4> QED BY <4>2
    <3> QED BY <3>1, <3>2, <3>3, <1>s DEF Rollouts
  <2>2. TracesOf(x) \subseteq Traces
    BY <2>1, <1>t, TracesTyped
  <2>3. pending' \in [0 .. Clients - 1 -> SUBSET Traces]
    BY <1>1, <1>t, <2>2 DEF Persist
  <2>4. group' \in [Ranks -> [done : 0 .. G, state : {"asked", "ready", "failed"}]]
    <3>1. PICK d \in 0 .. G,
          e \in {"asked", "ready", "failed"} : group[p] = [done |-> d, state |-> e]
      BY <1>t
    <3>2. d + 1 \in 0 .. G
      BY <2>1, <3>1, <1>s
    <3>3. group' = [group EXCEPT ![p] = [done |-> d + 1,
                                        state |-> IF d + 1 = G THEN "ready" ELSE e]]
      BY <1>1, <1>t, <3>1 DEF Persist
    <3> QED BY <3>2, <3>3, <1>t
  <2> QED BY <1>1, <1>t, <1>w, <2>3, <2>4 DEF Types, Persist, moving, paying, updating, Traces,
      Budget
<1>2. ASSUME NEW p \in Ranks, GroupFails(p) PROVE Types'
  <2>1. group' \in [Ranks -> [done : 0 .. G, state : {"asked", "ready", "failed"}]]
    BY <1>2, <1>t DEF GroupFails
  <2> QED BY <1>2, <1>t, <1>w, <2>1 DEF Types, GroupFails, moving, paying, updating, Traces, Budget
<1>3. ASSUME BroadcastGroup PROVE Types'
  <2>1. /\ at[0].i \in Nat /\ said' \in Seq(BOOLEAN)
        /\ UNCHANGED <<input, rolling, moving, paying, updating, alone>>
    BY <1>3, <1>t, <1>s DEF BroadcastGroup
  <2>2. Placed
    <3>1. PICK n \in Nat : at[0].i = n
      BY <1>a, <1>s
    <3>2. Go(0, "reap", 0) \/ Go(0, "collect", n + 1) \/ Go(0, "join", 0)
      BY <1>3, <3>1 DEF BroadcastGroup
    <3>3. n + 1 \in Nat /\ 0 \in Nat /\ 1 \in Nat
      BY <3>1
    <3>4. (\E s \in Stages, m \in Nat : Go(0, s, m)) \/ UNCHANGED at
      BY <3>2, <3>3, <3>1, <1>p
    <3> QED BY <3>4, <1>a, <1>s, OneMoves
  <2> QED BY <1>t, <1>w, <2>1, <2>2 DEF Types, rolling, moving, paying, updating, Traces, Budget
<1>4. ASSUME NEW r \in Ranks, ReceiveGroup(r) PROVE Types'
  <2>1. Placed
    <3>1. PICK n \in Nat : at[r].i = n
      BY <1>a, <1>s
    <3>2. Go(r, "failed", 0) \/ Go(r, "collect", n + 1) \/ Go(r, "move", 1)
      BY <1>4, <3>1 DEF ReceiveGroup
    <3>3. n + 1 \in Nat /\ 0 \in Nat /\ 1 \in Nat
      BY <3>1
    <3>4. (\E s \in Stages, m \in Nat : Go(r, s, m)) \/ UNCHANGED at
      BY <3>2, <3>3, <3>1, <1>p
    <3> QED BY <3>4, <1>a, <1>s, OneMoves
  <2> QED BY <1>4, <2>1, PlacesTyped DEF ReceiveGroup
<1>5. ASSUME JoinThreads PROVE Types'
  <2>1. Placed
    <3>1. \E s \in Stages, n \in Nat : Go(0, s, n)
      BY <1>5, <1>s, <1>p, <1>a DEF JoinThreads
    <3> QED BY <3>1, <1>a, <1>s, OneMoves
  <2> QED BY <1>5, <2>1, PlacesTyped DEF JoinThreads
<1>6. ASSUME MoveTrace PROVE Types'
  <2> DEFINE w == at[0].i
             x == Mine(turn.owner, w)
             trace == <<x, turn.image>>
  <2>1. w \in Waves /\ turn.owner \in Ranks /\ turn.image \in Nat \ {0} /\ trace \in Traces
          /\ w \in Nat
    <3>1. w \in Waves /\ turn.owner \in Ranks /\ turn.image \in Nat \ {0} /\ w \in Nat
      BY <1>6, <1>t, <1>s DEF MoveTrace
    <3>2. x \in Rollouts
      BY <3>1, <1>t, Alike
    <3> QED BY <3>1, <3>2 DEF Traces
  <2> HIDE DEF w, x, trace
  <2>2. CASE trace \in pending[ClientOf(x)]
    <3>1. /\ UNCHANGED <<at, pending, alone, input, group, said, paying, updating>>
          /\ turn' = [turn EXCEPT !.image = @ + 1]
          /\ \/ received' = [received EXCEPT ![0][w] = Append(@, trace)] /\ wire' = wire
             \/ /\ wire' = [wire EXCEPT ![turn.owner] = Append(@, [wave |-> w, trace |-> trace])]
                /\ received' = received
      BY <1>6, <2>2 DEF MoveTrace, TakeTrace, w, x, trace
    <3>2. turn' \in [owner : Ranks, image : Nat \ {0}]
      <4>1. PICK o \in Ranks, m \in Nat \ {0} : turn = [owner |-> o, image |-> m]
        BY <1>t
      <4>2. turn' = [owner |-> o, image |-> m + 1]
        BY <3>1, <4>1
      <4> QED BY <4>2
    <3>3. received' \in [Ranks -> [Waves -> Seq(Traces)]]
      <4>1. received[0][w] \in Seq(Traces)
        BY <2>1, <1>s, <1>t
      <4>2. Append(received[0][w], trace) \in Seq(Traces)
        BY <2>1, <4>1
      <4>3. [received[0] EXCEPT ![w] = Append(@, trace)] \in [Waves -> Seq(Traces)]
        BY <4>2, <2>1, <1>s, <1>t
      <4>4. CASE received' = [received EXCEPT ![0][w] = Append(@, trace)]
        BY <4>3, <4>4, <1>s, <1>t
      <4> QED BY <3>1, <4>4, <1>t
    <3>4. wire' \in [Ranks -> Seq([wave : Nat, trace : Traces])]
      <4>1. wire[turn.owner] \in Seq([wave : Nat, trace : Traces])
        BY <2>1, <1>t
      <4>2. [wave |-> w, trace |-> trace] \in [wave : Nat, trace : Traces]
        BY <2>1
      <4>3. Append(wire[turn.owner],
                [wave |-> w, trace |-> trace]) \in Seq([wave : Nat, trace : Traces])
        BY <4>1, <4>2
      <4> QED BY <3>1, <4>3, <2>1, <1>t
    <3> QED BY <3>1, <3>2, <3>3, <3>4, <1>t, <1>w DEF Types, paying, updating, Traces, Budget
  <2>3. CASE trace \notin pending[ClientOf(x)]
    <3>1. /\ UNCHANGED <<moving, pending, input, group, said, paying, updating>>
          /\ Go(0, "lost", 0) /\ alone' = alone \union {0}
      BY <1>6, <2>3 DEF MoveTrace, w, x, trace
    <3>2. Placed
      <4>1. \E s \in Stages, n \in Nat : Go(0, s, n)
        BY <3>1, <1>s, <1>p, <1>a
      <4> QED BY <4>1, <1>a, <1>s, OneMoves
    <3> QED BY <3>1, <3>2, <1>s, <1>t, <1>w DEF Types, moving, paying, updating, Traces, Budget
  <2> QED BY <2>2, <2>3
<1>7. ASSUME NextSlot PROVE Types'
  <2>1. Placed
    <3>1. PICK n \in Nat : at[0].i = n
      BY <1>a, <1>s
    <3>2. Go(0, "move", n + 1) \/ UNCHANGED at
      BY <1>7, <3>1 DEF NextSlot
    <3>3. n + 1 \in Nat /\ 0 \in Nat /\ 1 \in Nat
      BY <3>1
    <3>4. (\E s \in Stages, m \in Nat : Go(0, s, m)) \/ UNCHANGED at
      BY <3>2, <3>3, <3>1, <1>p
    <3> QED BY <3>4, <1>a, <1>s, OneMoves
  <2>2. turn' \in [owner : Ranks, image : Nat \ {0}]
    <3>1. turn.owner \in Nat /\ turn' = [owner |-> ((turn.owner + 1) % W), image |-> 1]
      BY <1>7, <1>t, Sizes DEF NextSlot
    <3>2. ((turn.owner + 1) % W) \in 0 .. W - 1
      BY <3>1, <1>s
    <3> QED BY <3>1, <3>2 DEF Ranks
  <2> QED BY <1>7, <1>t, <1>w, <2>1, <2>2 DEF Types, NextSlot, rolling, paying, updating, Traces,
      Budget
<1>8. ASSUME NEW r \in Ranks, ReceiveTrace(r) PROVE Types'
  <2> DEFINE w == at[r].i
  <2>1. /\ w \in Waves /\ wire[r] # <<>> /\ wire[r] \in Seq([wave : Nat, trace : Traces])
        /\ received' = [received EXCEPT ![r][w] = Append(@, Head(wire[r]).trace)]
        /\ wire' = [wire EXCEPT ![r] = Tail(@)]
        /\ UNCHANGED <<input, at, rolling, said, turn, paying, updating, alone>>
    BY <1>8, <1>t DEF ReceiveTrace
  <2> HIDE DEF w
  <2>2. /\ Head(wire[r]) \in [wave : Nat, trace : Traces]
        /\ Tail(wire[r]) \in Seq([wave : Nat, trace : Traces])
    <3> DEFINE S == [wave : Nat, trace : Traces]
               q == wire[r]
    <3>1. q \in Seq(S) /\ q # <<>>
      BY <2>1
    <3> HIDE DEF S, q
    <3>2. Head(q) \in S /\ Tail(q) \in Seq(S)
      BY <3>1
    <3> QED BY <3>2 DEF S, q
  <2>3. received' \in [Ranks -> [Waves -> Seq(Traces)]]
    <3>1. Head(wire[r]).trace \in Traces /\ received[r][w] \in Seq(Traces)
      BY <2>1, <2>2, <1>t
    <3>2. Append(received[r][w], Head(wire[r]).trace) \in Seq(Traces)
      BY <3>1
    <3> QED BY <2>1, <3>2, <1>t
  <2>4. wire' \in [Ranks -> Seq([wave : Nat, trace : Traces])]
    BY <2>1, <2>2, <1>t
  <2> QED BY <2>1, <2>3, <2>4, <1>t, <1>w DEF Types, rolling, paying, updating, Traces, Budget
<1>9. ASSUME NEW r \in Ranks, NextWave(r) PROVE Types'
  <2>1. Placed
    <3>1. PICK n \in Nat : at[r].i = n
      BY <1>a, <1>s
    <3>2. Go(r, "move", n + 1)
      BY <1>9, <3>1 DEF NextWave
    <3>3. n + 1 \in Nat /\ 0 \in Nat /\ 1 \in Nat
      BY <3>1
    <3>4. (\E s \in Stages, m \in Nat : Go(r, s, m)) \/ UNCHANGED at
      BY <3>2, <3>3, <3>1, <1>p
    <3> QED BY <3>4, <1>a, <1>s, OneMoves
  <2> QED BY <1>9, <2>1, PlacesTyped DEF NextWave
<1>10. ASSUME NEW r \in Ranks, Release(r) PROVE Types'
  <2>1. Placed
    <3>1. \E s \in Stages, n \in Nat : Go(r, s, n)
      BY <1>10, <1>p, <1>a DEF Release
    <3> QED BY <3>1, <1>a, <1>s, OneMoves
  <2>2. pending' \in [0 .. Clients - 1 -> SUBSET Traces] /\ alone' \subseteq Ranks
    <3>1. Released \in [0 .. Clients - 1 -> SUBSET Traces]
      BY <1>t DEF Released
    <3>2. /\ pending' = pending \/ pending' = Released
          /\ alone' = alone \/ alone' = alone \union {0}
      BY <1>10 DEF Release
    <3> QED BY <3>1, <3>2, <1>t, <1>s
  <2> QED BY <1>10, <1>t, <1>w, <2>1, <2>2 DEF Types, Release, moving, paying, updating, Traces,
      Budget
<1>11. ASSUME Barrier PROVE Types'
  <2>1. Placed
    <3>1. \E s \in Stages, n \in Nat : All(s, n)
      BY <1>11, <1>p, <1>a DEF Barrier
    <3> QED BY <3>1, AllMove
  <2> QED BY <1>11, <2>1, PlacesTyped DEF Barrier
<1>12. ASSUME NEW r \in Ranks, Record(r) PROVE Types'
  <2>1. Placed
    <3>1. \E s \in Stages, n \in Nat : Go(r, s, n)
      BY <1>12, <1>p, <1>a DEF Record
    <3> QED BY <3>1, <1>a, <1>s, OneMoves
  <2>2. /\ ledger' \in [Ranks -> Budget]
        /\ scoring' \in [done : 0 .. W, state : {"idle", "running", "ready", "failed"}]
    <3>1. PICK a \in Nat, b \in Nat : ledger[0] = [samples |-> a, calls |-> b]
      BY <1>t, <1>s DEF Budget
    <3>2. PICK d \in 0 .. W, e \in {"idle", "running", "ready", "failed"} :
            scoring = [done |-> d, state |-> e]
      BY <1>t
    <3>3. CASE r = 0
      <4>1. /\ ledger' = [ledger EXCEPT ![0] = [samples |-> a + W, calls |-> b]]
            /\ scoring' = [done |-> d, state |-> "running"]
        BY <1>12, <3>1, <3>2, <3>3, <1>t, <1>s DEF Record
      <4>2. [samples |-> a + W, calls |-> b] \in Budget
        BY <1>s DEF Budget
      <4> QED BY <4>1, <4>2, <1>t, <1>s
    <3>4. CASE r # 0
      BY <1>12, <3>4, <1>t DEF Record
    <3> QED BY <3>3, <3>4
  <2> QED BY <1>12, <1>t, <1>w, <2>1, <2>2 DEF Types, Record, rolling, moving, updating, Traces,
      Budget
<1>13. ASSUME Score \/ ScoringFails \/ ScoringEnds PROVE Types'
  <2>1. /\ ledger' \in [Ranks -> Budget] /\ payload' \in Budget
        /\ scoring' \in [done : 0 .. W, state : {"idle", "running", "ready", "failed"}]
    <3>1. PICK a \in Nat, b \in Nat : ledger[0] = [samples |-> a, calls |-> b]
      BY <1>t, <1>s DEF Budget
    <3>2. PICK d \in 0 .. W, e \in {"idle", "running", "ready", "failed"} :
            scoring = [done |-> d, state |-> e]
      BY <1>t
    <3>3. CASE Score
      <4>1. /\ ledger' = [ledger EXCEPT ![0] = [samples |-> a, calls |-> b + 1]]
            /\ scoring' = [done |-> d + 1, state |-> e] /\ d < W /\ payload' = payload
        <5>1. /\ ledger' = [ledger EXCEPT ![0].calls = @ + 1] /\ scoring.done < W
              /\ scoring' = [scoring EXCEPT !.done = @ + 1] /\ payload' = payload
          BY <3>3 DEF Score
        <5>2. ledger' = [ledger EXCEPT ![0] = [ledger[0] EXCEPT !.calls = @ + 1]]
          BY <5>1
        <5>3. [ledger[0] EXCEPT !.calls = @ + 1] = [samples |-> a, calls |-> b + 1]
          BY <3>1
        <5>4. scoring' = [done |-> d + 1, state |-> e] /\ d < W
          BY <5>1, <3>2
        <5> QED BY <5>1, <5>2, <5>3, <5>4
      <4>2. [samples |-> a, calls |-> b + 1] \in Budget /\ d + 1 \in 0 .. W
        BY <4>1, <1>s DEF Budget
      <4> QED BY <4>1, <4>2, <1>t, <1>s
    <3>4. CASE ScoringFails \/ ScoringEnds
      <4>1. /\ ledger' = ledger /\ (payload' = payload \/ payload' = ledger[0])
            /\ \E f \in {"failed", "ready"} : scoring' = [done |-> d, state |-> f]
        BY <3>2, <3>4 DEF ScoringFails, ScoringEnds
      <4> QED BY <4>1, <1>t, <1>s
    <3> QED BY <1>13, <3>3, <3>4
  <2> QED BY <1>13, <1>t, <1>w, <2>1
          DEF Types, Score, ScoringFails, ScoringEnds, rolling, moving, updating, Traces, Budget
<1>14. ASSUME NEW r \in Ranks, FailsAlone(r) PROVE Types'
  <2>1. Placed
    <3>1. \E s \in Stages, n \in Nat : Go(r, s, n)
      BY <1>14, <1>s, <1>p, <1>a DEF FailsAlone
    <3> QED BY <3>1, <1>a, <1>s, OneMoves
  <2> QED BY <1>14, <1>t, <1>w, <2>1 DEF Types, FailsAlone, rolling, moving, paying, updating,
      Traces, Budget
<1>15. ASSUME NEW r \in Ranks, Anchored(r) \/ Replayed(r) PROVE Types'
  <2>1. Placed
    <3>1. \E s \in Stages, n \in Nat : Go(r, s, n)
      BY <1>15, <1>p, <1>a DEF Anchored, Replayed
    <3> QED BY <3>1, <1>a, <1>s, OneMoves
  <2> QED BY <1>15, <2>1, PlacesTyped DEF Anchored, Replayed
<1>16. ASSUME ReduceAnchors \/ ReduceImages \/ GatherSignatures PROVE Types'
  <2>1. Placed
    <3>1. \E s \in Stages, n \in Nat : All(s, n)
      BY <1>16, <1>s, <1>p, <1>a DEF ReduceAnchors, ReduceImages, GatherSignatures
    <3> QED BY <3>1, AllMove
  <2> QED BY <1>16, <2>1, PlacesTyped DEF ReduceAnchors, ReduceImages, GatherSignatures
<1>17. ASSUME BroadcastReward PROVE Types'
  <2>1. Placed
    <3>1. \E s \in Stages, n \in Nat : Go(0, s, n)
      BY <1>17, <1>s, <1>p, <1>a DEF BroadcastReward
    <3> QED BY <3>1, <1>a, <1>s, OneMoves
  <2>2. ledger' \in [Ranks -> Budget]
    <3>1. ledger' = [ledger EXCEPT ![0] = payload] \/ ledger' = ledger
      BY <1>17 DEF BroadcastReward
    <3> QED BY <3>1, <1>t, <1>s
  <2>3. said' \in Seq(BOOLEAN)
    <3> DEFINE b == scoring.state = "ready"
    <3>1. b \in BOOLEAN /\ said' = Append(said, b)
      BY <1>17 DEF BroadcastReward
    <3> HIDE DEF b
    <3> QED BY <3>1, <1>t
  <2> QED BY <1>17, <1>t, <1>w, <2>1, <2>2, <2>3
          DEF Types, BroadcastReward, rolling, moving, updating, Traces, Budget
<1>18. ASSUME NEW r \in Ranks, ReceiveReward(r) PROVE Types'
  <2>1. Placed
    <3>1. \E s \in Stages, n \in Nat : Go(r, s, n)
      BY <1>18, <1>p, <1>a DEF ReceiveReward
    <3> QED BY <3>1, <1>a, <1>s, OneMoves
  <2>2. ledger' \in [Ranks -> Budget]
    BY <1>18, <1>t DEF ReceiveReward, Budget
  <2> QED BY <1>18, <1>t, <1>w, <2>1, <2>2
          DEF Types, ReceiveReward, rolling, moving, updating, Traces, Budget
<1>19. ASSUME ReapReward PROVE Types'
  <2>1. Placed
    <3>1. \E s \in Stages, n \in Nat : Go(0, s, n)
      BY <1>19, <1>s, <1>p, <1>a DEF ReapReward
    <3> QED BY <3>1, <1>a, <1>s, OneMoves
  <2> QED BY <1>19, <2>1, PlacesTyped DEF ReapReward
<1>20. ASSUME NEW r \in Ranks, Offload(r) \/ OptimizerStep(r) PROVE Types'
  <2>1. Placed
    <3>1. PICK n \in Nat : at[r].i = n
      BY <1>a, <1>s
    <3>2. \/ Go(r, "signatures", n) \/ Go(r, "update", n + 1)
          \/ Go(r, "done", 0)
      BY <1>20, <3>1 DEF Offload, OptimizerStep
    <3>3. n + 1 \in Nat /\ 0 \in Nat /\ 1 \in Nat
      BY <3>1
    <3>4. (\E s \in Stages, m \in Nat : Go(r, s, m)) \/ UNCHANGED at
      BY <3>2, <3>3, <3>1, <1>p
    <3> QED BY <3>4, <1>a, <1>s, OneMoves
  <2>2. offloaded' \subseteq Ranks
    BY <1>20, <1>t DEF Offload, OptimizerStep
  <2> QED BY <1>20, <1>t, <1>w, <2>1, <2>2
          DEF Types, Offload, OptimizerStep, rolling, moving, paying, Traces, Budget
<1>21. ASSUME ReduceNorm PROVE Types'
  <2>1. PICK finite \in BOOLEAN : /\ norms' = Append(norms, finite)
                                  /\ All(IF finite THEN "step" ELSE "failed", at[0].i)
    BY <1>21 DEF ReduceNorm
  <2>2. Placed
    <3>1. \E s \in Stages, n \in Nat : All(s, n)
      BY <2>1, <1>s, <1>p, <1>a
    <3> QED BY <3>1, AllMove
  <2>3. norms' \in Seq(BOOLEAN)
    BY <2>1, <1>t
  <2> QED BY <1>21, <1>t, <1>w, <2>2, <2>3
          DEF Types, ReduceNorm, rolling, moving, paying, Traces, Budget
<1>22. CASE UNCHANGED vars
  BY <1>22, <1>t, <1>w DEF vars, Types, Traces, Budget
<1> QED BY <1>1, <1>2, <1>3, <1>4, <1>5, <1>6, <1>7, <1>8, <1>9, <1>10, <1>11, <1>12, <1>13,
           <1>14, <1>15, <1>16, <1>17, <1>18, <1>19, <1>20, <1>21, <1>22
        DEF Next, Threads, Primary, Together, Peer

-----------------------------------------------------------------------------
(* What rank 0 said, and where that lets the ranks be.                     *)

\* Nothing was said yet.
LEMMA InitControl == Init => Control
<1> SUFFICES ASSUME Init PROVE Control
  OBVIOUS
<1>1. /\ \A r \in Ranks : at[r].stage = "collect" /\ at[r].i = 0
      /\ said = <<>> /\ 0 \in Ranks /\ W \in Nat \ {0}
  BY Sizes DEF Init
<1>2. Len(said) = 0 /\ DOMAIN said = {} /\ at[0].stage = "collect" /\ at[0].i = 0
  BY <1>1
<1>3. SaidLength
  BY <1>2, Sizes DEF SaidLength, At
<1>7. PrimaryAlone
  BY <1>1 DEF PrimaryAlone
<1>4. SaidTruth
  BY <1>2 DEF SaidTruth, At
<1>5. Abreast /\ Admitted
  BY <1>1 DEF Abreast, Admitted, Scored, Late
<1>6. Excused
  BY <1>1 DEF Excused, At
<1> QED BY <1>3, <1>4, <1>5, <1>6, <1>7 DEF Control

(* A rank that was not admitted to a later phase is not admitted by a step   *)
(* that says nothing.                                                        *)
LEMMA AdmittedStays ==
  ASSUME Admitted, said' = said,
         \A q \in Ranks : at'[q].stage \in Late => at[q].stage \in Late,
         \A q \in Ranks : Scored(q)' => Scored(q)
  PROVE  Admitted'
<1>1. ASSUME NEW q \in Ranks, at'[q].stage \in Late
      PROVE  Len(said') >= W /\ \A p \in 1 .. W : said'[p]
  <2>1. Len(said) >= W /\ \A p \in 1 .. W : said[p]
    BY <1>1 DEF Admitted
  <2> QED BY <2>1
<1>2. ASSUME NEW q \in Ranks, Scored(q)' PROVE Len(said') = W + 1 /\ said'[W + 1]
  <2>1. Len(said) = W + 1 /\ said[W + 1]
    BY <1>2 DEF Admitted
  <2> QED BY <2>1
<1> QED BY <1>1, <1>2 DEF Admitted

\* No step of a rank contradicts what rank 0 said.
LEMMA NextControl ==
  ASSUME Types, Control, [Next]_vars, ~At(0, "lost")'
  PROVE  Control'
<1>s. W \in Nat \ {0} /\ 0 \in Ranks
  BY Sizes
<1>t. /\ at \in [Ranks -> [stage : Stages, i : Nat]] /\ said \in Seq(BOOLEAN)
      /\ Len(said) \in Nat /\ DOMAIN said = 1 .. Len(said) /\ \A r \in Ranks : at[r].i \in Nat
  BY DEF Types
<1>p. /\ "collect" \notin Late /\ "join" \notin Late /\ "reap" \notin Late /\ "move" \notin Late
      /\ "lost" \notin Late /\ "moved" \notin Late /\ "failed" \notin Late
      /\ "record" \in Late /\ "anchor" \in Late /\ "anchored" \in Late /\ "reward" \in Late
      /\ "reap reward" \in Late /\ "images" \in Late /\ "update" \in Late /\ "signatures" \in Late
      /\ "replay" \in Late /\ "norm" \in Late /\ "step" \in Late /\ "done" \in Late
  BY DEF Late
<1>c. SaidLength /\ SaidTruth /\ PrimaryAlone /\ Abreast /\ Admitted /\ Excused
  BY DEF Control
<1> DEFINE Others(r) == \A q \in Ranks \ {r} : at'[q] = at[q]
<1>1. ASSUME UNCHANGED <<at, said, alone>> PROVE Control'
  BY <1>1, <1>c DEF Control, SaidLength, SaidTruth, PrimaryAlone, Abreast, Admitted, Excused, At,
     Scored
<1>2. ASSUME BroadcastGroup PROVE Control'
  <2> DEFINE p == at[0].i
             b == group[p].state = "ready"
  <2>1. /\ at[0].stage = "collect" /\ said' = Append(said, b) /\ alone' = alone
        /\ Others(0) /\ Len(said) = p /\ p < W /\ p \in Nat /\ b \in BOOLEAN
        /\ \/ group[p].state = "failed" /\ at'[0].stage = "reap"
           \/ group[p].state # "failed" /\ p + 1 < W /\ at'[0].stage = "collect" /\ at'[0].i = p + 1
           \/ group[p].state # "failed" /\ p + 1 >= W /\ at'[0].stage = "join"
    <3>1. /\ at[0].stage = "collect" /\ said' = Append(said, b) /\ alone' = alone
          /\ Len(said) = p /\ p < W /\ p \in Nat /\ b \in BOOLEAN
      BY <1>2, <1>s, <1>t DEF BroadcastGroup, Control, SaidLength, At
    <3>2. \/ group[p].state = "failed" /\ Go(0, "reap", 0)
          \/ group[p].state # "failed" /\ p + 1 < W /\ Go(0, "collect", p + 1)
          \/ group[p].state # "failed" /\ p + 1 >= W /\ Go(0, "join", 0)
      BY <1>2, <1>s, <3>1 DEF BroadcastGroup
    <3> QED BY <3>1, <3>2, <1>s, <1>t, OneMoves
  <2>2. /\ group[p].state # "failed" => b
        /\ group[p].state = "failed" => ~b
    <3>1. p \in Ranks
      BY <2>1, <1>s DEF Ranks
    <3>2. group[p].state \in {"asked", "ready", "failed"} /\ group[p].state # "asked"
      BY <3>1, <1>2 DEF Types, BroadcastGroup
    <3> QED BY <3>2
  <2> HIDE DEF p, b
  <2>3. /\ Len(said') = p + 1 /\ DOMAIN said' = 1 .. p + 1 /\ said'[p + 1] = b
        /\ \A q \in DOMAIN said : said'[q] = said[q]
    BY <2>1, <1>t, Appended
  <2>e. \A q \in Ranks : at'[q].stage \notin Late
    <3>1. \A q \in Ranks : at[q].stage \notin Late
      BY <2>1, <1>s, <1>p, <1>c DEF Abreast
    <3> QED BY <3>1, <2>1, <1>s, <1>p
  <2>4. SaidLength'
    BY <2>1, <2>2, <2>3, <1>s, <1>t, <1>c DEF SaidLength, At
  <2>5. SaidTruth'
    <3>1. /\ p + 1 \in DOMAIN said' /\ \A q \in DOMAIN said' : q \in DOMAIN said \/ q = p + 1
          /\ \A q \in DOMAIN said : said[q]
      <4>1. \A q \in DOMAIN said : said[q]
        BY <2>1, <1>c DEF SaidTruth
      <4>2. DOMAIN said = 1 .. p
        BY <2>1, <1>t
      <4> QED BY <4>1, <4>2, <2>1, <2>3
    <3> QED BY <3>1, <2>1, <2>2, <2>3 DEF SaidTruth, At
  <2>6. PrimaryAlone'
    BY <2>1, <2>2, <2>3, <1>s, <1>t, <1>c DEF PrimaryAlone
  <2>7. Abreast'
    BY <2>e DEF Abreast
  <2>8. Admitted'
    BY <2>e DEF Admitted, Scored, Late
  <2>9. Excused'
    BY <2>1, <2>2, <2>3, <1>s, <1>t, <1>c DEF Excused, At
  <2> QED BY <2>4, <2>5, <2>6, <2>7, <2>8, <2>9 DEF Control
<1>3. ASSUME NEW r \in Ranks, ReceiveGroup(r) PROVE Control'
  <2>1. /\ r # 0 /\ at[r].stage = "collect" /\ UNCHANGED <<said, alone>> /\ Others(r)
        /\ Len(said) > at[r].i
        /\ \/ at'[r].stage = "failed" /\ ~said[at[r].i + 1]
           \/ at'[r].stage \in {"collect", "move"}
    <3>1. /\ r # 0 /\ at[r].stage = "collect" /\ UNCHANGED <<said, alone>> /\ Len(said) > at[r].i
          /\ \/ ~said[at[r].i + 1] /\ Go(r, "failed", 0)
             \/ Go(r, "collect", at[r].i + 1) \/ Go(r, "move", 1)
      BY <1>3 DEF ReceiveGroup, At
    <3> QED BY <3>1, <1>t, OneMoves
  <2>2. at'[r].stage = "failed" => \E p \in DOMAIN said : ~said[p]
    BY <2>1, <1>t
  <2>3. SaidLength'
    BY <2>1, <1>s, <2>2, <1>c DEF SaidLength, At
  <2>4. SaidTruth'
    BY <2>1, <1>s, <2>2, <1>c DEF SaidTruth, At
  <2>5. PrimaryAlone'
    BY <2>1, <1>s, <2>2, <1>c DEF PrimaryAlone
  <2>6. Abreast'
    BY <2>1, <1>s, <2>2, <1>p, <1>c DEF Abreast
  <2>7. Admitted'
    BY <2>1, <1>s, <2>2, <1>p, <1>c DEF Admitted, Scored
  <2>8. Excused'
    BY <2>1, <1>s, <2>2, <1>c DEF Excused, At
  <2> QED BY <2>3, <2>4, <2>5, <2>6, <2>7, <2>8 DEF Control
<1>4. ASSUME JoinThreads PROVE Control'
  <2>1. /\ UNCHANGED <<said, alone>> /\ Others(0)
        /\ \/ at[0].stage = "join" /\ at'[0].stage = "move"
           \/ at[0].stage = "reap" /\ at'[0].stage = "failed"
    <3>1. /\ UNCHANGED <<said, alone>>
          /\ \/ at[0].stage = "join" /\ Go(0, "move", 1)
             \/ at[0].stage = "reap" /\ Go(0, "failed", 0)
      BY <1>4 DEF JoinThreads, At
    <3> QED BY <3>1, <1>s, <1>t, OneMoves
  <2>2. SaidLength'
    BY <2>1, <1>s, <1>c DEF SaidLength, At
  <2>3. SaidTruth'
    BY <2>1, <1>s, <1>c DEF SaidTruth, At
  <2>4. PrimaryAlone'
    BY <2>1, <1>s, <1>c DEF PrimaryAlone
  <2>5. Abreast'
    BY <2>1, <1>s, <1>p, <1>c DEF Abreast
  <2>6. Admitted'
    <3>1. \A q \in Ranks : at'[q].stage \in Late => at[q].stage \in Late
      BY <2>1, <1>s, <1>p
    <3>2. \A q \in Ranks : Scored(q)' => Scored(q)
      BY <2>1, <1>s DEF Scored
    <3>3. said' = said
      BY <2>1
    <3> QED BY <3>1, <3>2, <3>3, <1>c, AdmittedStays
  <2>7. Excused'
    <3>1. \/ at'[0].stage = "move"
          \/ at'[0].stage = "failed" /\ \E p \in DOMAIN said : ~said[p]
      BY <2>1, <1>c DEF SaidTruth, At
    <3>2. CASE \E p \in DOMAIN said : ~said[p]
      BY <3>2, <2>1 DEF Excused
    <3>3. CASE at'[0].stage = "move" /\ at[0].stage = "join"
      BY <3>3, <2>1, <1>s, <1>c DEF Excused, At
    <3> QED BY <3>1, <3>2, <3>3, <2>1
  <2> QED BY <2>2, <2>3, <2>4, <2>5, <2>6, <2>7 DEF Control
<1>5. ASSUME MoveTrace \/ NextSlot \/ \E r \in Ranks : ReceiveTrace(r) \/ NextWave(r)
      PROVE  Control'
  <2>1. /\ UNCHANGED <<said, alone>> /\ \A q \in Ranks : at'[q].stage = at[q].stage
        /\ (at'[0] = at[0] \/ at[0].stage = "move")
    <3>1. CASE MoveTrace
      <4>1. \/ UNCHANGED <<at, said, alone>>
            \/ Go(0, "lost", 0)
        BY <3>1 DEF MoveTrace
      <4>2. ~Go(0, "lost", 0)
        BY <1>s, <1>t, OneMoves DEF At
      <4> QED BY <4>1, <4>2
    <3>2. CASE NextSlot
      <4>1. at[0].stage = "move" /\ UNCHANGED <<said, alone>>
              /\ (UNCHANGED at \/ Go(0, "move", at[0].i + 1))
        BY <3>2 DEF NextSlot, At
      <4> QED BY <4>1, <1>s, <1>t, OneMoves
    <3>3. ASSUME NEW r \in Ranks, ReceiveTrace(r) PROVE UNCHANGED <<at, said, alone>>
      BY <3>3 DEF ReceiveTrace
    <3>4. ASSUME NEW r \in Ranks, NextWave(r)
          PROVE  /\ UNCHANGED <<said, alone>> /\ \A q \in Ranks : at'[q].stage = at[q].stage
                 /\ at'[0] = at[0]
      <4>1. r # 0 /\ at[r].stage = "move" /\ UNCHANGED <<said, alone>> /\ Go(r, "move", at[r].i + 1)
        BY <3>4 DEF NextWave, At
      <4> QED BY <4>1, <1>s, <1>t, OneMoves
    <3> QED BY <1>5, <3>1, <3>2, <3>3, <3>4
  <2>2. SaidLength'
    BY <2>1, <1>s, <1>c DEF SaidLength, At
  <2>3. SaidTruth'
    BY <2>1, <1>s, <1>c DEF SaidTruth, At
  <2>4. PrimaryAlone'
    BY <2>1, <1>s, <1>c DEF PrimaryAlone
  <2>5. Abreast'
    BY <2>1, <1>s, <1>p, <1>c DEF Abreast
  <2>6. Admitted'
    <3>1. \A q \in Ranks : at'[q].stage \in Late => at[q].stage \in Late
      BY <2>1, <1>s, <1>p
    <3>2. \A q \in Ranks : Scored(q)' => Scored(q)
      BY <2>1, <1>s DEF Scored
    <3>3. said' = said
      BY <2>1
    <3> QED BY <3>1, <3>2, <3>3, <1>c, AdmittedStays
  <2>7. Excused'
    BY <2>1, <1>s, <1>c DEF Excused, At
  <2> QED BY <2>2, <2>3, <2>4, <2>5, <2>6, <2>7 DEF Control
<1>6. ASSUME NEW r \in Ranks, Release(r) PROVE Control'
  <2>1. /\ at[r].stage = "move" /\ at'[r].stage = "moved" /\ UNCHANGED <<said, alone>> /\ Others(r)
    <3>1. /\ at[r].stage = "move"
          /\ Go(0, "lost", 0) \/ (Go(r, "moved", 0) /\ UNCHANGED <<said, alone>>)
      BY <1>6 DEF Release, At
    <3>2. ~Go(0, "lost", 0)
      BY <1>s, <1>t, OneMoves DEF At
    <3> QED BY <3>1, <3>2, <1>t, OneMoves
  <2>2. SaidLength'
    BY <2>1, <1>s, <1>c DEF SaidLength, At
  <2>3. SaidTruth'
    BY <2>1, <1>s, <1>c DEF SaidTruth, At
  <2>4. PrimaryAlone'
    BY <2>1, <1>s, <1>c DEF PrimaryAlone
  <2>5. Abreast'
    BY <2>1, <1>s, <1>p, <1>c DEF Abreast
  <2>6. Admitted'
    <3>1. \A q \in Ranks : at'[q].stage \in Late => at[q].stage \in Late
      BY <2>1, <1>s, <1>p
    <3>2. \A q \in Ranks : Scored(q)' => Scored(q)
      BY <2>1, <1>s DEF Scored
    <3>3. said' = said
      BY <2>1
    <3> QED BY <3>1, <3>2, <3>3, <1>c, AdmittedStays
  <2>7. Excused'
    BY <2>1, <1>s, <1>c DEF Excused, At
  <2> QED BY <2>2, <2>3, <2>4, <2>5, <2>6, <2>7 DEF Control
<1>7. ASSUME Barrier PROVE Control'
  <2>1. /\ \A q \in Ranks : at[q].stage = "moved" /\ at'[q].stage = "record"
        /\ UNCHANGED <<said, alone>>
    BY <1>7, AllMove DEF Barrier, Here, At
  <2>2. Len(said) = W /\ \A p \in DOMAIN said : said[p]
    BY <2>1, <1>s DEF Control, SaidLength, SaidTruth
  <2>3. SaidLength'
    BY <2>1, <2>2, <1>s, <1>t, <1>c DEF SaidLength, At
  <2>4. SaidTruth'
    BY <2>1, <2>2, <1>s, <1>t, <1>c DEF SaidTruth, At
  <2>5. PrimaryAlone'
    BY <2>1, <2>2, <1>s, <1>t, <1>c DEF PrimaryAlone
  <2>6. Abreast'
    BY <2>1, <2>2, <1>s, <1>t, <1>p, <1>c DEF Abreast
  <2>7. Admitted'
    BY <2>1, <2>2, <1>s, <1>t DEF Admitted, Scored
  <2>8. Excused'
    BY <2>1, <2>2, <1>s, <1>t, <1>c DEF Excused, At
  <2> QED BY <2>3, <2>4, <2>5, <2>6, <2>7, <2>8 DEF Control
<1>8. ASSUME NEW r \in Ranks, Record(r) \/ Anchored(r) PROVE Control'
  <2>1. /\ at[r].stage \in {"record", "anchor"} /\ at'[r].stage \in {"anchor", "anchored"}
        /\ UNCHANGED <<said, alone>> /\ Others(r)
    <3>1. /\ at[r].stage \in {"record", "anchor"} /\ UNCHANGED <<said, alone>>
          /\ Go(r, "anchor", 0) \/ Go(r, "anchored", 0)
      BY <1>8 DEF Record, Anchored, At
    <3> QED BY <3>1, <1>t, OneMoves
  <2>2. SaidLength'
    BY <2>1, <1>s, <1>c DEF SaidLength, At
  <2>3. SaidTruth'
    BY <2>1, <1>s, <1>c DEF SaidTruth, At
  <2>4. PrimaryAlone'
    BY <2>1, <1>s, <1>c DEF PrimaryAlone
  <2>5. Abreast'
    BY <2>1, <1>s, <1>p, <1>c DEF Abreast
  <2>6. Admitted'
    BY <2>1, <1>s, <1>p, <1>c DEF Admitted, Scored
  <2>7. Excused'
    BY <2>1, <1>s, <1>c DEF Excused, At
  <2> QED BY <2>2, <2>3, <2>4, <2>5, <2>6, <2>7 DEF Control
<1>9. ASSUME NEW r \in Ranks, FailsAlone(r) PROVE Control'
  <2>1. /\ at[r].stage \in {"anchor", "replay"} /\ at'[r].stage \in {"reap reward", "failed"}
        /\ said' = said /\ alone' # {} /\ Others(r) /\ (at'[r].stage = "reap reward" => r = 0)
    <3>1. /\ at[r].stage \in {"anchor", "replay"} /\ said' = said /\ r \in alone'
          /\ (r = 0 /\ Go(r, "reap reward", 0)) \/ Go(r, "failed", 0)
      BY <1>9 DEF FailsAlone, At
    <3> QED BY <3>1, <1>t, OneMoves
  <2>2. SaidLength'
    BY <2>1, <1>s, <1>c DEF SaidLength, At
  <2>3. SaidTruth'
    BY <2>1, <1>s, <1>c DEF SaidTruth, At
  <2>4. PrimaryAlone'
    BY <2>1, <1>s, <1>c DEF PrimaryAlone
  <2>5. Abreast'
    BY <2>1, <1>s, <1>p, <1>c DEF Abreast
  <2>6. Admitted'
    BY <2>1, <1>s, <1>p, <1>c DEF Admitted, Scored
  <2>7. Excused'
    BY <2>1, <1>s, <1>c DEF Excused, At
  <2> QED BY <2>2, <2>3, <2>4, <2>5, <2>6, <2>7 DEF Control
<1>10. ASSUME ReduceAnchors PROVE Control'
  <2>1. /\ \A q \in Ranks : at[q].stage = "anchored" /\ at'[q].stage = "reward"
        /\ UNCHANGED <<said, alone>>
    BY <1>10, AllMove DEF ReduceAnchors, Here, At
  <2>2. SaidLength'
    BY <2>1, <1>s, <1>c DEF SaidLength, At
  <2>3. SaidTruth'
    BY <2>1, <1>s, <1>c DEF SaidTruth, At
  <2>4. PrimaryAlone'
    BY <2>1, <1>s, <1>c DEF PrimaryAlone
  <2>5. Abreast'
    BY <2>1, <1>s, <1>p, <1>c DEF Abreast
  <2>6. Admitted'
    BY <2>1, <1>s, <1>p, <1>c DEF Admitted, Scored
  <2>7. Excused'
    BY <2>1, <1>s, <1>c DEF Excused, At
  <2> QED BY <2>2, <2>3, <2>4, <2>5, <2>6, <2>7 DEF Control
<1>11. ASSUME BroadcastReward PROVE Control'
  <2> DEFINE b == scoring.state = "ready"
  <2>1. /\ at[0].stage = "reward" /\ said' = Append(said, b) /\ alone' = alone /\ b \in BOOLEAN
        /\ Len(said) = W /\ Others(0)
        /\ (b /\ at'[0].stage = "images") \/ (~b /\ at'[0].stage = "reap reward")
    <3>1. /\ at[0].stage = "reward" /\ said' = Append(said, b) /\ alone' = alone /\ b \in BOOLEAN
          /\ (b /\ Go(0, "images", 0)) \/ (~b /\ Go(0, "reap reward", 0))
      BY <1>11 DEF BroadcastReward, At
    <3>2. Len(said) = W
      BY <3>1 DEF Control, SaidLength
    <3> QED BY <3>1, <3>2, <1>s, <1>t, OneMoves
  <2> HIDE DEF b
  <2>2. /\ Len(said') = W + 1 /\ W + 1 \in DOMAIN said' /\ said'[W + 1] = b
        /\ \A q \in 1 .. W : q \in DOMAIN said /\ said'[q] = said[q]
        /\ \A q \in DOMAIN said : q \in 1 .. W /\ q \in DOMAIN said'
    <3>1. /\ Len(said') = Len(said) + 1 /\ DOMAIN said' = 1 .. Len(said) + 1
          /\ said'[Len(said) + 1] = b /\ \A q \in 1 .. Len(said) : said'[q] = said[q]
      <4>1. said' = Append(said, b) /\ b \in BOOLEAN /\ said \in Seq(BOOLEAN)
        BY <2>1, <1>t
      <4> QED BY <4>1, Appended
    <3>2. Len(said) = W /\ DOMAIN said = 1 .. Len(said)
      BY <2>1, <1>t
    <3> QED BY <3>1, <3>2, <1>s
  <2>3. SaidLength'
    <3>1. at'[0].stage \in {"images", "reap reward"}
      BY <2>1
    <3>2. W <= W + 1 /\ W + 1 <= W + 1
      BY <1>s
    <3> QED BY <3>1, <3>2, <2>2 DEF SaidLength, At
  <2>4. SaidTruth'
    <3>1. \/ at'[0].stage = "images"
          \/ at'[0].stage = "reap reward" /\ ~b
      BY <2>1
    <3> QED BY <3>1, <2>2 DEF SaidTruth, At
  <2>5. PrimaryAlone'
    BY <2>1, <2>2, <1>s, <1>t, <1>c DEF PrimaryAlone
  <2>6. Abreast'
    BY <2>1, <2>2, <1>s, <1>t, <1>p, <1>c, ZenonT(60) DEF Abreast
  <2>7. Admitted'
    <3>1. \A q \in Ranks : at'[q].stage \in Late => at[q].stage \in Late
      BY <2>1, <1>s, <1>p
    <3>2. ASSUME NEW q \in Ranks, at'[q].stage \in Late
          PROVE  Len(said') >= W /\ \A k \in 1 .. W : said'[k]
      BY <3>1, <3>2, <2>2, <1>s, <1>c DEF Admitted
    <3>3. ASSUME NEW q \in Ranks, Scored(q)' PROVE Len(said') = W + 1 /\ said'[W + 1]
      <4>1. CASE q = 0
        BY <4>1, <3>3, <2>1, <2>2 DEF Scored
      <4>2. CASE q # 0
        <5>1. Scored(q)
          BY <4>2, <3>3, <2>1, <1>s DEF Scored
        <5>2. Len(said) = W + 1 /\ Len(said) = W
          BY <5>1, <2>1, <1>c DEF Admitted
        <5> QED BY <5>2, <1>s
      <4> QED BY <4>1, <4>2
    <3> QED BY <3>2, <3>3 DEF Admitted
  <2>8. Excused'
    <3>1. CASE \E k \in DOMAIN said : ~said[k]
      <4>1. PICK k \in DOMAIN said : ~said[k]
        BY <3>1
      <4> QED BY <4>1, <2>2 DEF Excused
    <3>2. CASE \A k \in DOMAIN said : said[k]
      <4>1. alone = {} => ~\E q \in Ranks : at[q].stage = "failed"
        BY <3>2, <2>1, <1>s, <1>c DEF Excused, At
      <4> QED BY <4>1, <2>1, <1>s DEF Excused, At
    <3> QED BY <3>1, <3>2
  <2> QED BY <2>3, <2>4, <2>5, <2>6, <2>7, <2>8 DEF Control
<1>12. ASSUME NEW r \in Ranks, ReceiveReward(r) PROVE Control'
  <2>1. /\ r # 0 /\ at[r].stage = "reward" /\ UNCHANGED <<said, alone>> /\ Others(r)
        /\ Len(said) = W + 1
        /\ \/ said[W + 1] /\ at'[r].stage = "images"
           \/ ~said[W + 1] /\ at'[r].stage = "failed"
    <3>1. /\ r # 0 /\ at[r].stage = "reward" /\ UNCHANGED <<said, alone>> /\ Len(said) = W + 1
          /\ (said[W + 1] /\ Go(r, "images", 0)) \/ (~said[W + 1] /\ Go(r, "failed", 0))
      BY <1>12 DEF ReceiveReward, At
    <3> QED BY <3>1, <1>t, OneMoves
  <2>2. W + 1 \in DOMAIN said
    BY <2>1, <1>s, <1>t
  <2>3. SaidLength'
    BY <2>1, <1>s, <2>2, <1>c DEF SaidLength, At
  <2>4. SaidTruth'
    BY <2>1, <1>s, <2>2, <1>c DEF SaidTruth, At
  <2>5. PrimaryAlone'
    BY <2>1, <1>s, <2>2, <1>c DEF PrimaryAlone
  <2>6. Abreast'
    BY <2>1, <1>s, <2>2, <1>p, <1>c DEF Abreast
  <2>7. Admitted'
    BY <2>1, <1>s, <2>2, <1>p, <1>c DEF Admitted, Scored
  <2>8. Excused'
    BY <2>1, <1>s, <2>2, <1>c DEF Excused, At
  <2> QED BY <2>3, <2>4, <2>5, <2>6, <2>7, <2>8 DEF Control
<1>13. ASSUME ReapReward PROVE Control'
  <2>1. /\ at[0].stage = "reap reward" /\ at'[0].stage = "failed" /\ UNCHANGED <<said, alone>>
        /\ Others(0)
    <3>1. /\ at[0].stage = "reap reward" /\ UNCHANGED <<said, alone>> /\ Go(0, "failed", 0)
      BY <1>13 DEF ReapReward, At
    <3> QED BY <3>1, <1>s, <1>t, OneMoves
  <2>2. alone = {} => \E p \in DOMAIN said : ~said[p]
    BY <2>1 DEF Control, SaidTruth, At
  <2>3. SaidLength'
    BY <2>1, <1>s, <2>2, <1>c DEF SaidLength, At
  <2>4. SaidTruth'
    BY <2>1, <1>s, <2>2, <1>c DEF SaidTruth, At
  <2>5. PrimaryAlone'
    BY <2>1, <1>s, <2>2, <1>c DEF PrimaryAlone
  <2>6. Abreast'
    BY <2>1, <1>s, <2>2, <1>p, <1>c DEF Abreast
  <2>7. Admitted'
    BY <2>1, <1>s, <2>2, <1>p, <1>c DEF Admitted, Scored
  <2>8. Excused'
    BY <2>1, <1>s, <2>2, <1>c DEF Excused, At
  <2> QED BY <2>3, <2>4, <2>5, <2>6, <2>7, <2>8 DEF Control
<1>14. ASSUME ReduceImages \/ GatherSignatures PROVE Control'
  <2>1. /\ UNCHANGED <<said, alone>>
        /\ \A q \in Ranks : /\ at[q].stage \in {"images", "signatures"}
                            /\ at'[q].stage \in {"update", "replay"}
    BY <1>14, AllMove DEF ReduceImages, GatherSignatures, Here, At
  <2>2. SaidLength'
    BY <2>1, <1>s, <1>c DEF SaidLength, At
  <2>3. SaidTruth'
    BY <2>1, <1>s, <1>c DEF SaidTruth, At
  <2>4. PrimaryAlone'
    BY <2>1, <1>s, <1>c DEF PrimaryAlone
  <2>5. Abreast'
    BY <2>1, <1>s, <1>p, <1>c DEF Abreast
  <2>6. Admitted'
    BY <2>1, <1>s, <1>p, <1>c DEF Admitted, Scored
  <2>7. Excused'
    BY <2>1, <1>s, <1>c DEF Excused, At
  <2> QED BY <2>2, <2>3, <2>4, <2>5, <2>6, <2>7 DEF Control
<1>15. ASSUME NEW r \in Ranks, Offload(r) \/ Replayed(r) \/ OptimizerStep(r)
       PROVE  Control'
  <2>1. /\ at[r].stage \in {"update", "replay", "step"} /\ UNCHANGED <<said, alone>> /\ Others(r)
        /\ at'[r].stage \in {"signatures", "norm", "update", "done"}
    <3>1. /\ at[r].stage \in {"update", "replay", "step"} /\ UNCHANGED <<said, alone>>
          /\ \/ Go(r, "signatures", at[r].i) \/ Go(r, "norm", at[r].i)
             \/ Go(r, "update", at[r].i + 1) \/ Go(r, "done", 0)
      BY <1>15 DEF Offload, Replayed, OptimizerStep, At
    <3> QED BY <3>1, <1>t, OneMoves
  <2>2. SaidLength'
    BY <2>1, <1>s, <1>c DEF SaidLength, At
  <2>3. SaidTruth'
    BY <2>1, <1>s, <1>c DEF SaidTruth, At
  <2>4. PrimaryAlone'
    BY <2>1, <1>s, <1>c DEF PrimaryAlone
  <2>5. Abreast'
    BY <2>1, <1>s, <1>p, <1>c DEF Abreast
  <2>6. Admitted'
    BY <2>1, <1>s, <1>p, <1>c DEF Admitted, Scored
  <2>7. Excused'
    BY <2>1, <1>s, <1>c DEF Excused, At
  <2> QED BY <2>2, <2>3, <2>4, <2>5, <2>6, <2>7 DEF Control
<1>16. ASSUME ReduceNorm PROVE Control'
  <2>1. /\ UNCHANGED <<said, alone>> /\ \A q \in Ranks : at[q].stage = "norm"
        /\ \/ \A q \in Ranks : at'[q].stage = "step"
           \/ \A q \in Ranks : at'[q].stage = "failed"
    <3>1. /\ UNCHANGED <<said, alone>> /\ \A q \in Ranks : at[q].stage = "norm"
          /\ All("step", at[0].i) \/ All("failed", at[0].i)
      BY <1>16 DEF ReduceNorm, Here, At
    <3> QED BY <3>1, AllMove
  <2>2. SaidLength'
    BY <2>1, <1>s, <1>c DEF SaidLength, At
  <2>3. SaidTruth'
    BY <2>1, <1>s, <1>c DEF SaidTruth, At
  <2>4. PrimaryAlone'
    BY <2>1, <1>s, <1>c DEF PrimaryAlone
  <2>5. Abreast'
    BY <2>1, <1>s, <1>p, <1>c DEF Abreast
  <2>6. Admitted'
    BY <2>1, <1>s, <1>p, <1>c DEF Admitted, Scored
  <2>7. Excused'
    BY <2>1, <1>s, <1>c DEF Excused, At
  <2> QED BY <2>2, <2>3, <2>4, <2>5, <2>6, <2>7 DEF Control
<1>17. ASSUME \/ \E p \in Ranks : Persist(p) \/ GroupFails(p)
              \/ Score \/ ScoringFails \/ ScoringEnds \/ UNCHANGED vars
       PROVE  UNCHANGED <<at, said, alone>>
  BY <1>17 DEF Persist, GroupFails, Score, ScoringFails, ScoringEnds, vars
<1> QED BY <1>1, <1>2, <1>3, <1>4, <1>5, <1>6, <1>7, <1>8, <1>9, <1>10, <1>11, <1>12, <1>13,
           <1>14, <1>15, <1>16, <1>17
        DEF Next, Threads, Primary, Together, Peer

-----------------------------------------------------------------------------
(* Rollouts, their prompts and their clients.                              *)

\* Division by d counts the whole d in x and leaves the rest.
LEMMA Division ==
  ASSUME NEW d \in Nat \ {0}, NEW x \in Nat
  PROVE  \E q \in Nat, r \in 0 .. d - 1 : x \div d = q /\ x % d = r /\ x = q * d + r
<1>1. x \div d \in Nat /\ x % d \in 0 .. d - 1
  OBVIOUS
<1>2. PICK q \in Nat : x \div d = q
  BY <1>1
<1>3. PICK r \in 0 .. d - 1 : x % d = r
  BY <1>1
<1>4. x = q * d + r
  BY <1>2, <1>3
<1> QED BY <1>2, <1>3, <1>4

\* Multiples of d lie d apart.
LEMMA Spaced ==
  ASSUME NEW d \in Nat, NEW a \in Nat, NEW k \in Nat
  PROVE  (a + 1 + k) * d = a * d + d + k * d /\ a * d \in Nat /\ k * d \in Nat
         /\ (a + 1 + k) * d \in Nat
<1>1. a * d \in Nat /\ k * d \in Nat
  OBVIOUS
<1>2. (a + 1 + k) * d = a * d + d + k * d
  OBVIOUS
<1> QED BY <1>1, <1>2

\* A smaller multiple of d leaves room for a whole d below a larger one.
LEMMA Between ==
  ASSUME NEW d \in Nat, NEW a \in Nat, NEW b \in Nat, a < b
  PROVE  a * d + d <= b * d /\ a * d \in Nat /\ b * d \in Nat
<1> DEFINE k == b - 1 - a
<1>1. k \in Nat /\ b = a + 1 + k
  OBVIOUS
<1> HIDE DEF k
<1>2. /\ b * d = a * d + d + k * d
      /\ a * d \in Nat /\ k * d \in Nat /\ b * d \in Nat
  BY <1>1, Spaced
<1> QED BY <1>2

\* A rollout is numbered by its prompt and its place in the group.
LEMMA Numbered ==
  /\ \A p \in Ranks, g \in 0 .. G - 1 : p * G + g \in Rollouts
  /\ \A x \in Rollouts : \E p \in Ranks, g \in 0 .. G - 1 : x = p * G + g
<1>s. W \in Nat \ {0} /\ G \in Nat \ {0}
  BY Sizes
<1>1. ASSUME NEW p \in Ranks, NEW g \in 0 .. G - 1 PROVE p * G + g \in Rollouts
  <2>1. p \in Nat /\ p < W /\ G \in Nat /\ W \in Nat
    BY <1>s DEF Ranks
  <2>2. p * G + G <= W * G /\ p * G \in Nat /\ W * G \in Nat
    BY <2>1, Between
  <2> QED BY <2>2, <1>s DEF Rollouts
<1>2. ASSUME NEW x \in Rollouts PROVE \E p \in Ranks, g \in 0 .. G - 1 : x = p * G + g
  <2>1. x \in Nat /\ x < W * G /\ W * G \in Nat
    BY <1>s DEF Rollouts
  <2>2. PICK p \in Nat, g \in 0 .. G - 1 : x = p * G + g
    BY <1>s, <2>1, Division
  <2>3. p < W
    <3>1. SUFFICES ASSUME W <= p PROVE FALSE
      BY <1>s
    <3>2. CASE W < p
      <4>1. W * G + G <= p * G /\ p * G \in Nat
        BY <3>2, <1>s, Between
      <4> QED BY <4>1, <2>1, <2>2, <1>s
    <3>3. CASE W = p
      BY <3>3, <2>1, <2>2, <1>s
    <3>4. W < p \/ W = p
      <4>1. W \in Nat /\ p \in Nat
        BY <1>s, <2>2
      <4> QED BY <4>1, <3>1
    <3> QED BY <3>2, <3>3, <3>4
  <2>4. p \in Ranks
    BY <2>2, <2>3, <1>s DEF Ranks
  <2> QED BY <2>2, <2>4
<1> QED BY <1>1, <1>2

\* Its client is one of the clients.
LEMMA Client ==
  ASSUME NEW x \in Rollouts
  PROVE  ClientOf(x) \in 0 .. Clients - 1
<1>s. W \in Nat \ {0} /\ G \in Nat \ {0} /\ Clients \in Nat \ {0}
  BY Sizes
<1>1. PICK q \in Nat : x \div G = q
  <2>1. x \in Nat
    BY <1>s DEF Rollouts
  <2> QED BY <2>1, <1>s, Division
<1>2. q % Clients \in 0 .. Clients - 1
  BY <1>s
<1> QED BY <1>1, <1>2 DEF ClientOf, Prompt

(* The wire of a rank.                                                     *)
LEMMA PlaceOf ==
  ASSUME NEW b \in Batches, NEW r \in Ranks, NEW p
  PROVE  p \in Places(b, r) <=>
           \E w \in 1 .. Len(b.schedule), i \in Nat \ {0} :
             i <= b.images[b.schedule[w][r].rollout] /\ p = <<w, i>>
<1>1. ASSUME NEW w \in 1 .. Len(b.schedule) PROVE b.images[b.schedule[w][r].rollout] \in Nat
  <2>1. b.images \in [Rollouts -> Nat] /\ b.schedule \in Seq([Ranks -> Slot])
    BY BatchAssumption
  <2>2. b.schedule[w] \in [Ranks -> Slot]
    BY <2>1
  <2>3. b.schedule[w][r].rollout \in Rollouts
    BY <2>2 DEF Slot
  <2> QED BY <2>1, <2>3
<1>2. \A w \in 1 .. Len(b.schedule) :
        p \in {w} \X (1 .. b.images[b.schedule[w][r].rollout]) <=>
        \E i \in Nat \ {0} : i <= b.images[b.schedule[w][r].rollout] /\ p = <<w, i>>
  BY <1>1
<1> QED BY <1>2 DEF Places

(* Points that tell the places of a rank apart alike may stand for another. *)
LEMMA Renamed ==
  ASSUME NEW b, NEW r, NEW s, NEW from, NEW to, NEW from2, NEW to2,
         Carries(b, r, s, from, to),
         \A p \in Places(b, r) : Before(p, from) <=> Before(p, from2),
         \A p \in Places(b, r) : Before(p, to) <=> Before(p, to2)
  PROVE  Carries(b, r, s, from2, to2)
BY DEF Carries

(* What is sent joins the wire at its end.                                 *)
LEMMA Posted ==
  ASSUME NEW b \in Batches, NEW r \in Ranks,
         NEW s \in Seq([wave : Nat, trace : Traces]), NEW from, NEW to \in Places(b, r),
         Carries(b, r, s, from, to)
  PROVE  Carries(b, r, Append(s, Parcel(b, r, to)), from, Beyond(to))
<1> DEFINE e == Parcel(b, r, to)
           t == Append(s, e)
<1>1. PICK w \in 1 .. Len(b.schedule), i \in Nat \ {0} : to = <<w, i>>
  BY PlaceOf
<1>2. e \in [wave : Nat, trace : Traces] /\ Place(e) = to
  <2>1. Len(b.schedule) \in Nat /\ b.schedule[w] \in [Ranks -> Slot]
    <3>1. b.schedule \in Seq([Ranks -> Slot])
      BY BatchAssumption
    <3> QED BY <3>1
  <2>2. b.schedule[w][r].rollout \in Rollouts
    BY <2>1 DEF Slot
  <2>3. e = [wave |-> w, trace |-> <<b.schedule[w][r].rollout, i>>]
    BY <1>1 DEF Parcel
  <2> QED BY <1>1, <2>1, <2>2, <2>3 DEF Traces, Place
<1>3. /\ Len(s) \in Nat /\ DOMAIN s = 1 .. Len(s) /\ DOMAIN t = 1 .. Len(s) + 1
      /\ t[Len(s) + 1] = e /\ \A n \in 1 .. Len(s) : t[n] = s[n]
  BY <1>2, Appended
<1>4. \A n \in DOMAIN t : (n \in DOMAIN s /\ t[n] = s[n]) \/ (n = Len(s) + 1 /\ t[n] = e)
  BY <1>3
<1>5. \A p \in Places(b, r) : /\ Before(p, Beyond(to)) <=> Before(p, to) \/ p = to
                              /\ p[1] \in Nat /\ p[2] \in Nat
  BY <1>1, PlaceOf DEF Before, Beyond
<1>6. ~Before(to, from)
  <2>1. ~Before(to, to)
    BY <1>1 DEF Before
  <2> QED BY <2>1 DEF Carries
<1> HIDE DEF e, t
<1>7. ASSUME NEW n \in DOMAIN t
      PROVE  /\ Place(t[n]) \in Places(b, r) /\ t[n] = Parcel(b, r, Place(t[n]))
             /\ ~Before(Place(t[n]), from) /\ Before(Place(t[n]), Beyond(to))
  <2>1. CASE n \in DOMAIN s /\ t[n] = s[n]
    BY <2>1, <1>5 DEF Carries
  <2>2. CASE n = Len(s) + 1 /\ t[n] = e
    BY <2>2, <1>2, <1>5, <1>6 DEF e
  <2> QED BY <1>4, <2>1, <2>2
<1>8. ASSUME NEW p \in Places(b, r), ~Before(p, from), Before(p, Beyond(to))
      PROVE  \E n \in DOMAIN t : Place(t[n]) = p
  <2>1. CASE p = to
    BY <2>1, <1>2, <1>3
  <2>2. CASE Before(p, to)
    <3>1. PICK n \in DOMAIN s : Place(s[n]) = p
      BY <2>2, <1>8 DEF Carries
    <3>2. n \in DOMAIN t /\ t[n] = s[n]
      BY <3>1, <1>3
    <3> QED BY <3>1, <3>2
  <2> QED BY <2>1, <2>2, <1>5, <1>8
<1>9. ASSUME NEW m \in DOMAIN t, NEW n \in DOMAIN t, m < n
      PROVE  Before(Place(t[m]), Place(t[n]))
  <2>1. m \in DOMAIN s /\ t[m] = s[m]
    BY <1>3, <1>9
  <2>2. CASE n \in DOMAIN s /\ t[n] = s[n]
    BY <2>1, <2>2, <1>9 DEF Carries
  <2>3. CASE n = Len(s) + 1 /\ t[n] = e
    BY <2>1, <2>3, <1>2 DEF Carries
  <2> QED BY <1>4, <2>2, <2>3
<1>10. \A p \in Places(b, r) : Before(p, from) => Before(p, Beyond(to))
  BY <1>5 DEF Carries
<1>11. Carries(b, r, t, from, Beyond(to))
  BY <1>7, <1>8, <1>9, <1>10 DEF Carries
<1> QED BY <1>11 DEF t, e

(* What is received is what is awaited, and leaves at its head.            *)
LEMMA Delivered ==
  ASSUME NEW b \in Batches, NEW r \in Ranks,
         NEW s \in Seq([wave : Nat, trace : Traces]), NEW from \in Places(b, r), NEW to,
         s # <<>>, to[1] \in Nat, to[2] \in Nat,
         Carries(b, r, s, from, to)
  PROVE  Head(s) = Parcel(b, r, from) /\ Carries(b, r, Tail(s), Beyond(from), to)
<1> DEFINE t == Tail(s)
<1>1. PICK w \in 1 .. Len(b.schedule), i \in Nat \ {0} : from = <<w, i>>
  BY PlaceOf
<1>2. /\ Len(s) \in Nat \ {0} /\ DOMAIN s = 1 .. Len(s) /\ Head(s) = s[1] /\ 1 \in DOMAIN s
      /\ DOMAIN t = 1 .. Len(s) - 1 /\ \A n \in 1 .. Len(s) - 1 : t[n] = s[n + 1]
  OBVIOUS
<1>3. \A p \in Places(b, r) : /\ p[1] \in Nat /\ p[2] \in Nat
                              /\ Before(p, Beyond(from)) <=> Before(p, from) \/ p = from
                              /\ ~Before(from, from)
  BY <1>1, PlaceOf DEF Before, Beyond
<1>4. Before(from, to)
  <2>1. Place(s[1]) \in Places(b, r) /\ ~Before(Place(s[1]), from) /\ Before(Place(s[1]), to)
    BY <1>2 DEF Carries
  <2>2. \A p \in Places(b, r) : ~Before(p, from) /\ Before(p, to) => Before(from, to)
    BY <1>1, <1>3 DEF Before
  <2> QED BY <2>1, <2>2
<1>5. PICK n \in DOMAIN s : Place(s[n]) = from
  BY <1>3, <1>4 DEF Carries
<1>6. n = 1
  <2>1. 1 < n => Before(Place(s[1]), from)
    BY <1>2, <1>5 DEF Carries
  <2> QED BY <2>1, <1>2 DEF Carries
<1>7. Head(s) = Parcel(b, r, from)
  BY <1>2, <1>5, <1>6 DEF Carries
<1> HIDE DEF t
<1>m. ASSUME NEW m \in DOMAIN t
      PROVE  m \in Nat \ {0} /\ m + 1 \in DOMAIN s /\ t[m] = s[m + 1]
  <2>1. m \in 1 .. Len(s) - 1
    BY <1>2
  <2>2. PICK N \in Nat : N = Len(s)
    BY <1>2
  <2>3. m \in Nat \ {0} /\ m + 1 \in 1 .. N
    <3>1. m \in 1 .. N - 1
      BY <2>1, <2>2
    <3> QED BY <3>1
  <2> QED BY <1>2, <2>1, <2>2, <2>3
<1>8. ASSUME NEW m \in DOMAIN t
      PROVE  /\ Place(t[m]) \in Places(b, r) /\ t[m] = Parcel(b, r, Place(t[m]))
             /\ ~Before(Place(t[m]), Beyond(from)) /\ Before(Place(t[m]), to)
  <2>1. m + 1 \in DOMAIN s /\ t[m] = s[m + 1] /\ 1 < m + 1
    BY <1>m
  <2>2. Before(from, Place(s[m + 1]))
    BY <2>1, <1>2, <1>5, <1>6 DEF Carries
  <2>3. Place(s[m + 1]) # from
    BY <2>2, <1>3
  <2> QED BY <2>1, <2>3, <1>3 DEF Carries
<1>9. ASSUME NEW p \in Places(b, r), ~Before(p, Beyond(from)), Before(p, to)
      PROVE  \E m \in DOMAIN t : Place(t[m]) = p
  <2>1. ~Before(p, from) /\ p # from
    BY <1>9, <1>3
  <2>2. PICK m \in DOMAIN s : Place(s[m]) = p
    BY <1>9, <2>1 DEF Carries
  <2>3. m # 1
    BY <2>1, <2>2, <1>5, <1>6
  <2>4. m - 1 \in DOMAIN t /\ t[m - 1] = s[m]
    <3>1. PICK N \in Nat : N = Len(s)
      BY <1>2
    <3>2. m - 1 \in 1 .. N - 1 /\ (m - 1) + 1 = m
      BY <3>1, <2>3, <1>2
    <3> QED BY <3>1, <3>2, <1>2
  <2> QED BY <2>2, <2>4
<1>10. ASSUME NEW m \in DOMAIN t, NEW k \in DOMAIN t, m < k
       PROVE  Before(Place(t[m]), Place(t[k]))
  <2>1. m + 1 \in DOMAIN s /\ k + 1 \in DOMAIN s /\ t[m] = s[m + 1] /\ t[k] = s[k + 1]
        /\ m + 1 < k + 1
    <3>1. m \in Nat /\ k \in Nat
      BY <1>m
    <3> QED BY <3>1, <1>m, <1>10
  <2> QED BY <2>1 DEF Carries
<1>11. \A p \in Places(b, r) : Before(p, Beyond(from)) => Before(p, to)
  BY <1>3, <1>4 DEF Carries
<1>12. Carries(b, r, t, Beyond(from), to)
  BY <1>8, <1>9, <1>10, <1>11 DEF Carries
<1> QED BY <1>7, <1>12 DEF t
-----------------------------------------------------------------------------
(* The rollout groups and the traces rank 0 keeps of them.                 *)

Later ==
  \/ Barrier \/ ReduceAnchors \/ ReduceImages \/ GatherSignatures \/ ReduceNorm
  \/ Score \/ ScoringFails \/ ScoringEnds \/ BroadcastReward \/ ReapReward
  \/ \E r \in Ranks : \/ Record(r) \/ Anchored(r) \/ FailsAlone(r) \/ ReceiveReward(r)
                      \/ Offload(r) \/ Replayed(r) \/ OptimizerStep(r)

\* The steps, as the proofs below take them.
LEMMA Cases ==
  ASSUME [Next]_vars
  PROVE  \/ \E p \in Ranks : Persist(p) \/ GroupFails(p)
         \/ BroadcastGroup \/ JoinThreads \/ MoveTrace \/ NextSlot
         \/ \E r \in Ranks : ReceiveGroup(r) \/ ReceiveTrace(r) \/ NextWave(r) \/ Release(r)
         \/ Later \/ UNCHANGED vars
BY DEF Next, Threads, Primary, Together, Peer, Later

(* After the traces were moved the batch leaves them, and the groups, alone. *)
LEMMA Onward ==
  ASSUME Types, Later
  PROVE  /\ input' = input /\ group' = group /\ pending' = pending
         /\ turn' = turn /\ wire' = wire /\ received' = received
         /\ \/ \A q \in Ranks : at[q].stage = "moved" /\ at'[q].stage = "record"
            \/ \A q \in Ranks : \/ at'[q] = at[q]
                                \/ at[q].stage \in Late /\ at'[q].stage \in Late \union {"failed"}
<1>t. at \in [Ranks -> [stage : Stages, i : Nat]] /\ 0 \in Ranks
  BY Sizes DEF Types
<1>p. /\ "record" \in Late /\ "anchor" \in Late /\ "anchored" \in Late /\ "reward" \in Late
      /\ "reap reward" \in Late /\ "images" \in Late /\ "update" \in Late /\ "signatures" \in Late
      /\ "replay" \in Late /\ "norm" \in Late /\ "step" \in Late /\ "done" \in Late
  BY DEF Late
<1> DEFINE Step(q) == \/ at'[q] = at[q]
                      \/ at[q].stage \in Late /\ at'[q].stage \in Late \union {"failed"}
           Still == /\ input' = input /\ group' = group /\ pending' = pending
                    /\ turn' = turn /\ wire' = wire /\ received' = received
<1>g. ASSUME NEW r \in Ranks, NEW s \in Late \union {"failed"}, NEW n,
             at[r].stage \in Late, Go(r, s, n)
      PROVE  \A q \in Ranks : Step(q)
  BY <1>g, <1>t, OneMoves
<1>h. ASSUME NEW s \in Late \union {"failed"}, NEW n, \A q \in Ranks : at[q].stage \in Late,
             All(s, n)
      PROVE  \A q \in Ranks : Step(q)
  BY <1>h, AllMove
<1>1. ASSUME Barrier
      PROVE  Still /\ \A q \in Ranks : at[q].stage = "moved" /\ at'[q].stage = "record"
  BY <1>1, AllMove DEF Barrier, Here, At, rolling, moving
<1>2. ASSUME Score \/ ScoringFails \/ ScoringEnds PROVE Still /\ at' = at
  BY <1>2 DEF Score, ScoringFails, ScoringEnds, rolling, moving
<1>3. ASSUME ReduceAnchors \/ ReduceImages \/ GatherSignatures
      PROVE  Still /\ \A q \in Ranks : Step(q)
  <2>1. /\ Still
        /\ \/ Here("anchored") /\ All("reward", 0)
           \/ Here("images") /\ All("update", 1)
           \/ Here("signatures") /\ All("replay", at[0].i)
    BY <1>3 DEF ReduceAnchors, ReduceImages, GatherSignatures, rolling, moving
  <2>2. (\A q \in Ranks : at[q].stage \in Late) /\ \E s \in Late \union {"failed"},
        n \in {0, 1, at[0].i} : All(s, n)
    BY <2>1, <1>p DEF Here, At
  <2>3. \A q \in Ranks : Step(q)
    BY <2>2, <1>h
  <2> HIDE DEF Step
  <2> QED BY <2>1, <2>3
<1>4. ASSUME ReduceNorm PROVE Still /\ \A q \in Ranks : Step(q)
  <2>1. Still /\ Here("norm") /\ (All("step", at[0].i) \/ All("failed", at[0].i))
    BY <1>4 DEF ReduceNorm, rolling, moving
  <2>2. (\A q \in Ranks : at[q].stage \in Late) /\ \E s \in Late \union {"failed"},
        n \in {0, 1, at[0].i} : All(s, n)
    BY <2>1, <1>p DEF Here, At
  <2>3. \A q \in Ranks : Step(q)
    BY <2>2, <1>h
  <2> HIDE DEF Step
  <2> QED BY <2>1, <2>3
<1>5. ASSUME BroadcastReward \/ ReapReward PROVE Still /\ \A q \in Ranks : Step(q)
  <2>1. /\ Still /\ at[0].stage \in {"reward", "reap reward"}
        /\ Go(0, "images", 0) \/ Go(0, "reap reward", 0) \/ Go(0, "failed", 0)
    BY <1>5 DEF BroadcastReward, ReapReward, At, rolling, moving
  <2>2. at[0].stage \in Late /\ \E s \in Late \union {"failed"} : Go(0, s, 0)
    BY <2>1, <1>p
  <2>3. \A q \in Ranks : Step(q)
    BY <2>2, <1>t, <1>g
  <2> HIDE DEF Step
  <2> QED BY <2>1, <2>3
<1>6. ASSUME NEW r \in Ranks, Record(r) \/ Anchored(r) \/ FailsAlone(r) \/ ReceiveReward(r)
      PROVE  Still /\ \A q \in Ranks : Step(q)
  <2>1. /\ Still /\ at[r].stage \in {"record", "anchor", "replay", "reward"}
        /\ \/ Go(r, "anchor", 0) \/ Go(r, "anchored", 0) \/ Go(r, "reap reward", 0)
           \/ Go(r, "failed", 0) \/ Go(r, "images", 0)
    BY <1>6 DEF Record, Anchored, FailsAlone, ReceiveReward, At, rolling, moving
  <2>2. at[r].stage \in Late /\ \E s \in Late \union {"failed"},
        n \in {0, at[r].i, at[r].i + 1} : Go(r, s, n)
    BY <2>1, <1>p
  <2>3. \A q \in Ranks : Step(q)
    BY <2>2, <1>g
  <2> HIDE DEF Step
  <2> QED BY <2>1, <2>3
<1>7. ASSUME NEW r \in Ranks, Offload(r) \/ Replayed(r) \/ OptimizerStep(r)
      PROVE  Still /\ \A q \in Ranks : Step(q)
  <2>1. /\ Still /\ at[r].stage \in {"update", "replay", "step"}
        /\ \/ Go(r, "signatures", at[r].i) \/ Go(r, "norm", at[r].i)
           \/ Go(r, "update", at[r].i + 1) \/ Go(r, "done", 0)
    BY <1>7 DEF Offload, Replayed, OptimizerStep, At, rolling, moving
  <2>2. at[r].stage \in Late /\ \E s \in Late \union {"failed"},
        n \in {0, at[r].i, at[r].i + 1} : Go(r, s, n)
    BY <2>1, <1>p
  <2>3. \A q \in Ranks : Step(q)
    BY <2>2, <1>g
  <2> HIDE DEF Step
  <2> QED BY <2>1, <2>3
<1> QED BY <1>1, <1>2, <1>3, <1>4, <1>5, <1>6, <1>7 DEF Later

\* No rollout is persisted yet.
LEMMA InitGroups == Init => Groups
<1> SUFFICES ASSUME Init PROVE Groups
  OBVIOUS
<1>1. /\ at[0].stage = "collect" /\ at[0].i = 0 /\ G \in Nat \ {0} /\ Ranks \subseteq Nat
      /\ \A p \in Ranks : group[p].state = "asked" /\ group[p].done = 0
      /\ \A c \in 0 .. Clients - 1 : pending[c] = {}
  BY Sizes DEF Init
<1>2. Threaded
  BY <1>1 DEF Threaded, At
<1>3. Kept
  BY <1>1 DEF Kept, After, Late
<1> QED BY <1>2, <1>3 DEF Groups

(* The traces of every rollout are there to be sent.                       *)
LEMMA Gathered ==
  ASSUME Types, Groups, At(0, "move")
  PROVE  \A x \in Rollouts : TracesOf(x) \subseteq pending[ClientOf(x)]
<1> SUFFICES ASSUME NEW x \in Rollouts PROVE TracesOf(x) \subseteq pending[ClientOf(x)]
  OBVIOUS
<1>1. PICK p \in Ranks, g \in 0 .. G - 1 : x = p * G + g
  BY Numbered
<1>2. group[p].done = G
  BY DEF Groups, Threaded, At
<1>3. g < G
  BY Sizes
<1> QED BY <1>1, <1>2, <1>3 DEF Groups, Kept, At

\* So rank 0 finds every trace it sends, and releases all of them.
LEMMA NothingLost ==
  ASSUME Types, ~At(0, "lost"), Groups, [Next]_vars
  PROVE  /\ ~At(0, "lost")'
         /\ MoveTrace
              => <<Mine(turn.owner, at[0].i),
                  turn.image>> \in pending[ClientOf(Mine(turn.owner, at[0].i))]
         /\ Release(0) => \A x \in Rollouts : TracesOf(x) \subseteq pending[ClientOf(x)]
<1>t. /\ at \in [Ranks -> [stage : Stages, i : Nat]] /\ 0 \in Ranks /\ input \in Batches
      /\ turn.owner \in Ranks /\ turn.image \in Nat \ {0}
  BY Sizes DEF Types
<1>1. ASSUME MoveTrace
      PROVE  <<Mine(turn.owner, at[0].i),
                 turn.image>> \in pending[ClientOf(Mine(turn.owner, at[0].i))]
  <2> DEFINE x == Mine(turn.owner, at[0].i)
  <2>1. At(0, "move") /\ at[0].i \in Waves /\ turn.image <= input.images[x]
    BY <1>1 DEF MoveTrace
  <2>2. x \in Rollouts /\ input.images[x] \in Nat
    BY <2>1, <1>t, Alike DEF Images
  <2>3. <<x, turn.image>> \in TracesOf(x)
    BY <2>1, <2>2, <1>t DEF TracesOf
  <2> QED BY <2>1, <2>2, <2>3, Gathered
<1>2. ASSUME Release(0) PROVE \A x \in Rollouts : TracesOf(x) \subseteq pending[ClientOf(x)]
  BY <1>2, Gathered DEF Release
<1>3. ~At(0, "lost")'
  <2>1. ASSUME MoveTrace PROVE UNCHANGED at
    BY <2>1, <1>1 DEF MoveTrace
  <2>2. ASSUME NEW r \in Ranks, Release(r) PROVE at'[0] = at[0] \/ at'[0].stage = "moved"
    <3>1. Go(r, "moved", 0)
      BY <2>2, <1>2 DEF Release
    <3> QED BY <3>1, <1>t, OneMoves
  <2>3. ASSUME Later PROVE at'[0] = at[0] \/ at'[0].stage # "lost"
    BY <2>3, <1>t, Onward DEF Late
  <2>4. ASSUME BroadcastGroup \/ JoinThreads \/ NextSlot PROVE at'[0] = at[0]
                 \/ at'[0].stage # "lost"
    <3>1. \/ Go(0, "reap", 0) \/ Go(0, "collect", at[0].i + 1) \/ Go(0, "join", 0)
          \/ Go(0, "move", 1) \/ Go(0, "failed", 0) \/ Go(0, "move", at[0].i + 1) \/ UNCHANGED at
      BY <2>4 DEF BroadcastGroup, JoinThreads, NextSlot
    <3> QED BY <3>1, <1>t, OneMoves
  <2>5. ASSUME NEW r \in Ranks, ReceiveGroup(r) \/ ReceiveTrace(r)
                 \/ NextWave(r) PROVE at'[0] = at[0]
    <3>1. /\ r # 0
          /\ \/ Go(r, "failed", 0) \/ Go(r, "collect", at[r].i + 1) \/ Go(r, "move", 1)
             \/ Go(r, "move", at[r].i + 1) \/ UNCHANGED at
      BY <2>5 DEF ReceiveGroup, ReceiveTrace, NextWave
    <3> QED BY <3>1, <1>t, OneMoves
  <2>6. ASSUME \/ UNCHANGED vars \/ \E p \in Ranks : Persist(p) \/ GroupFails(p)
        PROVE  UNCHANGED at
    BY <2>6 DEF vars, Persist, GroupFails
  <2> QED BY <2>1, <2>2, <2>3, <2>4, <2>5, <2>6, <1>t, Cases DEF At
<1> QED BY <1>1, <1>2, <1>3

(* Where rank 0 goes next decides what is left to keep.                    *)
LEMMA GroupsStay ==
  ASSUME Groups, input' = input, group' = group, pending' = pending,
         \/ at'[0] = at[0]
         \/ at[0].stage = "move" /\ at'[0].stage = "move"
         \/ After(0) /\ at'[0].stage \in Late \union {"failed"}
  PROVE  Groups'
<1>1. CASE at'[0] = at[0]
  BY <1>1 DEF Groups, Threaded, Kept, At, After, TracesOf
<1>2. CASE at[0].stage = "move" /\ at'[0].stage = "move"
  <2>1. Threaded'
    BY <1>2 DEF Groups, Threaded, At
  <2>2. Kept'
    BY <1>2 DEF Groups, Kept, After, TracesOf
  <2> QED BY <2>1, <2>2 DEF Groups
<1>3. CASE After(0) /\ at'[0].stage \in Late \union {"failed"}
  <2>1. /\ at'[0].stage \notin {"collect", "join", "reap", "move"}
        /\ at[0].stage \notin {"collect", "join", "reap"}
    BY <1>3 DEF After, Late
  <2>2. Threaded'
    BY <2>1 DEF Groups, Threaded, At
  <2>3. \A c \in 0 .. Clients - 1 : pending[c] = {}
    BY <1>3 DEF Groups, Kept
  <2>4. Kept'
    BY <2>1, <2>3 DEF Groups, Kept, TracesOf
  <2> QED BY <2>2, <2>4 DEF Groups
<1> QED BY <1>1, <1>2, <1>3

\* Every step keeps the groups and the traces rank 0 needs of them.
LEMMA NextGroups ==
  ASSUME Types, Control, Groups, [Next]_vars, ~At(0, "lost")
  PROVE  Groups'
<1>s. /\ W \in Nat \ {0} /\ G \in Nat \ {0} /\ Clients \in Nat \ {0}
      /\ 0 \in Ranks /\ Ranks \subseteq Nat
  BY Sizes
<1>t. /\ at \in [Ranks -> [stage : Stages, i : Nat]] /\ input \in Batches
      /\ group \in [Ranks -> [done : 0 .. G, state : {"asked", "ready", "failed"}]]
      /\ pending \in [0 .. Clients - 1 -> SUBSET Traces]
  BY DEF Types
<1>g. /\ \A p \in Ranks : group[p].state = "ready" => group[p].done = G
      /\ at[0].stage = "collect" => \A p \in Ranks : p < at[0].i => group[p].state = "ready"
      /\ at[0].stage \in {"join", "move"} => \A p \in Ranks : group[p].state = "ready"
      /\ at[0].stage \notin {"collect", "join", "reap"} => \A p \in Ranks : group[p].state # "asked"
  BY DEF Groups, Threaded, At
<1>k. Kept
  BY DEF Groups
<1>1. ASSUME NEW p \in Ranks, Persist(p) PROVE Groups'
  <2> DEFINE x == p * G + group[p].done
  <2>1. /\ at' = at /\ input' = input /\ group[p].state = "asked" /\ group[p].done < G
        /\ pending' = [pending EXCEPT ![ClientOf(x)] = @ \union TracesOf(x)]
        /\ group' = [group EXCEPT ![p] = [done |-> @.done + 1,
                                          state |-> IF @.done + 1 = G THEN "ready" ELSE @.state]]
    BY <1>1 DEF Persist
  <2>2. at[0].stage \in {"collect", "reap"}
    BY <2>1, <1>g
  <2>3. PICK d \in 0 .. G - 1 : group[p].done = d
    BY <2>1, <1>t, <1>s
  <2>4. x = p * G + d /\ x \in Rollouts /\ ClientOf(x) \in 0 .. Clients - 1
    BY <2>3, Numbered, Client
  <2>5. /\ group'[p] = [done |-> d + 1, state |-> IF d + 1 = G THEN "ready" ELSE "asked"]
        /\ \A q \in Ranks \ {p} : group'[q] = group[q]
    BY <2>1, <2>3, <1>t
  <2> HIDE DEF x
  <2>6. /\ pending'[ClientOf(x)] = pending[ClientOf(x)] \union TracesOf(x)
        /\ \A c \in 0 .. Clients - 1 : /\ pending[c] \subseteq pending'[c]
                                       /\ pending'[c] \subseteq pending[c] \union TracesOf(x)
    BY <2>1, <2>4, <1>t
  <2>7. Threaded'
    <3>1. \A q \in Ranks : group'[q].state = "ready" => group'[q].done = G
      BY <2>5, <1>g
    <3>2. at[0].stage = "collect" => \A q \in Ranks : q < at[0].i => group'[q].state = "ready"
      BY <2>1, <2>5, <1>g
    <3> QED BY <2>1, <2>2, <3>1, <3>2 DEF Threaded, At
  <2>8. ASSUME NEW q \in Ranks, NEW g \in 0 .. G - 1, g < group'[q].done
        PROVE  at[0].stage = "collect"
                 => TracesOf(q * G + g) \subseteq pending'[ClientOf(q * G + g)]
    <3>1. ClientOf(q * G + g) \in 0 .. Clients - 1
      BY Numbered, Client
    <3>2. CASE q = p /\ g = d
      BY <3>2, <2>4, <2>6
    <3>3. CASE g < group[q].done
      BY <3>1, <3>3, <2>6, <1>k DEF Kept
    <3>4. (q = p /\ g = d) \/ g < group[q].done
      <4>1. q = p => g < d + 1
        BY <2>5, <2>8
      <4> QED BY <4>1, <2>3, <2>5, <2>8
    <3> QED BY <3>2, <3>3, <3>4
  <2>9. \A c \in 0 .. Clients - 1 : pending'[c] \subseteq UNION {TracesOf(y) : y \in Rollouts}
    BY <2>4, <2>6, <1>k DEF Kept
  <2>10. Kept'
    <3>1. /\ at'[0].stage \notin {"join", "move"} /\ ~After(0)'
          /\ at'[0].stage = at[0].stage
      BY <2>1, <2>2 DEF After, Late
    <3>2. \A y : TracesOf(y)' = TracesOf(y)
      BY <2>1 DEF TracesOf
    <3> QED BY <2>8, <2>9, <3>1, <3>2 DEF Kept
  <2> QED BY <2>7, <2>10 DEF Groups
<1>2. ASSUME NEW p \in Ranks, GroupFails(p) PROVE Groups'
  <2>1. /\ at' = at /\ input' = input /\ pending' = pending /\ group[p].state = "asked"
        /\ group' = [group EXCEPT ![p].state = "failed"]
    BY <1>2 DEF GroupFails
  <2>2. /\ group'[p].state = "failed" /\ \A q \in Ranks : group'[q].done = group[q].done
        /\ \A q \in Ranks \ {p} : group'[q] = group[q]
    BY <2>1, <1>t
  <2>3. at[0].stage \in {"collect", "reap"}
    BY <2>1, <1>g
  <2>4. Threaded'
    <3>1. \A q \in Ranks : group'[q].state = "ready" => group'[q].done = G
      BY <2>2, <1>g
    <3>2. at[0].stage = "collect" => \A q \in Ranks : q < at[0].i => group'[q].state = "ready"
      BY <2>1, <2>2, <1>g
    <3> QED BY <2>1, <2>3, <3>1, <3>2 DEF Threaded, At
  <2>5. Kept'
    <3>1. \A y : TracesOf(y)' = TracesOf(y)
      BY <2>1 DEF TracesOf
    <3> QED BY <2>1, <2>2, <3>1, <1>k DEF Kept, After
  <2> QED BY <2>4, <2>5 DEF Groups
<1>3. ASSUME BroadcastGroup PROVE Groups'
  <2>1. PICK p \in Nat : at[0].i = p
    BY <1>t, <1>s
  <2>2. /\ at[0].stage = "collect" /\ p \in Ranks /\ group[p].state # "asked"
        /\ input' = input /\ group' = group /\ pending' = pending
    BY <1>3, <2>1, <1>s DEF BroadcastGroup, rolling, Control, SaidLength, At, Ranks
  <2>3. \/ Go(0, "reap", 0)
        \/ group[p].state # "failed" /\ p + 1 < W /\ Go(0, "collect", p + 1)
        \/ group[p].state # "failed" /\ ~(p + 1 < W) /\ Go(0, "join", 0)
    BY <1>3, <2>1 DEF BroadcastGroup
  <2>4. \/ at'[0].stage = "reap"
        \/ group[p].state = "ready" /\ p + 1 < W /\ at'[0].stage = "collect" /\ at'[0].i = p + 1
        \/ group[p].state = "ready" /\ ~(p + 1 < W) /\ at'[0].stage = "join"
    <3>1. group[p].state \in {"asked", "ready", "failed"}
      BY <2>2, <1>t
    <3> QED BY <3>1, <2>2, <2>3, <1>t, <1>s, OneMoves
  <2>5. \A q \in Ranks : q < p + 1 => q < p \/ q = p
    BY <1>s
  <2>6. Threaded'
    <3>1. CASE at'[0].stage = "reap"
      BY <3>1, <2>2, <1>g DEF Threaded, At
    <3>2. CASE /\ group[p].state = "ready" /\ p + 1 < W
               /\ at'[0].stage = "collect" /\ at'[0].i = p + 1
      BY <3>2, <2>1, <2>2, <2>5, <1>g DEF Threaded, At
    <3>3. CASE group[p].state = "ready" /\ ~(p + 1 < W) /\ at'[0].stage = "join"
      <4>1. \A q \in Ranks : q < p + 1
        BY <3>3, <1>s DEF Ranks
      <4> QED BY <3>3, <4>1, <2>1, <2>2, <2>5, <1>g DEF Threaded, At
    <3> QED BY <2>4, <3>1, <3>2, <3>3
  <2>7. Kept'
    <3>1. /\ at[0].stage = "collect" /\ ~After(0)'
      BY <2>2, <2>4 DEF After, Late
    <3>2. \A y : TracesOf(y)' = TracesOf(y)
      BY <2>2 DEF TracesOf
    <3> QED BY <3>1, <3>2, <2>2, <1>k DEF Kept
  <2> QED BY <2>6, <2>7 DEF Groups
<1>4. ASSUME JoinThreads PROVE Groups'
  <2>1. /\ input' = input /\ group' = group /\ pending' = pending
        /\ \A p \in Ranks : group[p].state # "asked"
        /\ \/ at[0].stage = "join" /\ Go(0, "move", 1)
           \/ at[0].stage = "reap" /\ Go(0, "failed", 0)
    BY <1>4 DEF JoinThreads, rolling, At
  <2>2. \/ at[0].stage = "join" /\ at'[0].stage = "move"
        \/ at[0].stage = "reap" /\ at'[0].stage = "failed"
    BY <2>1, <1>s, <1>t, OneMoves
  <2>3. Threaded'
    BY <2>1, <2>2, <1>g DEF Threaded, At
  <2>4. Kept'
    <3>1. ~After(0)'
      BY <2>2 DEF After, Late
    <3>2. \A y : TracesOf(y)' = TracesOf(y)
      BY <2>1 DEF TracesOf
    <3> QED BY <3>1, <3>2, <2>1, <2>2, <1>k DEF Kept
  <2> QED BY <2>3, <2>4 DEF Groups
<1>5. ASSUME MoveTrace PROVE Groups'
  <2>1. input' = input /\ group' = group /\ pending' = pending /\ at' = at
    BY <1>5, NothingLost DEF MoveTrace, TakeTrace
  <2> QED BY <2>1, GroupsStay
<1>6. ASSUME NextSlot PROVE Groups'
  <2>1. /\ input' = input /\ group' = group /\ pending' = pending
        /\ at[0].stage = "move" /\ (at' = at \/ Go(0, "move", at[0].i + 1))
    BY <1>6 DEF NextSlot, rolling, At
  <2>2. at'[0].stage = "move"
    BY <2>1, <1>s, <1>t, OneMoves
  <2> QED BY <2>1, <2>2, GroupsStay
<1>7. ASSUME NEW r \in Ranks, ReceiveGroup(r) \/ ReceiveTrace(r) \/ NextWave(r) PROVE Groups'
  <2>1. /\ input' = input /\ group' = group /\ pending' = pending /\ r # 0
        /\ \/ Go(r, "failed", 0) \/ Go(r, "collect", at[r].i + 1) \/ Go(r, "move", 1)
           \/ Go(r, "move", at[r].i + 1) \/ UNCHANGED at
    BY <1>7 DEF ReceiveGroup, ReceiveTrace, NextWave, rolling
  <2>2. at'[0] = at[0]
    BY <2>1, <1>s, <1>t, OneMoves
  <2> QED BY <2>1, <2>2, GroupsStay
<1>8. ASSUME NEW r \in Ranks, Release(r) PROVE Groups'
  <2>1. CASE r # 0
    <3>1. input' = input /\ group' = group /\ pending' = pending /\ Go(r, "moved", 0)
      BY <1>8, <2>1 DEF Release
    <3>2. at'[0] = at[0]
      BY <3>1, <2>1, <1>s, <1>t, OneMoves
    <3> QED BY <3>1, <3>2, GroupsStay
  <2>2. CASE r = 0
    <3>1. /\ input' = input /\ group' = group /\ pending' = Released /\ Go(0, "moved", 0)
          /\ at[0].stage = "move"
      BY <1>8, <2>2, NothingLost DEF Release, At
    <3>2. at'[0].stage = "moved"
      BY <3>1, <1>s, <1>t, OneMoves
    <3>3. \A c \in 0 .. Clients - 1 : pending'[c] = {}
      BY <3>1, <1>k DEF Kept, Released
    <3>4. Threaded'
      BY <3>1, <3>2, <1>g DEF Threaded, At
    <3>5. Kept'
      BY <3>2, <3>3 DEF Kept
    <3> QED BY <3>4, <3>5 DEF Groups
  <2> QED BY <2>1, <2>2
<1>9. ASSUME Later PROVE Groups'
  <2>1. /\ input' = input /\ group' = group /\ pending' = pending
        /\ at'[0] = at[0] \/ (After(0) /\ at'[0].stage \in Late \union {"failed"})
    BY <1>9, <1>s, Onward DEF After, Late
  <2> QED BY <2>1, GroupsStay
<1>10. ASSUME UNCHANGED vars PROVE Groups'
  BY <1>10, GroupsStay DEF vars, rolling
<1> QED BY <1>1, <1>2, <1>3, <1>4, <1>5, <1>6, <1>7, <1>8, <1>9, <1>10, Cases

-----------------------------------------------------------------------------
(* The budget.                                                             *)

(* What neither starts, feeds nor ends the reward thread, nor hands its     *)
(* budget on.                                                               *)
Unpaid ==
  \/ \E p \in Ranks : Persist(p) \/ GroupFails(p)
  \/ BroadcastGroup \/ JoinThreads \/ MoveTrace \/ NextSlot \/ ReapReward
  \/ Barrier \/ ReduceAnchors \/ ReduceImages \/ GatherSignatures \/ ReduceNorm
  \/ \E r \in Ranks : \/ ReceiveGroup(r) \/ ReceiveTrace(r) \/ NextWave(r) \/ Release(r)
                      \/ Anchored(r) \/ FailsAlone(r)
                      \/ Offload(r) \/ Replayed(r) \/ OptimizerStep(r)
  \/ UNCHANGED vars

\* It moves no rank back before the record, or past the reward.
LEMMA Unconcerned ==
  ASSUME Types, Unpaid
  PROVE  /\ scoring' = scoring /\ ledger' = ledger /\ payload' = payload
         /\ said' = said \/ BroadcastGroup
         /\ \A q \in Ranks : at'[q].stage \in First => at[q].stage \in First
         /\ \A q \in Ranks : Scored(q)' => Scored(q)
<1>t. at \in [Ranks -> [stage : Stages, i : Nat]] /\ 0 \in Ranks
  BY Sizes DEF Types
<1> DEFINE Step(q) == /\ at'[q].stage \in First => at[q].stage \in First
                      /\ Scored(q)' => Scored(q)
           Still == /\ scoring' = scoring /\ ledger' = ledger /\ payload' = payload
                    /\ said' = said \/ BroadcastGroup
<1>f. /\ "collect" \in First /\ "join" \in First /\ "reap" \in First /\ "move" \in First
      /\ "lost" \in First /\ "moved" \in First /\ "record" \in First
      /\ "failed" \notin First /\ "anchored" \notin First /\ "reap reward" \notin First
      /\ "reward" \notin First /\ "update" \notin First /\ "signatures" \notin First
      /\ "replay" \notin First /\ "norm" \notin First /\ "step" \notin First /\ "done" \notin First
  BY DEF First, Early
<1>a. ASSUME NEW q \in Ranks, at'[q] = at[q] PROVE Step(q)
  BY <1>a DEF Scored
<1>b. ASSUME NEW q \in Ranks, at[q].stage \in First,
             at'[q].stage \in {"collect", "join", "reap", "move", "lost", "moved", "record",
                 "failed"}
      PROVE  Step(q)
  BY <1>b DEF Scored
<1>c. ASSUME NEW q \in Ranks, at'[q].stage \in {"anchored", "reward", "reap reward", "failed"}
      PROVE  Step(q)
  BY <1>c, <1>f DEF Scored
<1>d. ASSUME NEW q \in Ranks,
             at[q].stage \in {"images", "signatures", "update", "replay", "norm", "step"},
             at'[q].stage \in {"update", "signatures", "replay", "norm", "step", "done", "failed"}
      PROVE  Step(q)
  BY <1>d, <1>f DEF Scored
<1> HIDE DEF Step
<1>1. ASSUME \/ \E p \in Ranks : Persist(p) \/ GroupFails(p)
             \/ UNCHANGED vars
             \/ \E r \in Ranks : ReceiveTrace(r)
      PROVE  Still /\ at' = at
  BY <1>1 DEF Persist, GroupFails, ReceiveTrace, vars, paying
<1>2. ASSUME BroadcastGroup \/ JoinThreads \/ MoveTrace \/ NextSlot PROVE Still
               /\ \A q \in Ranks : Step(q)
  <2>1. /\ Still /\ at[0].stage \in {"collect", "join", "reap", "move"}
        /\ \/ Go(0, "reap", 0) \/ Go(0, "collect", at[0].i + 1) \/ Go(0, "join", 0)
           \/ Go(0, "move", 1) \/ Go(0, "failed", 0) \/ Go(0, "move", at[0].i + 1)
           \/ Go(0, "lost", 0) \/ UNCHANGED at
    BY <1>2 DEF BroadcastGroup, JoinThreads, MoveTrace, NextSlot, At, paying
  <2>2. /\ at'[0] = at[0] \/ at'[0].stage \in {"collect", "join", "reap", "move", "lost", "failed"}
        /\ \A q \in Ranks \ {0} : at'[q] = at[q]
    BY <2>1, <1>t, OneMoves
  <2>3. at[0].stage \in First
    BY <2>1, <1>f
  <2>4. \A q \in Ranks : Step(q)
    BY <2>2, <2>3, <1>a, <1>b, <1>t
  <2> QED BY <2>1, <2>4
<1>3. ASSUME NEW r \in Ranks, ReceiveGroup(r) \/ NextWave(r) \/ Release(r)
      PROVE  Still /\ \A q \in Ranks : Step(q)
  <2>1. /\ Still /\ at[r].stage \in {"collect", "move"}
        /\ \/ Go(r, "failed", 0) \/ Go(r, "collect", at[r].i + 1) \/ Go(r, "move", 1)
           \/ Go(r, "move", at[r].i + 1) \/ Go(r, "moved", 0) \/ (r = 0 /\ Go(r, "lost", 0))
    BY <1>3 DEF ReceiveGroup, NextWave, Release, At, paying, moving
  <2>2. /\ at'[r].stage \in {"collect", "move", "lost", "moved", "failed"}
        /\ \A q \in Ranks \ {r} : at'[q] = at[q]
    BY <2>1, <1>t, OneMoves
  <2>3. at[r].stage \in First
    BY <2>1, <1>f
  <2>4. \A q \in Ranks : Step(q)
    BY <2>2, <2>3, <1>a, <1>b, <1>t
  <2> QED BY <2>1, <2>4
<1>4. ASSUME Barrier \/ ReduceAnchors PROVE Still /\ \A q \in Ranks : Step(q)
  <2>1. Still /\ ((Here("moved") /\ All("record", 0)) \/ All("reward", 0))
    BY <1>4 DEF Barrier, ReduceAnchors, paying
  <2>2. \A q \in Ranks : (at[q].stage = "moved" /\ at'[q].stage = "record")
          \/ at'[q].stage = "reward"
    BY <2>1, AllMove DEF Here, At
  <2>3. \A q \in Ranks : Step(q)
    BY <2>2, <1>b, <1>c, <1>f
  <2> QED BY <2>1, <2>3
<1>5. ASSUME NEW r \in Ranks, Anchored(r) \/ FailsAlone(r) \/ (r = 0 /\ ReapReward)
      PROVE  Still /\ \A q \in Ranks : Step(q)
  <2>1. Still /\ (Go(r, "anchored", 0) \/ Go(r, "reap reward", 0) \/ Go(r, "failed", 0))
    BY <1>5 DEF Anchored, FailsAlone, ReapReward, paying
  <2>2. /\ at'[r].stage \in {"anchored", "reap reward", "failed"}
        /\ \A q \in Ranks \ {r} : at'[q] = at[q]
    BY <2>1, <1>t, OneMoves
  <2>3. \A q \in Ranks : Step(q)
    BY <2>2, <1>a, <1>c
  <2> QED BY <2>1, <2>3
<1>6. ASSUME ReduceImages \/ GatherSignatures \/ ReduceNorm PROVE Still /\ \A q \in Ranks : Step(q)
  <2>1. /\ Still /\ (Here("images") \/ Here("signatures") \/ Here("norm"))
        /\ \/ All("update", 1) \/ All("replay", at[0].i)
           \/ All("step", at[0].i) \/ All("failed", at[0].i)
    BY <1>6 DEF ReduceImages, GatherSignatures, ReduceNorm, paying
  <2>2. \A q \in Ranks : /\ at[q].stage \in {"images", "signatures", "norm"}
                         /\ at'[q].stage \in {"update", "replay", "step", "failed"}
    BY <2>1, AllMove DEF Here, At
  <2>3. \A q \in Ranks : Step(q)
    BY <2>2, <1>d
  <2> QED BY <2>1, <2>3
<1>7. ASSUME NEW r \in Ranks, Offload(r) \/ Replayed(r) \/ OptimizerStep(r)
      PROVE  Still /\ \A q \in Ranks : Step(q)
  <2>1. /\ Still /\ at[r].stage \in {"update", "replay", "step"}
        /\ \/ Go(r, "signatures", at[r].i) \/ Go(r, "norm", at[r].i)
           \/ Go(r, "update", at[r].i + 1) \/ Go(r, "done", 0)
    BY <1>7 DEF Offload, Replayed, OptimizerStep, At, paying
  <2>2. /\ at'[r].stage \in {"signatures", "norm", "update", "done"}
        /\ \A q \in Ranks \ {r} : at'[q] = at[q]
    BY <2>1, <1>t, OneMoves
  <2>3. \A q \in Ranks : Step(q)
    BY <2>1, <2>2, <1>a, <1>d
  <2> QED BY <2>1, <2>3
<1>8. Still /\ \A q \in Ranks : Step(q)
  BY <1>1, <1>2, <1>3, <1>4, <1>5, <1>6, <1>7, <1>a, <1>t DEF Unpaid
<1> QED BY <1>8 DEF Step

\* Nothing is charged yet.
LEMMA InitBudgets == Init => Budgets
<1> SUFFICES ASSUME Init PROVE Budgets
  OBVIOUS
<1>1. /\ scoring = [done |-> 0, state |-> "idle"] /\ ledger[0] = [samples |-> 0, calls |-> 0]
      /\ Len(said) = 0 /\ W + 1 # 0 /\ \A r \in Ranks : at[r].stage = "collect"
  BY Sizes DEF Init
<1>2. Idle /\ Charged /\ Announced /\ Paid
  BY <1>1 DEF Idle, Charged, Announced, Paid, Scored
<1> QED BY <1>2 DEF Budgets

\* Every step keeps the budget.
LEMMA NextBudgets ==
  ASSUME Types, Control, Budgets, [Next]_vars
  PROVE  Budgets'
<1>s. W \in Nat \ {0} /\ 0 \in Ranks
  BY Sizes
<1>t. /\ at \in [Ranks -> [stage : Stages, i : Nat]] /\ said \in Seq(BOOLEAN) /\ Len(said) \in Nat
      /\ scoring \in [done : 0 .. W, state : {"idle", "running", "ready", "failed"}]
      /\ ledger \in [Ranks -> Budget] /\ payload \in Budget
  BY DEF Types
<1>b. Idle /\ Charged /\ Announced /\ Paid
  BY DEF Budgets
<1>c. /\ at[0].stage \in {"collect", "reward"} => Len(said) <= W
      /\ \A r \in Ranks : Scored(r) => Len(said) = W + 1 /\ said[W + 1]
      /\ at[0].stage = "collect" => Len(said) < W
      /\ at[0].stage = "reward" => Len(said) = W
  <2>1. at[0].stage = "collect" => Len(said) < W
    BY DEF Control, SaidLength, At
  <2>2. at[0].stage = "reward" => Len(said) = W
    BY DEF Control, SaidLength
  <2>3. \A r \in Ranks : Scored(r) => Len(said) = W + 1 /\ said[W + 1]
    BY DEF Control, Admitted
  <2> QED BY <2>1, <2>2, <2>3, <1>s, <1>t
<1>1. ASSUME Unpaid PROVE Budgets'
  <2>1. scoring' = scoring /\ ledger' = ledger /\ payload' = payload
    BY <1>1, Unconcerned
  <2>2. Idle'
    BY <1>1, <2>1, <1>s, <1>b, Unconcerned DEF Idle
  <2>3. Charged'
    BY <2>1, <1>b DEF Charged
  <2>4. Announced'
    <3>1. CASE said' = said
      BY <3>1, <2>1, <1>b DEF Announced
    <3>2. CASE BroadcastGroup
      <4> DEFINE k == group[at[0].i].state = "ready"
      <4>1. said' = Append(said, k) /\ at[0].stage = "collect" /\ k \in BOOLEAN
        BY <3>2 DEF BroadcastGroup, At
      <4> HIDE DEF k
      <4>2. Len(said') = Len(said) + 1 /\ Len(said) < W
        BY <4>1, <1>c, <1>t, Appended
      <4>3. Len(said') # W + 1
        BY <4>2, <1>t, <1>s
      <4> QED BY <4>3 DEF Announced
    <3> QED BY <3>1, <3>2, <1>1, Unconcerned
  <2>5. Paid'
    <3>1. \A r \in Ranks : Scored(r)' => Scored(r)
      BY <1>1, Unconcerned
    <3> QED BY <3>1, <2>1, <1>b DEF Paid
  <2> QED BY <2>2, <2>3, <2>4, <2>5 DEF Budgets
<1>2. ASSUME NEW r \in Ranks, Record(r) PROVE Budgets'
  <2>1. /\ at[r].stage = "record" /\ said' = said /\ payload' = payload
        /\ at'[r].stage = "anchor" /\ \A q \in Ranks \ {r} : at'[q] = at[q]
    BY <1>2, <1>t, OneMoves DEF Record, At
  <2>2. \A q \in Ranks : Scored(q)' => Scored(q)
    BY <2>1 DEF Scored
  <2>3. CASE r # 0
    <3>1. ledger' = ledger /\ scoring' = scoring /\ at'[0] = at[0]
      BY <2>1, <2>3, <1>2, <1>s DEF Record
    <3>2. Idle' /\ Charged' /\ Announced'
      BY <2>1, <3>1, <1>b DEF Idle, Charged, Announced
    <3>3. Paid'
      BY <2>2, <3>1, <1>b DEF Paid
    <3> QED BY <3>2, <3>3 DEF Budgets
  <2>4. CASE r = 0
    <3>1. /\ ledger' = [ledger EXCEPT ![0].samples = @ + W]
          /\ scoring' = [scoring EXCEPT !.state = "running"]
      BY <2>4, <1>2 DEF Record
    <3>2. /\ scoring.state = "idle" /\ scoring.done = 0
          /\ ledger[0] = [samples |-> 0, calls |-> 0]
      BY <2>1, <2>4, <1>b DEF Idle, Charged, First
    <3>3. scoring'.state = "running" /\ scoring'.done = 0
      BY <3>1, <3>2, <1>t
    <3>4. /\ ledger'[0] = [samples |-> W, calls |-> 0]
          /\ \A q \in Ranks \ {0} : ledger'[q] = ledger[q]
      BY <3>1, <3>2, <1>t, <1>s
    <3>5. Idle'
      BY <2>1, <2>4 DEF Idle, First, Early
    <3>6. Charged'
      BY <3>3, <3>4 DEF Charged
    <3>7. Announced'
      BY <2>1, <3>2, <1>b DEF Announced
    <3>8. Paid'
      BY <2>2, <3>4, <1>b DEF Paid
    <3> QED BY <3>5, <3>6, <3>7, <3>8 DEF Budgets
  <2> QED BY <2>3, <2>4
<1>3. ASSUME Score PROVE Budgets'
  <2>1. /\ scoring.state = "running" /\ scoring.done < W /\ said' = said /\ at' = at
        /\ scoring' = [scoring EXCEPT !.done = @ + 1]
        /\ ledger' = [ledger EXCEPT ![0].calls = @ + 1]
    BY <1>3 DEF Score
  <2>2. PICK d \in 0 .. W : scoring.done = d
    BY <1>t
  <2>3. ledger[0] = [samples |-> W, calls |-> d]
    BY <2>1, <2>2, <1>b DEF Charged
  <2>4. scoring'.state = "running" /\ scoring'.done = d + 1
    BY <2>1, <2>2, <1>t
  <2>5. /\ ledger'[0] = [samples |-> W, calls |-> d + 1]
        /\ \A q \in Ranks \ {0} : ledger'[q] = ledger[q]
    BY <2>1, <2>3, <1>t, <1>s
  <2>6. Idle' /\ Announced'
    BY <2>1, <2>4, <1>b DEF Idle, Announced
  <2>7. Charged'
    BY <2>4, <2>5 DEF Charged
  <2>8. Paid'
    BY <2>1, <2>5, <1>b DEF Paid, Scored
  <2> QED BY <2>6, <2>7, <2>8 DEF Budgets
<1>4. ASSUME ScoringFails \/ ScoringEnds PROVE Budgets'
  <2>1. /\ scoring.state = "running" /\ said' = said /\ at' = at /\ ledger' = ledger
        /\ \/ scoring' = [scoring EXCEPT !.state = "failed"] /\ payload' = payload
           \/ /\ scoring' = [scoring EXCEPT !.state = "ready"] /\ payload' = ledger[0]
              /\ scoring.done = W
    BY <1>4 DEF ScoringFails, ScoringEnds
  <2>2. ledger[0] = [samples |-> W, calls |-> scoring.done]
    BY <2>1, <1>b DEF Charged
  <2>3. /\ scoring'.done = scoring.done
        /\ \/ scoring'.state = "failed"
           \/ scoring'.state = "ready" /\ payload' = ledger[0] /\ scoring.done = W
    BY <2>1, <1>t
  <2>4. Idle' /\ Announced'
    BY <2>1, <1>b DEF Idle, Announced
  <2>5. Charged'
    BY <2>1, <2>2, <2>3 DEF Charged
  <2>6. Paid'
    BY <2>1, <1>b DEF Paid, Scored
  <2> QED BY <2>4, <2>5, <2>6 DEF Budgets
<1>5. ASSUME BroadcastReward PROVE Budgets'
  <2> DEFINE k == scoring.state = "ready"
  <2>1. /\ at[0].stage = "reward" /\ said' = Append(said, k) /\ k \in BOOLEAN
        /\ scoring' = scoring /\ payload' = payload
        /\ \/ /\ k /\ ledger' = [ledger EXCEPT ![0] = payload] /\ Go(0, "images", 0)
           \/ Go(0, "reap reward", 0) /\ ledger' = ledger
    BY <1>5 DEF BroadcastReward, At
  <2>2. /\ at'[0].stage \in {"images", "reap reward"} /\ \A q \in Ranks \ {0} : at'[q] = at[q]
    BY <2>1, <1>t, <1>s, OneMoves
  <2>3. ledger' = ledger
    <3>1. CASE k /\ ledger' = [ledger EXCEPT ![0] = payload]
      <4>1. payload = ledger[0]
        BY <3>1, <1>b DEF Charged
      <4> QED BY <3>1, <4>1, <1>t
    <3> QED BY <3>1, <2>1
  <2>4. Len(said') = W + 1 /\ said'[W + 1] = k
    <3>1. Len(said) = W
      BY <2>1, <1>c
    <3>2. said' = Append(said, k) /\ k \in BOOLEAN
      BY <2>1
    <3> HIDE DEF k
    <3>3. Len(said') = Len(said) + 1 /\ said'[Len(said) + 1] = k
      BY <3>2, <1>t, Appended
    <3> QED BY <3>1, <3>3
  <2>5. Idle'
    BY <2>2 DEF Idle, First, Early
  <2>6. Charged'
    BY <2>1, <2>3, <1>b DEF Charged
  <2>7. Announced'
    BY <2>1, <2>4 DEF Announced
  <2>8. Paid'
    BY <2>2, <2>3, <1>b DEF Paid, Scored
  <2> QED BY <2>5, <2>6, <2>7, <2>8 DEF Budgets
<1>6. ASSUME NEW r \in Ranks, ReceiveReward(r) PROVE Budgets'
  <2>1. /\ r # 0 /\ said' = said /\ scoring' = scoring /\ payload' = payload /\ Len(said) = W + 1
        /\ \/ said[W + 1] /\ ledger' = [ledger EXCEPT ![r] = payload] /\ Go(r, "images", 0)
           \/ Go(r, "failed", 0) /\ ledger' = ledger
    BY <1>6 DEF ReceiveReward
  <2>2. \A q \in Ranks \ {r} : at'[q] = at[q] /\ ledger'[q] = ledger[q]
    BY <2>1, <1>t, OneMoves
  <2>3. at'[0] = at[0] /\ ledger'[0] = ledger[0]
    BY <2>1, <2>2, <1>s
  <2>4. Idle' /\ Charged' /\ Announced'
    BY <2>1, <2>3, <1>b DEF Idle, Charged, Announced
  <2>5. at'[r].stage = "failed" \/ ledger'[r] = [samples |-> W, calls |-> W]
    <3>1. CASE Go(r, "failed", 0)
      BY <3>1, <1>t, OneMoves
    <3>2. CASE said[W + 1] /\ ledger' = [ledger EXCEPT ![r] = payload]
      <4>1. payload = [samples |-> W, calls |-> W]
        BY <2>1, <3>2, <1>b DEF Announced, Charged
      <4> QED BY <4>1, <3>2, <1>t
    <3> QED BY <2>1, <3>1, <3>2
  <2>6. Paid'
    BY <2>2, <2>5, <1>b DEF Paid, Scored
  <2> QED BY <2>4, <2>6 DEF Budgets
<1> QED BY <1>1, <1>2, <1>3, <1>4, <1>5, <1>6 DEF Next, Threads, Primary, Together, Peer, Unpaid

-----------------------------------------------------------------------------
(* The exchange of the traces.                                             *)

\* The batch does not change.
LEMMA Fixed ==
  ASSUME input' = input
  PROVE  /\ Waves' = Waves
         /\ \A r, w : Mine(r, w)' = Mine(r, w) /\ Images(r, w)' = Images(r, w)
         /\ \A x : TraceSeq(x)' = TraceSeq(x)
BY DEF Waves, Mine, Images, TraceSeq

(* What a wave's work item holds is decided by the rank that holds it.      *)
LEMMA HoldsStay ==
  ASSUME NEW r \in Ranks, Holds(r), input' = input, received'[r] = received[r],
         \/ at'[r] = at[r]
         \/ After(r) /\ at'[r].stage \in Late \union {"failed"}
  PROVE  Holds(r)'
<1>1. /\ Waves' = Waves /\ \A w : Whole(r, w)' = Whole(r, w) /\ Begun(r, w)' = Begun(r, w)
      /\ \A w : received'[r][w] = received[r][w]
  BY Fixed DEF Whole, Begun
<1>2. CASE at'[r] = at[r]
  BY <1>1, <1>2 DEF Holds, At, After
<1>3. CASE After(r) /\ at'[r].stage \in Late \union {"failed"}
  <2>1. at'[r].stage \notin {"collect", "join", "move"} /\ \A w \in Waves : Whole(r, w)
    BY <1>3 DEF Holds, Late
  <2> QED BY <1>1, <2>1 DEF Holds, At
<1> QED BY <1>2, <1>3

\* Rank 0's turn depends on what it holds itself.
LEMMA TurnsStay ==
  ASSUME Turns, 0 \in Ranks, input' = input, turn' = turn, received'[0] = received[0],
         at'[0] = at[0]
  PROVE  Turns'
<1>1. /\ Waves' = Waves /\ \A w : Whole(0, w)' = Whole(0, w)
      /\ \A q, w : Images(q, w)' = Images(q, w)
  BY Fixed DEF Whole
<1> QED BY <1>1 DEF Turns, At

(* So is what its wire carries, by what rank 0 has not sent.                *)
LEMMA WayStays ==
  ASSUME NEW r \in Ranks, OnItsWay(r), input' = input, wire'[r] = wire[r],
         at'[r] = at[r], received'[r] = received[r], Unsent(r)' = Unsent(r)
  PROVE  OnItsWay(r)'
<1>1. Awaited(r)' = Awaited(r)
  BY Fixed DEF Awaited, At
<1> QED BY <1>1 DEF OnItsWay

\* What rank 0 has not sent depends on rank 0.
LEMMA UnsentStays ==
  ASSUME NEW r \in Ranks, input' = input, turn' = turn, at'[0] = at[0]
  PROVE  Unsent(r)' = Unsent(r)
BY Fixed DEF Unsent, After, At

(* The first wave.                                                         *)
LEMMA HoldsFirst ==
  ASSUME NEW r \in Ranks, input \in Batches, input' = input, received'[r] = received[r],
         \A w \in Waves : received[r][w] = <<>>, at'[r].stage = "move", at'[r].i = 1
  PROVE  Holds(r)'
<1>1. Len(input.schedule) \in Nat /\ Waves \subseteq Nat \ {0} /\ Waves' = Waves
  BY Alike, Fixed
<1>2. \A w \in Waves : Images(r, w) \in Nat /\ Images(r, w)' = Images(r, w)
  BY Alike, Fixed
<1>3. \A w \in Waves : Len(received'[r][w]) = 0 /\ DOMAIN received'[r][w] = {}
  OBVIOUS
<1>4. \A w \in Waves : Begun(r, w)'
  BY <1>1, <1>2, <1>3 DEF Begun
<1>5. /\ at'[r].i \in 1 .. Len(input.schedule) + 1 /\ ~After(r)'
      /\ \A w \in Waves : ~(w < 1)
  BY <1>1 DEF After, Late
<1> QED BY <1>1, <1>4, <1>5 DEF Holds, At

(* A wave whose traces all came is whole.                                  *)
LEMMA Filled ==
  ASSUME NEW r \in Ranks, NEW w \in Waves, input \in Batches, received[r][w] \in Seq(Traces),
         Begun(r, w), Len(received[r][w]) = Images(r, w)
  PROVE  Whole(r, w)
<1>1. DOMAIN received[r][w] = 1 .. Images(r, w)
  OBVIOUS
<1>2. received[r][w] = [i \in 1 .. Images(r, w) |-> received[r][w][i]]
  BY <1>1
<1>3. \A i \in 1 .. Images(r, w) : received[r][w][i] = <<Mine(r, w), i>>
  BY <1>1 DEF Begun
<1>4. TraceSeq(Mine(r, w)) = [i \in 1 .. Images(r, w) |-> <<Mine(r, w), i>>]
  BY DEF TraceSeq, Images
<1> QED BY <1>2, <1>3, <1>4 DEF Whole

\* Nothing is sent or awaited yet but the first image.
LEMMA InitTransfers == Init => Transfers
<1> SUFFICES ASSUME Init PROVE Transfers
  OBVIOUS
<1>1. /\ \A r \in Ranks : at[r].stage = "collect" /\ wire[r] = <<>>
      /\ \A r \in Ranks : \A w \in Waves : received[r][w] = <<>>
      /\ turn = [owner |-> 0, image |-> 1] /\ 0 \in Ranks /\ input \in Batches
  BY Sizes DEF Init
<1>2. Turns /\ \A r \in Ranks : Holds(r)
  BY <1>1 DEF Turns, Holds, At, After, Late
<1>3. ASSUME NEW r \in Ranks PROVE OnItsWay(r)
  <2>1. Awaited(r) = <<1, 1>> /\ Unsent(r) = <<1, 1>>
    BY <1>1 DEF Awaited, Unsent, At, After, Late
  <2>2. \A p : Before(p, <<1, 1>>) \/ ~Before(p, <<1, 1>>)
    OBVIOUS
  <2>3. Carries(input, r, <<>>, <<1, 1>>, <<1, 1>>)
    BY DEF Carries
  <2> QED BY <1>1, <2>1, <2>3 DEF OnItsWay
<1> QED BY <1>2, <1>3 DEF Transfers

\* A step that moves no trace keeps the exchange.
LEMMA TransfersStay ==
  ASSUME Types, Control, Transfers,
         input' = input, turn' = turn, wire' = wire, received' = received,
         \/ at' = at
         \/ \A q \in Ranks : at[q].stage = "moved" /\ at'[q].stage = "record"
         \/ \A q \in Ranks : \/ at'[q] = at[q]
                             \/ at[q].stage \in Late /\ at'[q].stage \in Late \union {"failed"}
  PROVE  Transfers'
<1>s. 0 \in Ranks
  BY Sizes
<1>p. "moved" \notin Late /\ "record" \in Late
  BY DEF Late
<1>1. ASSUME NEW r \in Ranks
      PROVE  at'[r] = at[r] \/ (After(r) /\ at'[r].stage \in Late \union {"failed"})
  BY <1>p DEF After
<1>2. \A r \in Ranks : Holds(r)'
  BY <1>1, HoldsStay DEF Transfers
<1>3. Turns'
  <2>1. CASE at'[0] = at[0]
    BY <2>1, <1>s, TurnsStay DEF Transfers
  <2>2. CASE After(0) /\ at'[0].stage \in Late \union {"failed"}
    BY <2>2 DEF Turns, At, Late
  <2> QED BY <2>1, <2>2, <1>1, <1>s
<1>4. ASSUME NEW r \in Ranks \ {0} PROVE OnItsWay(r)'
  <2>1. CASE at'[0] = at[0] /\ at'[r] = at[r]
    BY <2>1, UnsentStays, WayStays DEF Transfers
  <2>2. CASE at'[r].stage \in Late \union {"failed"}
    BY <2>2 DEF OnItsWay, Late
  <2>3. CASE at[0].stage \in Late
    <3>1. at[r].stage \in Late \union {"failed"}
      BY <2>3, <1>s DEF Control, Abreast
    <3>2. at'[r].stage \in Late \union {"failed"}
      BY <3>1, <1>1
    <3> QED BY <3>2, <2>2
  <2> QED BY <2>1, <2>2, <2>3, <1>s, <1>p
<1> QED BY <1>2, <1>3, <1>4 DEF Transfers

(* After the last image of a wave comes the first of the next.             *)
LEMMA Rollover ==
  ASSUME NEW r \in Ranks, NEW w \in Waves, input \in Batches, NEW p \in Places(input, r)
  PROVE  Before(p, <<w, Images(r, w) + 1>>) <=> Before(p, <<w + 1, 1>>)
<1>1. PICK v \in Waves, k \in Nat \ {0} : k <= Images(r, v) /\ p = <<v, k>>
  BY PlaceOf DEF Waves, Images, Mine
<1>2. Waves \subseteq Nat /\ Images(r, w) \in Nat /\ Images(r, v) \in Nat
  BY Alike
<1>3. v = w \/ v < w \/ w < v
  BY <1>2
<1>4. v = w => k < Images(r, w) + 1 /\ v < w + 1
  BY <1>1, <1>2
<1>5. v < w => v < w + 1
  BY <1>2
<1>6. w < v => ~(v < w) /\ v # w /\ ~(v < w + 1) /\ ~(k < 1)
  BY <1>1, <1>2
<1> QED BY <1>1, <1>3, <1>4, <1>5, <1>6 DEF Before

(* A wave ends when all its traces came; the next one has none yet.         *)
LEMMA HoldsNext ==
  ASSUME NEW r \in Ranks, Types, Holds(r), input' = input, received'[r] = received[r],
         NEW w \in Waves, at[r].stage = "move", at[r].i = w, Whole(r, w),
         at'[r].stage = "move", at'[r].i = w + 1
  PROVE  /\ Holds(r)'
         /\ w + 1 \in Waves => received[r][w + 1] = <<>>
         /\ w + 1 \in 1 .. Len(input.schedule) + 1
<1>1. /\ input \in Batches /\ Len(input.schedule) \in Nat /\ Waves = 1 .. Len(input.schedule)
      /\ \A v \in Waves : Images(r, v) \in Nat /\ Images(r, v)' = Images(r, v)
      /\ Waves' = Waves /\ \A v \in Waves : Whole(r, v)' = Whole(r, v)
  <2>1. input \in Batches
    BY DEF Types
  <2> QED BY <2>1, Alike, Fixed DEF Waves, Whole
<1>2. /\ \A v \in Waves : v < w => Whole(r, v)
      /\ \A v \in Waves : v > w => received[r][v] = <<>>
  BY DEF Holds, At
<1>3. \A v \in Waves : v < w + 1 => v < w \/ v = w
  BY <1>1
<1>4. w + 1 \in 1 .. Len(input.schedule) + 1 /\ w + 1 > w
  BY <1>1
<1>5. \A v \in Waves : v > w + 1 => v > w
  BY <1>1
<1>6. w + 1 \in Waves => received[r][w + 1] = <<>>
  BY <1>2, <1>4
<1>7. w + 1 \in Waves => Begun(r, w + 1)'
  <2>1. w + 1 \in Waves => Len(received'[r][w + 1]) = 0 /\ DOMAIN received'[r][w + 1] = {}
    BY <1>6
  <2> QED BY <2>1, <1>1 DEF Begun
<1>8. ~After(r)'
  BY DEF After, Late
<1>9. Holds(r)'
  <2>1. \A v \in Waves : v < w + 1 => Whole(r, v)'
    BY <1>1, <1>2, <1>3
  <2>2. \A v \in Waves : v = w + 1 => Begun(r, v)'
    BY <1>7
  <2>3. \A v \in Waves : v > w + 1 => received'[r][v] = <<>>
    BY <1>2, <1>5
  <2> QED BY <1>1, <1>4, <1>8, <2>1, <2>2, <2>3 DEF Holds, At
<1> QED BY <1>4, <1>6, <1>9

(* One trace more of the wave the rank is at.                              *)
LEMMA HoldsMore ==
  ASSUME NEW r \in Ranks, Types, Holds(r), input' = input, at'[r] = at[r],
         NEW w \in Waves, at[r].stage = "move", at[r].i = w,
         Len(received[r][w]) < Images(r, w),
         received'[r] = [received[r] EXCEPT ![w] = Append(@,
             <<Mine(r, w), Len(received[r][w]) + 1>>)]
  PROVE  /\ Holds(r)' /\ Len(received'[r][w]) = Len(received[r][w]) + 1
<1> DEFINE s == received[r][w]
           e == <<Mine(r, w), Len(s) + 1>>
<1>1. /\ received[r] \in [Waves -> Seq(Traces)] /\ Images(r, w) \in Nat /\ Mine(r, w) \in Rollouts
      /\ Waves' = Waves /\ \A v \in Waves : Images(r, v)' = Images(r, v) /\ Mine(r, v)' = Mine(r, v)
      /\ \A x : TraceSeq(x)' = TraceSeq(x)
  <2>1. input \in Batches /\ received[r] \in [Waves -> Seq(Traces)]
    BY DEF Types
  <2> QED BY <2>1, Alike, Fixed
<1>2. s \in Seq(Traces) /\ Len(s) \in Nat /\ e \in Traces
  BY <1>1 DEF Traces
<1>3. received'[r][w] = Append(s, e) /\ \A v \in Waves \ {w} : received'[r][v] = received[r][v]
  BY <1>1
<1> HIDE DEF e, s
<1>4. /\ Len(Append(s, e)) = Len(s) + 1 /\ DOMAIN Append(s, e) = 1 .. Len(s) + 1
      /\ Append(s, e)[Len(s) + 1] = e /\ \A q \in 1 .. Len(s) : Append(s, e)[q] = s[q]
      /\ DOMAIN s = 1 .. Len(s)
  BY <1>2, Appended
<1>5. Begun(r, w)'
  <2>1. Begun(r, w) /\ Len(s) < Images(r, w)
    BY DEF Holds, At, s
  <2>2. Len(s) + 1 <= Images(r, w)
    BY <1>1, <1>2, <2>1
  <2>3. ASSUME NEW i \in DOMAIN Append(s, e) PROVE Append(s, e)[i] = <<Mine(r, w), i>>
    <3>1. i \in 1 .. Len(s) \/ i = Len(s) + 1
      BY <1>2, <1>4
    <3>2. CASE i \in 1 .. Len(s)
      BY <3>2, <1>4, <2>1 DEF Begun, s
    <3>3. CASE i = Len(s) + 1
      BY <3>3, <1>4 DEF e
    <3> QED BY <3>1, <3>2, <3>3
  <2> QED BY <1>1, <1>3, <1>4, <2>2, <2>3 DEF Begun
<1>6. Holds(r)'
  <2>1. Waves \subseteq Nat
    BY Alike DEF Types
  <2>2. \A v \in Waves : v < w => Whole(r, v)'
    <3>1. \A v \in Waves : v < w => Whole(r, v) /\ v # w
      BY <2>1 DEF Holds, At
    <3> QED BY <3>1, <1>1, <1>3 DEF Whole
  <2>3. \A v \in Waves : v > w => received'[r][v] = <<>>
    <3>1. \A v \in Waves : v > w => received[r][v] = <<>> /\ v # w
      BY <2>1 DEF Holds, At
    <3> QED BY <3>1, <1>3
  <2>4. ~After(r)' /\ at'[r].i \in 1 .. Len(input.schedule) + 1
    BY DEF Holds, At, After, Late
  <2> QED BY <1>1, <1>5, <2>2, <2>3, <2>4 DEF Holds, At
<1> QED BY <1>3, <1>4, <1>6 DEF s

\* Every step keeps the exchange.
LEMMA NextTransfers ==
  ASSUME Types, Control, Groups, Transfers, [Next]_vars, ~At(0, "lost")
  PROVE  Transfers'
<1>s. /\ W \in Nat \ {0} /\ 0 \in Ranks /\ Ranks \subseteq Nat /\ \A r \in Ranks : r < W
  BY Sizes
<1>t. /\ at \in [Ranks -> [stage : Stages, i : Nat]] /\ input \in Batches
      /\ turn \in [owner : Ranks, image : Nat \ {0}]
      /\ wire \in [Ranks -> Seq([wave : Nat, trace : Traces])]
      /\ received \in [Ranks -> [Waves -> Seq(Traces)]]
  BY DEF Types
<1>b. /\ Len(input.schedule) \in Nat /\ Waves = 1 .. Len(input.schedule)
      /\ \A r \in Ranks, w \in Waves : Images(r, w) \in Nat /\ Images(r, w) = Images(0, w)
  BY <1>t, Alike DEF Waves
<1>c. Turns /\ (\A r \in Ranks : Holds(r)) /\ \A r \in Ranks \ {0} : OnItsWay(r)
  BY DEF Transfers
<1>1. ASSUME \/ \E p \in Ranks : Persist(p) \/ GroupFails(p)
             \/ UNCHANGED vars
      PROVE  Transfers'
  <2>1. input' = input /\ turn' = turn /\ wire' = wire /\ received' = received /\ at' = at
    BY <1>1 DEF Persist, GroupFails, vars, moving
  <2> QED BY <2>1, TransfersStay
<1>2. ASSUME Later PROVE Transfers'
  BY <1>2, Onward, TransfersStay
<1>3. ASSUME BroadcastGroup PROVE Transfers'
  <2>1. /\ input' = input /\ turn' = turn /\ wire' = wire /\ received' = received
        /\ at[0].stage = "collect"
        /\ Go(0, "reap", 0) \/ Go(0, "collect", at[0].i + 1) \/ Go(0, "join", 0)
    BY <1>3 DEF BroadcastGroup, moving, At
  <2>2. /\ at'[0].stage \in {"reap", "collect", "join"}
        /\ \A q \in Ranks \ {0} : at'[q] = at[q]
    BY <2>1, <1>s, <1>t, OneMoves
  <2>3. /\ turn = [owner |-> 0, image |-> 1] /\ \A w \in Waves : received[0][w] = <<>>
    BY <2>1, <1>s, <1>c DEF Turns, Holds
  <2>4. ~After(0) /\ ~After(0)' /\ at'[0].stage # "move"
    BY <2>1, <2>2 DEF After, Late
  <2>5. Turns'
    BY <2>1, <2>3, <2>4 DEF Turns, At
  <2>6. Holds(0)'
    BY <2>1, <2>3, <2>4, Fixed DEF Holds, At
  <2>7. ASSUME NEW r \in Ranks \ {0} PROVE Holds(r)' /\ OnItsWay(r)'
    <3>1. Unsent(r)' = <<1, 1>> /\ Unsent(r) = <<1, 1>>
      BY <2>1, <2>4 DEF Unsent, At
    <3> QED BY <3>1, <2>1, <2>2, <1>c, HoldsStay, WayStays
  <2> QED BY <2>5, <2>6, <2>7, <1>s DEF Transfers
<1>4. ASSUME JoinThreads PROVE Transfers'
  <2>1. /\ input' = input /\ turn' = turn /\ wire' = wire /\ received' = received
        /\ \/ at[0].stage = "join" /\ Go(0, "move", 1)
           \/ at[0].stage = "reap" /\ Go(0, "failed", 0)
    BY <1>4 DEF JoinThreads, moving, At
  <2>2. /\ \/ at[0].stage = "join" /\ at'[0].stage = "move" /\ at'[0].i = 1
           \/ at[0].stage = "reap" /\ at'[0].stage = "failed"
        /\ \A q \in Ranks \ {0} : at'[q] = at[q]
    BY <2>1, <1>s, <1>t, OneMoves
  <2>3. ~After(0) /\ ~After(0)' /\ ~At(0, "move")
    BY <2>2 DEF After, Late, At
  <2>4. at[0].stage = "join" => /\ turn = [owner |-> 0, image |-> 1]
                                /\ \A w \in Waves : received[0][w] = <<>>
    BY <1>s, <1>c DEF Turns, Holds
  <2>5. Turns'
    <3>1. CASE at'[0].stage = "failed"
      BY <3>1 DEF Turns, At
    <3>2. CASE at[0].stage = "join" /\ at'[0].stage = "move" /\ at'[0].i = 1
      <4>1. turn'.image = 1 /\ turn'.owner = 0 /\ turn' = [owner |-> 0, image |-> 1]
        BY <3>2, <2>1, <2>4
      <4>2. 1 \in Waves => /\ Len(received'[0][1]) = 0
                           /\ 1 <= Images(0, 1) + 1 /\ Images(0, 1)' = Images(0, 1)
        BY <3>2, <2>1, <2>4, <1>b, <1>s, Fixed
      <4> QED BY <3>2, <4>1, <4>2, <2>1, Fixed DEF Turns, At
    <3> QED BY <2>2, <3>1, <3>2
  <2>6. Holds(0)'
    <3>1. CASE at'[0].stage = "failed"
      BY <3>1, <2>3 DEF Holds, At
    <3>2. CASE at[0].stage = "join" /\ at'[0].stage = "move" /\ at'[0].i = 1
      BY <3>2, <2>1, <2>4, <1>s, <1>t, HoldsFirst
    <3> QED BY <2>2, <3>1, <3>2
  <2>7. ASSUME NEW r \in Ranks \ {0} PROVE Holds(r)' /\ OnItsWay(r)'
    <3>1. Unsent(r) = <<1, 1>>
      BY <2>3 DEF Unsent
    <3>2. Unsent(r)' = <<1, 1>>
      <4>1. CASE at'[0].stage = "failed"
        BY <4>1, <2>3 DEF Unsent, At
      <4>2. CASE at[0].stage = "join" /\ at'[0].stage = "move" /\ at'[0].i = 1
        <5>1. turn'.owner = 0 /\ 0 < r
          BY <4>2, <2>1, <2>4, <1>s
        <5> QED BY <5>1, <4>2, <2>3 DEF Unsent, At
      <4> QED BY <2>2, <4>1, <4>2
    <3> QED BY <3>1, <3>2, <2>1, <2>2, <1>c, HoldsStay, WayStays
  <2> QED BY <2>5, <2>6, <2>7, <1>s DEF Transfers
<1>5. ASSUME NEW r \in Ranks, ReceiveGroup(r) PROVE Transfers'
  <2>1. /\ input' = input /\ turn' = turn /\ wire' = wire /\ received' = received
        /\ at[r].stage = "collect" /\ r # 0
        /\ Go(r, "failed", 0) \/ Go(r, "collect", at[r].i + 1) \/ Go(r, "move", 1)
    BY <1>5 DEF ReceiveGroup, moving, At
  <2>2. /\ at'[r].stage \in {"failed", "collect"} \/ (at'[r].stage = "move" /\ at'[r].i = 1)
        /\ \A q \in Ranks \ {r} : at'[q] = at[q]
    BY <2>1, <1>t, OneMoves
  <2>3. \A w \in Waves : received[r][w] = <<>>
    BY <2>1, <1>c DEF Holds
  <2>4. Turns'
    BY <2>1, <2>2, <1>s, <1>c, TurnsStay
  <2>5. ASSUME NEW q \in Ranks \ {r}
        PROVE  Holds(q)' /\ (q # 0 => OnItsWay(q)')
    BY <2>1, <2>2, <1>s, <1>c, HoldsStay, WayStays, UnsentStays
  <2>6. Holds(r)'
    <3>1. CASE at'[r].stage \in {"failed", "collect"}
      BY <3>1, <2>1, <2>3, Fixed DEF Holds, At, After, Late
    <3>2. CASE at'[r].stage = "move" /\ at'[r].i = 1
      BY <3>2, <2>1, <2>3, <1>t, HoldsFirst
    <3> QED BY <2>2, <3>1, <3>2
  <2>7. OnItsWay(r)'
    <3>1. Unsent(r)' = Unsent(r)
      BY <2>1, <2>2, <1>s, UnsentStays
    <3>2. Awaited(r) = <<1, 1>>
      BY <2>1 DEF Awaited, At
    <3>3. at'[r].stage \in {"collect", "move"} => Awaited(r)' = <<1, 1>>
      <4>1. CASE at'[r].stage = "collect"
        BY <4>1 DEF Awaited, At
      <4>2. CASE at'[r].stage = "move" /\ at'[r].i = 1
        <5>1. 1 \in Waves => Len(received'[r][1]) + 1 = 1
          BY <2>1, <2>3
        <5> QED BY <5>1, <4>2, <2>1, Fixed DEF Awaited, At
      <4> QED BY <2>2, <4>1, <4>2
    <3> QED BY <3>1, <3>2, <3>3, <2>1, <1>c DEF OnItsWay
  <2> QED BY <2>4, <2>5, <2>6, <2>7, <1>s DEF Transfers

<1>6. ASSUME MoveTrace PROVE Transfers'
  <2>1. PICK w \in Waves, s \in Ranks, i \in Nat \ {0} : at[0].i = w
          /\ turn = [owner |-> s, image |-> i]
    BY <1>6, <1>t DEF MoveTrace
  <2> DEFINE trace == <<Mine(s, w), i>>
  <2>2. /\ at' = at /\ input' = input /\ at[0].stage = "move" /\ i <= Images(s, w)
        /\ turn' = [turn EXCEPT !.image = @ + 1]
        /\ \/ s = 0 /\ wire' = wire /\ received' = [received EXCEPT ![0][w] = Append(@, trace)]
           \/ /\ s # 0 /\ received' = received
              /\ wire' = [wire EXCEPT ![s] = Append(@, [wave |-> w, trace |-> trace])]
    <3>1. trace \in pending[ClientOf(Mine(s, w))]
      BY <1>6, <2>1, NothingLost
    <3> HIDE DEF trace
    <3> QED BY <1>6, <2>1, <3>1 DEF MoveTrace, At, Images, trace
  <2>3. turn' = [owner |-> s, image |-> i + 1]
    BY <2>1, <2>2
  <2>4. Images(s, w) \in Nat /\ i + 1 <= Images(s, w) + 1
          /\ \A q \in Ranks : Images(q, w)' = Images(q, w)
    BY <2>2, <1>b, Fixed
  <2>5. CASE s = 0 /\ wire' = wire /\ received' = [received EXCEPT ![0][w] = Append(@, trace)]
    <3>1. Len(received[0][w]) = i - 1
      BY <2>1, <2>2, <2>5, <1>c DEF Turns, At
    <3>2. /\ Len(received[0][w]) + 1 = i /\ Len(received[0][w]) < Images(0, w)
      BY <3>1, <2>2, <2>4, <2>5
    <3>3. /\ received'[0] = [received[0] EXCEPT ![w] = Append(@,
                 <<Mine(0, w), Len(received[0][w]) + 1>>)]
          /\ \A q \in Ranks \ {0} : received'[q] = received[q]
      BY <2>5, <3>2, <1>t, <1>s
    <3>4. Holds(0)' /\ Len(received'[0][w]) = Len(received[0][w]) + 1
      BY <2>1, <2>2, <3>2, <3>3, <1>s, <1>c, HoldsMore
    <3>5. Turns'
      <4>1. Len(received'[0][w]) = (i + 1) - 1
        BY <3>2, <3>4
      <4> QED BY <2>1, <2>2, <2>3, <2>4, <2>5, <4>1, Fixed DEF Turns, At
    <3>6. ASSUME NEW r \in Ranks \ {0} PROVE Holds(r)' /\ OnItsWay(r)'
      <4>1. Unsent(r)' = Unsent(r)
        <5>1. 0 < r
          BY <1>s
        <5> QED BY <5>1, <2>1, <2>2, <2>3, <2>5 DEF Unsent, After, At
      <4> QED BY <4>1, <2>2, <2>5, <3>3, <1>c, HoldsStay, WayStays
    <3> QED BY <3>4, <3>5, <3>6, <1>s DEF Transfers
  <2>6. CASE /\ s # 0 /\ received' = received
             /\ wire' = [wire EXCEPT ![s] = Append(@, [wave |-> w, trace |-> trace])]
    <3>1. Turns'
      <4>1. Whole(0, w)' = Whole(0, w)
        BY <2>2, <2>6, Fixed DEF Whole
      <4> QED BY <2>1, <2>2, <2>3, <2>4, <2>6, <4>1, <1>c, Fixed DEF Turns, At
    <3>2. \A r \in Ranks : Holds(r)'
      BY <2>2, <2>6, <1>c, HoldsStay
    <3>3. ASSUME NEW r \in Ranks \ {0, s} PROVE OnItsWay(r)'
      <4>1. Unsent(r)' = Unsent(r)
        BY <2>1, <2>2, <2>3, <2>4, <3>3 DEF Unsent, After, At
      <4>2. wire'[r] = wire[r]
        BY <2>6, <1>t
      <4> QED BY <4>1, <4>2, <2>2, <2>6, <1>c, WayStays
    <3>4. OnItsWay(s)'
      <4>1. ~After(0) /\ ~After(0)' /\ ~(s < s)
        BY <2>2, <1>s DEF After, Late
      <4>2. Unsent(s) = <<w, i>> /\ Unsent(s)' = <<w, i + 1>>
        BY <4>1, <2>1, <2>2, <2>3 DEF Unsent, At
      <4>3. Awaited(s)' = Awaited(s)
        BY <2>2, <2>6, Fixed DEF Awaited, At
      <4>4. <<w, i>> \in Places(input, s)
        BY <2>2, <1>t, PlaceOf DEF Waves, Images, Mine
      <4>5. /\ Parcel(input, s, <<w, i>>) = [wave |-> w, trace |-> trace]
            /\ Beyond(<<w, i>>) = <<w, i + 1>>
        BY DEF Parcel, Mine, Beyond
      <4>6. wire'[s] = Append(wire[s], Parcel(input, s, <<w, i>>))
        BY <4>5, <2>6, <1>t
      <4>7. ASSUME at[s].stage \in {"collect", "move"}
            PROVE  Carries(input, s, Append(wire[s], Parcel(input, s, <<w, i>>)), Awaited(s),
                       <<w, i + 1>>)
        <5>1. Carries(input, s, wire[s], Awaited(s), <<w, i>>)
          BY <4>2, <4>7, <2>6, <1>c DEF OnItsWay
        <5>2. wire[s] \in Seq([wave : Nat, trace : Traces])
          BY <1>t
        <5>3. input \in Batches
          BY <1>t
        <5>4. Carries(input, s, Append(wire[s], Parcel(input, s, <<w, i>>)), Awaited(s),
                  Beyond(<<w, i>>))
          BY <5>1, <5>2, <5>3, <4>4, Posted
        <5> QED BY <5>4, <4>5
      <4> QED BY <4>2, <4>3, <4>6, <4>7, <2>2 DEF OnItsWay
    <3> QED BY <3>1, <3>2, <3>3, <3>4 DEF Transfers
  <2> HIDE DEF trace
  <2> QED BY <2>2, <2>5, <2>6
<1>7. ASSUME NextSlot PROVE Transfers'
  <2>1. PICK w \in Waves, s \in Ranks, i \in Nat \ {0} : at[0].i = w
          /\ turn = [owner |-> s, image |-> i]
    BY <1>7, <1>t DEF NextSlot
  <2>2. /\ input' = input /\ wire' = wire /\ received' = received
        /\ at[0].stage = "move" /\ i > Images(s, w)
        /\ turn' = [owner |-> (s + 1) % W, image |-> 1]
        /\ \/ s + 1 = W /\ Go(0, "move", w + 1)
           \/ s + 1 # W /\ at' = at
    BY <1>7, <2>1 DEF NextSlot, At, Images
  <2>3. i = Images(s, w) + 1 /\ Images(s, w) \in Nat /\ s \in Nat /\ w \in Nat
    <3>1. i <= Images(s, w) + 1
      BY <2>1, <2>2, <1>c DEF Turns, At
    <3> QED BY <3>1, <2>2, <1>b, <1>s
  <2>4. Whole(0, w)
    <3>1. CASE s # 0
      BY <3>1, <2>1, <2>2, <1>c DEF Turns, At
    <3>2. CASE s = 0
      <4>1. Len(received[0][w]) = Images(0, w)
        <5>1. Len(received[0][w]) = i - 1
          BY <3>2, <2>1, <2>2, <1>c DEF Turns, At
        <5> QED BY <5>1, <3>2, <2>3
      <4>2. Begun(0, w)
        BY <2>1, <2>2, <1>s, <1>c DEF Holds, At
      <4> QED BY <4>1, <4>2, <1>s, <1>t, Filled
    <3> QED BY <3>1, <3>2
  <2>5. CASE s + 1 # W /\ at' = at
    <3>1. turn' = [owner |-> s + 1, image |-> 1] /\ s + 1 \in Ranks /\ s + 1 # 0
      <4>1. s + 1 < W
        BY <2>3, <2>5, <1>s
      <4>2. (s + 1) % W = s + 1
        BY <4>1, <2>3, <1>s
      <4> QED BY <4>1, <4>2, <2>2, <2>3, <1>s DEF Ranks
    <3>2. Turns'
      <4>1. Whole(0, w)' /\ 1 <= Images(s + 1, w)' + 1
        BY <2>2, <2>4, <3>1, <1>b, Fixed DEF Whole
      <4> QED BY <4>1, <2>1, <2>2, <2>5, <3>1, Fixed DEF Turns, At
    <3>3. ASSUME NEW r \in Ranks PROVE Unsent(r)' = Unsent(r)
      <4>1. ~After(0) /\ ~After(0)' /\ Images(r, w)' = Images(r, w) /\ r \in Nat
        BY <2>2, <2>5, <1>s, Fixed DEF After, Late
      <4>2. CASE r < s
        BY <4>1, <4>2, <2>1, <2>2, <2>3, <2>5, <3>1 DEF Unsent, At
      <4>3. CASE r = s
        BY <4>1, <4>3, <2>1, <2>2, <2>3, <2>5, <3>1 DEF Unsent, At
      <4>4. CASE r = s + 1
        BY <4>1, <4>4, <2>1, <2>2, <2>3, <2>5, <3>1 DEF Unsent, At
      <4>5. CASE r > s + 1
        BY <4>1, <4>5, <2>1, <2>2, <2>3, <2>5, <3>1 DEF Unsent, At
      <4> QED BY <4>1, <4>2, <4>3, <4>4, <4>5, <2>3
    <3>4. \A r \in Ranks : Holds(r)'
      BY <2>2, <2>5, <1>c, HoldsStay
    <3>5. \A r \in Ranks \ {0} : OnItsWay(r)'
      BY <2>2, <2>5, <3>3, <1>c, WayStays
    <3> QED BY <3>2, <3>4, <3>5 DEF Transfers
  <2>6. CASE s + 1 = W /\ Go(0, "move", w + 1)
    <3>1. turn' = [owner |-> 0, image |-> 1]
      <4>1. W % W = 0
        BY <1>s
      <4> QED BY <4>1, <2>2, <2>6
    <3>2. /\ at'[0].stage = "move" /\ at'[0].i = w + 1 /\ \A q \in Ranks \ {0} : at'[q] = at[q]
      BY <2>6, <1>s, <1>t, OneMoves
    <3>3. /\ Holds(0)' /\ (w + 1 \in Waves => received[0][w + 1] = <<>>)
          /\ w + 1 \in 1 .. Len(input.schedule) + 1
      <4>1. /\ Holds(0) /\ Whole(0, w) /\ input' = input /\ received'[0] = received[0]
            /\ at[0].stage = "move" /\ at[0].i = w
        BY <2>1, <2>2, <2>4, <1>s, <1>c
      <4> QED BY <4>1, <3>2, <1>s, HoldsNext
    <3>4. Turns'
      <4>1. w + 1 \in Waves => Len(received'[0][w + 1]) = 1 - 1 /\ 1 <= Images(0, w + 1)' + 1
        BY <2>2, <3>3, <1>b, <1>s, Fixed
      <4> QED BY <3>1, <3>2, <4>1, <2>2, Fixed DEF Turns, At
    <3>5. ASSUME NEW r \in Ranks \ {0} PROVE Holds(r)' /\ OnItsWay(r)'
      <4>1. Holds(r)'
        BY <2>2, <3>2, <1>c, HoldsStay
      <4>2. Awaited(r)' = Awaited(r)
        BY <2>2, <3>2, Fixed DEF Awaited, At
      <4>3. ~After(0) /\ ~After(0)' /\ 0 < r /\ r \in Nat /\ (r < s \/ r = s)
        <5>1. r < W /\ r \in Nat
          BY <1>s
        <5>2. r < s \/ r = s
          BY <5>1, <2>3, <2>6
        <5> QED BY <5>1, <5>2, <2>2, <3>2 DEF After, Late
      <4>4. Unsent(r) = <<w, Images(r, w) + 1>>
        <5>1. CASE r < s
          BY <5>1, <4>3, <2>1, <2>2, <2>3 DEF Unsent, At
        <5>2. CASE r = s
          BY <5>2, <4>3, <2>1, <2>2, <2>3 DEF Unsent, At
        <5> QED BY <5>1, <5>2, <4>3
      <4>5. Unsent(r)' = <<w + 1, 1>>
        BY <4>3, <3>1, <3>2 DEF Unsent, At
      <4>6. ASSUME at[r].stage \in {"collect", "move"}
            PROVE  Carries(input, r, wire[r], Awaited(r), <<w + 1, 1>>)
        <5>1. Carries(input, r, wire[r], Awaited(r), <<w, Images(r, w) + 1>>)
          BY <4>4, <4>6, <1>c DEF OnItsWay
        <5>2. \A p \in Places(input, r) : Before(p, <<w, Images(r, w) + 1>>) <=> Before(p,
                  <<w + 1, 1>>)
          BY <1>t, Rollover
        <5> QED BY <5>1, <5>2, Renamed
      <4>7. OnItsWay(r)'
        BY <4>2, <4>5, <4>6, <2>2, <3>2 DEF OnItsWay
      <4> QED BY <4>1, <4>7
    <3> QED BY <3>3, <3>4, <3>5 DEF Transfers
  <2> QED BY <2>2, <2>5, <2>6
<1>8. ASSUME NEW r \in Ranks, ReceiveTrace(r) PROVE Transfers'
  <2>1. PICK w \in Waves : at[r].i = w
    BY <1>8 DEF ReceiveTrace
  <2>2. /\ r # 0 /\ at[r].stage = "move" /\ input' = input /\ at' = at /\ turn' = turn
        /\ Len(received[r][w]) < Images(r, w) /\ wire[r] # <<>>
        /\ received' = [received EXCEPT ![r][w] = Append(@, Head(wire[r]).trace)]
        /\ wire' = [wire EXCEPT ![r] = Tail(@)]
    BY <1>8, <2>1 DEF ReceiveTrace, At, Images
  <2>3. PICK n \in Nat : Len(received[r][w]) = n
    BY <1>t
  <2>4. Awaited(r) = <<w, n + 1>>
    BY <2>1, <2>2, <2>3 DEF Awaited, At
  <2>5. <<w, n + 1>> \in Places(input, r)
    <3>1. n + 1 \in Nat \ {0} /\ n + 1 <= Images(r, w)
      BY <2>2, <2>3, <1>b
    <3> QED BY <3>1, <1>t, PlaceOf DEF Waves, Images, Mine
  <2>6. Unsent(r)[1] \in Nat /\ Unsent(r)[2] \in Nat
    <3>1. at[0].i \in Nat /\ turn.image \in Nat
      BY <1>s, <1>t
    <3>2. CASE After(0) \/ ~At(0, "move")
      BY <3>2, <1>b DEF Unsent
    <3>3. CASE at[0].i \in Waves
      <4>1. Images(r, at[0].i) + 1 \in Nat
        BY <3>3, <1>b
      <4> QED BY <3>1, <4>1, <1>b DEF Unsent
    <3>4. CASE At(0, "move") /\ at[0].i \notin Waves
      <4>1. turn.owner = 0 /\ 0 < r
        BY <3>4, <2>2, <1>s, <1>c DEF Turns
      <4> QED BY <3>1, <4>1, <1>b DEF Unsent
    <3> QED BY <3>2, <3>3, <3>4
  <2>7. /\ Head(wire[r]) = Parcel(input, r, <<w, n + 1>>)
        /\ Carries(input, r, Tail(wire[r]), Beyond(<<w, n + 1>>), Unsent(r))
    <3>1. Carries(input, r, wire[r], <<w, n + 1>>, Unsent(r))
      BY <2>2, <2>4, <1>c DEF OnItsWay
    <3>2. wire[r] \in Seq([wave : Nat, trace : Traces])
      BY <1>t
    <3> HIDE DEF Unsent
    <3> QED BY <3>1, <3>2, <2>2, <2>5, <2>6, <1>t, Delivered
  <2>8. Head(wire[r]).trace = <<Mine(r, w), n + 1>>
    BY <2>7 DEF Parcel, Mine
  <2>9. /\ received'[r] = [received[r] EXCEPT ![w] = Append(@, <<Mine(r, w), n + 1>>)]
        /\ wire'[r] = Tail(wire[r])
        /\ \A q \in Ranks \ {r} : received'[q] = received[q] /\ wire'[q] = wire[q]
    BY <2>2, <2>8, <1>t
  <2>10. Holds(r)' /\ Len(received'[r][w]) = n + 1
    <3>1. /\ Holds(r) /\ input' = input /\ at'[r] = at[r] /\ at[r].stage = "move" /\ at[r].i = w
          /\ Len(received[r][w]) < Images(r, w)
          /\ received'[r] = [received[r] EXCEPT ![w] =
                                Append(@, <<Mine(r, w), Len(received[r][w]) + 1>>)]
      BY <2>1, <2>2, <2>3, <2>9, <1>c
    <3>2. Holds(r)' /\ Len(received'[r][w]) = Len(received[r][w]) + 1
      BY <3>1, HoldsMore
    <3> QED BY <3>2, <2>3
  <2>11. Turns'
    BY <2>2, <2>9, <1>s, <1>c, TurnsStay
  <2>12. ASSUME NEW q \in Ranks \ {r} PROVE Holds(q)' /\ (q # 0 => OnItsWay(q)')
    BY <2>2, <2>9, <1>s, <1>c, HoldsStay, WayStays, UnsentStays
  <2>13. OnItsWay(r)'
    <3>1. Unsent(r)' = Unsent(r)
      BY <2>2, <1>s, UnsentStays
    <3>2. Awaited(r)' = <<w, n + 2>>
      BY <2>1, <2>2, <2>10, Fixed DEF Awaited, At
    <3>3. Beyond(<<w, n + 1>>) = <<w, n + 2>>
      BY DEF Beyond
    <3> QED BY <3>1, <3>2, <3>3, <2>2, <2>7, <2>9 DEF OnItsWay
  <2> QED BY <2>10, <2>11, <2>12, <2>13 DEF Transfers
<1>9. ASSUME NEW r \in Ranks, NextWave(r) PROVE Transfers'
  <2>1. PICK w \in Waves : at[r].i = w
    BY <1>9 DEF NextWave
  <2>2. /\ r # 0 /\ at[r].stage = "move" /\ input' = input
        /\ turn' = turn /\ wire' = wire /\ received' = received
        /\ Len(received[r][w]) = Images(r, w) /\ Go(r, "move", w + 1)
    BY <1>9, <2>1 DEF NextWave, At, Images, moving
  <2>3. /\ at'[r].stage = "move" /\ at'[r].i = w + 1 /\ \A q \in Ranks \ {r} : at'[q] = at[q]
    BY <2>2, <1>t, OneMoves
  <2>4. Whole(r, w)
    <3>1. Begun(r, w)
      BY <2>1, <2>2, <1>c DEF Holds, At
    <3> QED BY <3>1, <2>2, <1>t, Filled
  <2>5. Holds(r)' /\ (w + 1 \in Waves => received[r][w + 1] = <<>>)
    <3>1. /\ Holds(r) /\ Whole(r, w) /\ input' = input /\ received'[r] = received[r]
          /\ at[r].stage = "move" /\ at[r].i = w
      BY <2>1, <2>2, <2>4, <1>c
    <3> QED BY <3>1, <2>3, HoldsNext
  <2>6. Turns'
    BY <2>2, <2>3, <1>s, <1>c, TurnsStay
  <2>7. ASSUME NEW q \in Ranks \ {r} PROVE Holds(q)' /\ (q # 0 => OnItsWay(q)')
    BY <2>2, <2>3, <1>s, <1>c, HoldsStay, WayStays, UnsentStays
  <2>8. OnItsWay(r)'
    <3>1. Unsent(r)' = Unsent(r)
      BY <2>2, <2>3, <1>s, UnsentStays
    <3>2. Awaited(r) = <<w, Images(r, w) + 1>>
      BY <2>1, <2>2 DEF Awaited, At
    <3>3. Awaited(r)' = <<w + 1, 1>>
      <4>1. w + 1 \in Waves => Len(received'[r][w + 1]) + 1 = 1
        BY <2>2, <2>5
      <4> QED BY <4>1, <2>2, <2>3, Fixed DEF Awaited, At
    <3>4. Carries(input, r, wire[r], <<w + 1, 1>>, Unsent(r))
      <4>1. Carries(input, r, wire[r], <<w, Images(r, w) + 1>>, Unsent(r))
        BY <2>2, <3>2, <1>c DEF OnItsWay
      <4>2. \A p \in Places(input, r) : Before(p, <<w, Images(r, w) + 1>>) <=> Before(p,
                <<w + 1, 1>>)
        BY <1>t, Rollover
      <4> QED BY <4>1, <4>2, Renamed
    <3> QED BY <3>1, <3>3, <3>4, <2>2 DEF OnItsWay
  <2> QED BY <2>5, <2>6, <2>7, <2>8 DEF Transfers
<1>10. ASSUME NEW r \in Ranks, Release(r) PROVE Transfers'
  <2>1. /\ at[r].stage = "move" /\ at[r].i > Len(input.schedule) /\ input' = input
        /\ turn' = turn /\ wire' = wire /\ received' = received /\ Go(r, "moved", 0)
    BY <1>10, NothingLost DEF Release, At, moving
  <2>2. at'[r].stage = "moved" /\ \A q \in Ranks \ {r} : at'[q] = at[q]
    BY <2>1, <1>t, OneMoves
  <2>3. /\ at[r].i = Len(input.schedule) + 1
        /\ \A w \in Waves : w < at[r].i
    <3>1. at[r].i \in 1 .. Len(input.schedule) + 1
      BY <2>1, <1>c DEF Holds, At
    <3> QED BY <3>1, <2>1, <1>b
  <2>4. Holds(r)'
    <3>1. \A w \in Waves : Whole(r, w)' /\ Whole(r, w)
      BY <2>1, <2>3, <1>c, Fixed DEF Holds, At, Whole
    <3> QED BY <3>1, <2>1, <2>2, Fixed DEF Holds, At
  <2>5. \A q \in Ranks \ {r} : Holds(q)'
    BY <2>1, <2>2, <1>c, HoldsStay
  <2>6. CASE r # 0
    <3>1. Turns'
      BY <2>1, <2>2, <2>6, <1>s, <1>c, TurnsStay
    <3>2. \A q \in Ranks \ {0, r} : OnItsWay(q)'
      BY <2>1, <2>2, <2>6, <1>s, <1>c, WayStays, UnsentStays
    <3>3. OnItsWay(r)'
      BY <2>2 DEF OnItsWay
    <3> QED BY <2>4, <2>5, <3>1, <3>2, <3>3 DEF Transfers
  <2>7. CASE r = 0
    <3>1. Turns'
      BY <2>2, <2>7 DEF Turns, At
    <3>2. at[0].i \notin Waves /\ turn.owner = 0
      <4>1. at[0].i \notin Waves
        BY <2>3, <2>7, <1>b
      <4> QED BY <4>1, <2>1, <2>7, <1>c DEF Turns, At
    <3>3. ASSUME NEW q \in Ranks \ {0} PROVE OnItsWay(q)'
      <4>1. 0 < q
        BY <1>s
      <4>2. ~After(0) /\ After(0)'
        BY <2>1, <2>2, <2>7 DEF After, Late
      <4>3. Unsent(q)' = Unsent(q)
        BY <4>1, <4>2, <2>1, <2>3, <2>7, <3>2 DEF Unsent, At
      <4> QED BY <4>3, <2>1, <2>2, <2>7, <1>c, WayStays
    <3> QED BY <2>4, <2>5, <2>7, <3>1, <3>3 DEF Transfers
  <2> QED BY <2>6, <2>7
<1> QED BY <1>1, <1>2, <1>3, <1>4, <1>5, <1>6, <1>7, <1>8, <1>9, <1>10, Cases

-----------------------------------------------------------------------------
(* All of it together, and what it says of the batch.                      *)

\* The invariant holds at first,
LEMMA InitHolds == Init => IInv
<1> SUFFICES ASSUME Init PROVE IInv
  OBVIOUS
<1>1. ~At(0, "lost")
  BY Sizes DEF Init, At
<1> QED BY <1>1, InitTypes, InitControl, InitGroups, InitTransfers, InitBudgets DEF IInv

\* and every step keeps it.
LEMMA NextHolds == IInv /\ [Next]_vars => IInv'
<1> SUFFICES ASSUME IInv, [Next]_vars PROVE IInv'
  OBVIOUS
<1>1. Types /\ ~At(0, "lost") /\ Control /\ Groups /\ Transfers /\ Budgets
  BY DEF IInv
<1>2. ~At(0, "lost")'
  BY <1>1, NothingLost
<1>3. Types'
  BY <1>1, NextTypes
<1>4. Control'
  BY <1>1, <1>2, NextControl
<1>5. Groups'
  BY <1>1, NextGroups
<1>6. Transfers'
  BY <1>1, NextTransfers
<1>7. Budgets'
  BY <1>1, NextBudgets
<1> QED BY <1>2, <1>3, <1>4, <1>5, <1>6, <1>7 DEF IInv

(* The inductive invariant holds in every state of every batch.            *)
THEOREM RlInvariant == Spec => []IInv
<1>1. Init => IInv
  BY InitHolds
<1>2. IInv /\ [Next]_vars => IInv'
  BY NextHolds
<1> QED BY <1>1, <1>2, PTL DEF Spec

(* Every rank replays from the traces of its own slots, in order, and rank *)
(* 0 keeps none: none was lost, swapped or sent to another rank.           *)
THEOREM RlTracesWhereReplayed == Spec => []TracesWhereReplayed
<1>1. ASSUME IInv PROVE TracesWhereReplayed
  <2>1. \A r \in Ranks : Moved(r) => After(r)
    BY DEF Moved, Scored, After, Late
  <2>2. /\ Types /\ ~At(0, "lost") /\ 0 \in Ranks
        /\ After(0) => \A c \in 0 .. Clients - 1 : pending[c] = {}
    BY <1>1, Sizes DEF IInv, Groups, Kept
  <2>3. ASSUME NEW r \in Ranks, Moved(r)
        PROVE  received[r] = [w \in Waves |-> TraceSeq(Mine(r, w))]
    <3>1. \A w \in Waves : received[r][w] = TraceSeq(Mine(r, w))
      BY <1>1, <2>1, <2>3 DEF IInv, Transfers, Holds, Whole
    <3>2. received[r] = [w \in Waves |-> received[r][w]]
      BY <2>2 DEF Types
    <3> QED BY <3>1, <3>2
  <2> QED BY <2>1, <2>2, <2>3 DEF TracesWhereReplayed
<1> QED BY <1>1, RlInvariant, PTL

(* Every rank that trains knows the whole budget of the batch.             *)
THEOREM RlBudgetsAgree == Spec => []BudgetsAgree
<1>1. ASSUME IInv PROVE BudgetsAgree
  <2>1. SUFFICES ASSUME NEW r \in Ranks, Scored(r)
                 PROVE  ledger[r] = [samples |-> W, calls |-> W]
    BY DEF BudgetsAgree
  <2>2. CASE r # 0
    BY <1>1, <2>1, <2>2 DEF IInv, Budgets, Paid
  <2>3. CASE r = 0
    <3>1. scoring.state = "ready"
      BY <1>1, <2>1 DEF IInv, Control, Admitted, Budgets, Announced
    <3> QED BY <1>1, <2>3, <3>1 DEF IInv, Budgets, Charged
  <2> QED BY <2>2, <2>3
<1> QED BY <1>1, RlInvariant, PTL

(* A batch that ends well on one rank fails on none, unless one of them    *)
(* failed by itself: the safety half of BatchEnds.                         *)
THEOREM RlOutcomesAgree == Spec => []OutcomesAgree
<1>1. ASSUME IInv PROVE OutcomesAgree
  <2>1. SUFFICES ASSUME alone = {}, NEW r \in Ranks, At(r, "done"),
                        NEW s \in Ranks, At(s, "failed")
                 PROVE  FALSE
    BY DEF OutcomesAgree
  <2>2. /\ said \in Seq(BOOLEAN) /\ Admitted /\ Excused
    BY <1>1 DEF IInv, Types, Control
  <2>3. /\ at[r].stage \in Late /\ Scored(r)
    BY <2>1 DEF At, Late, Scored
  <2>4. /\ Len(said) = W + 1 /\ said[W + 1] /\ \A p \in 1 .. W : said[p]
    BY <2>2, <2>3 DEF Admitted
  <2>5. \A p \in DOMAIN said : said[p]
    <3>1. DOMAIN said = 1 .. W + 1 /\ W \in Nat
      BY <2>2, <2>4, Sizes
    <3>2. \A p \in 1 .. W + 1 : p \in 1 .. W \/ p = W + 1
      BY <3>1
    <3> QED BY <3>1, <3>2, <2>4
  <2>6. \A q \in Ranks : At(q, "failed")
    BY <2>1, <2>2, <2>5 DEF Excused
  <2> QED BY <2>1, <2>6 DEF At
<1> QED BY <1>1, RlInvariant, PTL
=============================================================================
