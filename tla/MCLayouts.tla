------------------------------ MODULE MCLayouts ------------------------------
(***************************************************************************)
(* The pure algorithms over bounded inputs: one state per input.           *)
(***************************************************************************)
EXTENDS SequenceShards, BucketTransfer, TLC

Hf == INSTANCE HfImport
Moe == INSTANCE ExpertDispatch
Gt == INSTANCE ExpertGating
Par == INSTANCE ParallelLayers
Po == INSTANCE PolicyObjective
Tp == INSTANCE TokenPacks
Bs == INSTANCE BatchSampler
Tf == INSTANCE TrainingForward WITH Rows <- 1, Columns <- 2, Block <- 4, Split <- 3
Al == INSTANCE AttentionLayers WITH Rows <- 1, Columns <- 2, Block <- 4, Split <- 3,
        HeadDim <- 8, QueryHeads <- 4, KvHeads <- 2, ThetaT <- 5000000, ThetaHw <- 10000, MaxPosition <- 40
Vp == INSTANCE VisionPatches WITH Factor <- 32, MaxAspect <- 200, Merge <- 2, Dim <- 4

VARIABLE subject

(* Eight ranks at most; every way to divide them that the context accepts,  *)
(* the strategy fsdp included, whose settings nothing checks before.        *)
Configurations ==
  {c \in [world : {4, 8}, isp : BOOLEAN, fsdp : BOOLEAN, tensor : {1, 2, 4}, pipeline : {1, 2},
          weight : {1, 2, 4}, zero1 : {-1, 1, 2}, experts : {1, 4}, expert : {-1, 2},
          eweight : {1, 2}, ezero1 : {-1, 2}, noTp : BOOLEAN] :
     /\ c.experts = 1 => c.expert = Unset /\ c.eweight = 1 /\ c.ezero1 = Unset /\ ~c.noTp
     /\ c.isp => ~c.noTp
     /\ Accepts(c)}

(* Windows inside context groups of up to eight, in worlds of up to 16.     *)
(* Interleaved windows fit when their indices stay inside the group; an odd *)
(* number of them does not, a window of the whole context included, and the *)
(* code then raises IndexError: its guard (355-361) clears a flag of the    *)
(* attention, the windows read one of the placement strategy (395-402).     *)
Attentions ==
  {a \in [world : {8, 16}, head : {1, 2, 4}, context : {2, 4, 6, 8}, window : {1, 2, 4, 8},
          headFirst : BOOLEAN, interleaved : BOOLEAN] : AttnFits(a.world, a)}

(* Tensors of fewer, as many and more rows than ranks, that fill a bucket   *)
(* of 24 bytes, share it or exceed it.                                      *)
Entry(owner, dtype, rows, cols, sharded, transpose) ==
  [owner |-> owner, dtype |-> dtype, rows |-> rows, cols |-> cols,
   sharded |-> sharded, transpose |-> transpose]
Entries ==
  {Entry("language", "bfloat16", 1, 2, TRUE, FALSE), Entry("language", "bfloat16", 4, 1, TRUE, FALSE),
   Entry("language", "bfloat16", 5, 2, TRUE, TRUE),  Entry("language", "float32", 3, 2, TRUE, FALSE),
   Entry("language", "float32", 2, 2, FALSE, TRUE)}
Others == {Entry("vision", "float32", 3, 1, TRUE, FALSE), Entry("vision", "bfloat16", 2, 1, FALSE, FALSE)}
Closures ==
  {own \o other : own \in UNION {[1 .. n -> Entries] : n \in 1 .. 3},
                  other \in {<<>>} \union [1 .. 1 -> Others]}
Transfers == [entries : Closures, world : {1, 2, 3}]

(* Checkpoints of both namings, with and without a generation branch, and   *)
(* models of any depth.                                                     *)
Checkpoints ==
  {ck \in [layout : {"interleaved", "offset"}, k : 0 .. 2, n : 1 .. 4, ep : {1, 2}, ewp : {1, 2},
           experts : {2, 4}, genExperts : {2, 4}, mot : BOOLEAN] : ck.k <= ck.n}
Depths == [vit : 0 .. 9, llm : 1 .. 24]

(* Imports of each source, of each kind of layer, over one to four ranks;   *)
(* with several, a head of its own and an embedding cut by its columns.     *)
Imports ==
  {c \in [mode : {"isp", "mtp"}, n : {1, 2, 4}, source : {"mot", "random", "copied", "dense"},
          qk : BOOLEAN, moe : BOOLEAN, hidden : BOOLEAN, tied : BOOLEAN] :
     /\ c.n > 1 => c.mode = "isp" /\ c.hidden /\ ~c.tied
     /\ c.moe => c.source = "mot"}
Upcyclings ==
  {u \in [mode : {"isp", "mtp"}, n : {1, 2}, ep : {1, 2}, ew : {1, 2}, experts : {2, 4},
          split : {1, 2}, shared : {1, 2, 3}, gemm : BOOLEAN] : u.mode # "isp" /\ u.gemm => u.ew = 1}
Visions ==
  {v \in [mode : {"isp", "mtp"}, n : {1, 2, 3}, heads : {3, 4, 6}] : v.mode = "isp" => v.n # 3}
Savers == [mode : {"isp", "mtp"}, tensor : {1, 2}, weight : {1, 2}, pipeline : {1, 2}]

(* Layers of two to six experts and every way their tokens may choose.      *)
Injective(S, n) == {q \in [1 .. n -> S] : \A i, j \in 1 .. n : i # j => q[i] # q[j]}
Routed(ep, local, top, tokens) ==
  {[ep |-> ep, local |-> local, top |-> top, route |-> route] :
     route \in [1 .. ep -> [1 .. tokens -> Injective(1 .. ep * local, top)]]}
Layers == Routed(2, 2, 2, 1) \union Routed(2, 1, 1, 2) \union Routed(2, 1, 2, 2)
          \union Routed(3, 2, 1, 1) \union Routed(1, 3, 2, 2)

(* With capacity n an expert keeps that many of its choices, whichever.     *)
AtMost(choices, ExpertOf(_), experts, n) ==
  {kept \in SUBSET choices : \A e \in experts :
     LET Of(S) == Cardinality({c \in S : ExpertOf(c) = e})
     IN  Of(kept) = IF Of(choices) < n THEN Of(choices) ELSE n}
Everything(m) == [r \in 1 .. m.ep |-> Moe!Positions(m)]
Dropped(m) ==
  {kept \in [1 .. m.ep -> SUBSET Moe!Positions(m)] : \A r \in 1 .. m.ep :
     kept[r] \in AtMost(Moe!Positions(m), LAMBDA p : Moe!ExpertOf(m, r, p), Moe!Experts(m), 1)}
Fillings(m) ==
  {pad \in [1 .. m.ep -> [Moe!Experts(m) -> Injective(Moe!Tokens(m), 1)]] :
     \A r \in 1 .. m.ep, e \in Moe!Experts(m) :
       (\E t \in Moe!Tokens(m) : e \in ToSet(m.route[r][t])) => e \in ToSet(m.route[r][pad[r][e][1]])}
DroplessLayers ==
  UNION {{m @@ [pad |-> <<>>, kept |-> k] : k \in Dropped(m) \union {Everything(m)}}
         \union {m @@ [pad |-> p, kept |-> Everything(m)] : p \in Fillings(m)} : m \in Layers}

(* All choices, all but those of an unused token, or a random selection.    *)
SlottedLayers ==
  UNION {LET all == (1 .. m.top) \X Moe!Tokens(m)
             Alike(S) == [r \in 1 .. m.ep |-> S]
             Selected(n) == {[Alike(all) EXCEPT ![1] = S] : S \in
               AtMost(all, LAMBDA c : Moe!ChoiceExpert(m, 1, c), Moe!Experts(m), n)}
         IN  {m @@ [capacity |-> n, kept |-> k] : n \in 1 .. 2,
                k \in {Alike(all), Alike(all \ ((1 .. m.top) \X {1}))} \union Selected(1)}
         : m \in Layers}

(* Three tokens that crowd on one expert of three, meet by twos or disagree, *)
(* with room for all their choices, for some or for one each.               *)
Scores == {<<<<1, 4, 2>>, <<1, 4, 2>>, <<2, 5, 1>>>>, <<<<3, 2, 1>>, <<3, 1, 2>>, <<1, 2, 4>>>>,
           <<<<3, 2, 1>>, <<1, 4, 2>>, <<2, 1, 4>>>>}
Noises == {<<<<1, 2, 3>>, <<1, 2, 3>>, <<3, 1, 2>>>>, <<<<2, 3, 1>>, <<1, 3, 2>>, <<2, 1, 3>>>>}
GateOptions ==
  {o \in [k : 1 .. 3, training : {TRUE}, policy : {"None", "RSample", "RSample_before"}, vision : BOOLEAN,
           fused : BOOLEAN, rts : BOOLEAN, drop : BOOLEAN, rearrange : BOOLEAN, min : {1},
           factor : {<<1, 2>>, <<1, 1>>, <<5, 4>>}, elsewhere : {2}, used : {1 .. 3, {1, 3}},
           tokens : {3}, experts : {3}] :
     /\ o.k # 1 => o.drop
     /\ o.policy # "None" => o.factor = <<1, 1>>
     /\ ~o.vision => ~o.rts /\ o.used = 1 .. 3
     /\ o.rts => o.fused /\ o.k < 3 /\ o.factor = <<1, 1>>}
Gates ==
  {g \in {o @@ [gate |-> s, noisy |-> n] : o \in GateOptions, s \in Scores, n \in Noises} :
     Gt!Accepts(g) /\ (Gt!NoisyFrom(g) > g.k => g.noisy = CHOOSE n \in Noises : TRUE)}

(* Every way to run the network on up to four ranks; a fused block has no   *)
(* biases, and under weight parallelism another layout of its weights.      *)
Networks ==
  {c \in [mode : {"mtp", "msp", "isp"}, n : {1, 2, 4}, saves : BOOLEAN, fused : BOOLEAN,
          retain : BOOLEAN, vocab : BOOLEAN, bias : BOOLEAN] :
     c.fused => ~c.bias /\ (c.mode # "isp" \/ c.n = 1)}
Losses == [n : {2, 4}, target : [1 .. 4 -> {0, 1, 3}]]
Experts == UNION {[1 .. n -> [1 .. 2 -> {0, 1, 2}]] : n \in {1, 2}}
Pipelines == [items : 1 .. 12, stages : 1 .. 4, chunks : 1 .. 3]

(* Image schedules of three or four steps, any window, one or two rows.     *)
Images ==
  {i \in [window : [first : 0 .. 2, end : 1 .. 4, total : 3 .. 4, count : 1 .. 4],
          times : {<<0, 3, 7, 12>>, <<0, 1, 2, 5, 12>>}, batch : {1, 2}] :
     /\ Po!Prepared(i.times) /\ i.window.total = Len(i.times) - 1 /\ Po!Selectable(i.window)}

(* Up to three spans of two rows, each with zero to two actions of a row    *)
(* and padding after them.                                                  *)
TextRow(s, r, n, width) ==
  [i \in 1 .. width |-> IF i <= n THEN [real |-> TRUE, action |-> <<s, r, i>>] ELSE Po!Padding]
Spans(lengths) ==
  [s \in DOMAIN lengths |-> [r \in 0 .. 1 |->
     TextRow(s, r, lengths[s][r + 1], IF lengths[s][1] > lengths[s][2] THEN lengths[s][1] ELSE lengths[s][2])]]
SpanLengths == UNION {[1 .. n -> {<<1, 1>>, <<1, 2>>, <<2, 1>>, <<3, 1>>}] : n \in 1 .. 3}

(* Four rollouts over two ranks, two of them on each and padding between.   *)
TextEvent(ratios) ==
  [kind |-> "text", actions |-> [i \in DOMAIN ratios |-> [ratio |-> ratios[i], distance |-> i]]]
ImageEvent(ratios) == [TextEvent(ratios) EXCEPT !.kind = "image"]
Trajectories ==
  {<<TextEvent(<<10>>)>>, <<TextEvent(<<8, 13, 10>>)>>,
   <<TextEvent(<<9>>), ImageEvent(<<12, 7>>), TextEvent(<<10, 11>>)>>,
   <<TextEvent(<<14>>), ImageEvent(<<10, 9, 12>>), TextEvent(<<10>>), ImageEvent(<<13>>), TextEvent(<<6>>)>>}
Updates ==
  [rollouts : [1 .. 4 -> Trajectories], plan : {[image |-> 2, mse |-> 3, text |-> 1, kl |-> 1,
     imageClip |-> 1, textClip |-> 2, microbatch |-> n] : n \in 1 .. 3}]
Weighed(x, weight) == [rollout |-> x, advantage |-> x - 3, weight |-> weight]
Waves == <<<<Weighed(1, 1), Weighed(4, 0), Weighed(3, 1)>>, <<Weighed(2, 1), Weighed(4, 1), Weighed(3, 0)>>>>

(* Two groups of three and two reward dimensions: equal, spread, lonely or  *)
(* missing rewards.                                                         *)
Column(values) ==
  [i \in 1 .. 3 |-> [available |-> values[i] >= 0, value |-> values[i]]]
Columns == {Column(v) : v \in {<<1, 1, 1>>, <<0, 1, 2>>, <<3, 0, 6>>, <<2, 4, 0>>, <<-1, 2, -1>>, <<-1, -1, -1>>}}
RewardGroups ==
  {[rows |-> [i \in 1 .. 3 |-> <<c[1][i], c[2][i]>>]] : c \in Columns \X Columns}
Rewards == {b \in RewardGroups \X RewardGroups : Po!Scorable(b)}

(* Three samples of one to five tokens, some too short, in rows of four or  *)
(* six: samples that end with a row, fill one, or go over several.          *)
Files ==
  {d \in {[lengths |-> Tp!Kept(n, min), offsets |-> Tp!Offsets(n, min), order |-> <<2, 3, 1>>,
           max |-> m[1], packed |-> m[2]] :
             n \in [1 .. 3 -> 1 .. 5], min \in {0, 2}, m \in {<<2, 4>>, <<3, 4>>, <<2, 6>>}} :
     DOMAIN d.order = DOMAIN d.lengths}

(* Passes whose ramp ends inside the first, and samples that are left over. *)
Samplers ==
  {c \in [samples : {8, 13, 20}, world : 1 .. 3, batch : {2, 4}, start : {1, 2, 4}, incre : {1, 2},
          every : {1, 2}, micro : {1, 2}, ramp : BOOLEAN, seed : {5}] :
     /\ Bs!SamplerAccepts(Bs!Ramped(c))
     /\ ~c.ramp => c.start = 2 /\ c.incre = 2 /\ c.every = 1}
DataSet(name, length) == [name |-> name, length |-> length]
Draws ==
  [choices : [1 .. 6 -> 1 .. 2],
   later : {<<DataSet("b", 3), DataSet("c", 1), DataSet("a", 2)>>, <<DataSet("b", 3)>>,
            <<DataSet("a", 2), DataSet("b", 3)>>}]
Folders ==
  {[i \in 1 .. 3 |-> [lang |-> IF d[i] = "f3" THEN "l2" ELSE "l1", dir |-> d[i], length |-> n[i]]] :
     d \in {<<"f1", "f1", "f2">>, <<"f1", "f2", "f3">>, <<"f1", "f3", "f3">>}, n \in [1 .. 3 -> {1, 2}]}
Weightings ==
  {x \in (UNION {[S -> {0, 1, 3}] : S \in SUBSET {"l1", "l2", "f1", "f3"}}) \X Folders :
     Bs!WeightsAccepted(x[1], x[2])}

(* Lines of every task, of one or two rounds, with every condition dropped. *)
Ask(question, answer) == <<Tf!Turn("human", question), Tf!Turn("gpt", answer)>>
Asked == {<<"word">>, <<"image", "word">>}
Answers == {<<"word">>, <<"image">>, <<"word", "image">>, <<"image", "word">>, <<"word", "image", "image">>}
Conversations ==
  {Ask(q, a) : q \in Asked, a \in Answers \union {<<"think", "image">>}}
  \union {Ask(q, a) \o Ask(r, b) : q, r \in Asked, a \in Answers, b \in {<<"image">>, <<"image", "word">>}}
  \union {<<Tf!System>> \o Ask(q, <<"word", "image">>) : q \in Asked}
Line(task, conv, drop, pick, again, und) ==
  [task |-> task, conv |-> conv, images |-> [k \in 1 .. Tf!CountAll(conv) |-> k], drop |-> drop,
   pick |-> pick, again |-> again, und |-> und, thinks |-> und]
Lines ==
  {l \in {Line(task, conv, drop, pick, again, und) : task \in {"text", "i2t"}, conv \in Conversations,
             drop \in {"none"}, pick \in {1}, again \in {FALSE}, und \in BOOLEAN}
          \union {Line(task, conv, drop, pick, again, und) : task \in {"t2i"}, conv \in Conversations,
             drop \in {"none", "txt"}, pick \in {1}, again \in {FALSE}, und \in BOOLEAN}
          \union {Line(task, conv, drop, pick, again, und) : task \in {"it2i"}, conv \in Conversations,
             drop \in {"none", "txt", "img", "txtimg"}, pick \in {1}, again \in {FALSE}, und \in BOOLEAN}
          \union {Line("interleave", conv, drop, pick, again, und) : conv \in Conversations,
             drop \in {"none", "txt", "txtimg"}, pick \in {1, 2}, again \in BOOLEAN, und \in BOOLEAN} :
     /\ Tf!Accepted(l)
     /\ IF l.drop = "txtimg" /\ l.task = "interleave" THEN l.pick \in Tf!GeneratedPlaces(l.conv) ELSE l.pick = 1}

(* Two samples in a row, with or without dummies, that fill it, leave room  *)
(* for part of a piece of padding or for more than one.                     *)
Learned(task, conv, drop, again) == Line(task, conv, drop, 1, again, TRUE)
TwoRounds == Ask(<<"image", "word">>, <<"word", "image", "image", "word">>)
             \o Ask(<<"word">>, <<"image", "word", "image">>)
Shared ==
  {Learned("text", Ask(<<"word">>, <<"word">>), "none", FALSE),
   Learned("i2t", Ask(<<"image", "word">>, <<"word">>), "none", FALSE),
   Learned("it2i", Ask(<<"image", "image", "word">>, <<"word", "image">>), "none", FALSE),
   Learned("interleave", Ask(<<"word">>, <<"image", "word">>) \o Ask(<<"image", "word">>, <<"word">>), "none", TRUE),
   Learned("interleave", Ask(<<"word">>, <<"word", "image">>) \o Ask(<<"word">>, <<"image">>), "txt", FALSE),
   Learned("interleave", TwoRounds, "none", TRUE), Learned("interleave", TwoRounds, "none", FALSE)}
RowOf(first, second, extra) ==
  Tf!Collated(<<first, second>>, Len(first.ids) + Len(second.ids) + extra)
Trained(l, m, extra, spread) ==
  Tf!Forward(RowOf(Tf!Sample(l), Tf!Sample(m), extra), spread, IF spread THEN 2 ELSE 0)
(* Short rows of whole halves for two ranks, with and without dummies.      *)
Attending ==
  {f \in {Trained(l, m, extra, TRUE) : l \in {s \in Shared : s.task = "it2i" \/ s.again},
                                       m \in {s \in Shared : s.task = "i2t"}, extra \in {1, 2}} :
     Len(f.packed) % 2 = 0 /\ Len(f.packed) <= 50}
Grids == {[gh |-> 2, gw |-> 4, m |-> 2, p |-> 2], [gh |-> 4, gw |-> 2, m |-> 2, p |-> 1],
          [gh |-> 2, gw |-> 3, m |-> 1, p |-> 2]}

(* Sides about the multiples of a cell, and very long images; packs of up   *)
(* to three images.                                                         *)
Sides == {1, 15, 16, 17, 47, 48, 80, 100, 256, 257, 1000, 2047, 2048, 5000, 9400}
Packs == UNION {[1 .. n -> [h : {2, 4}, w : {2, 6}]] : n \in 1 .. 3}

(* A state that waits for an input of one part of the code.                 *)
Parts == {"ranks", "weights", "experts", "batches", "model"}
Waits(part) == subject = [kind |-> "none", part |-> part]
Init == \E part \in Parts : Waits(part)

Derive(c) == subject' = [kind |-> "groups", c |-> c]
Arrange(a) == subject' = [kind |-> "windows", a |-> a]
Transfer(t) == subject' = [kind |-> "transfer", t |-> t]
Convert(ck) == subject' = [kind |-> "checkpoint", ck |-> ck]
Dispatch(m) == subject' = [kind |-> "dropless", m |-> m]
Enslot(m) == subject' = [kind |-> "slots", m |-> m]
Choose(g) == subject' = [kind |-> "gate", g |-> g]
Slice(d) == subject' = [kind |-> "slices", d |-> d]
Import(c) == subject' = [kind |-> "import", c |-> c]
Upcycle(u) == subject' = [kind |-> "upcycling", u |-> u]
Look(v) == subject' = [kind |-> "vision", v |-> v]
Reload(p, q) == subject' = [kind |-> "reload", saver |-> p, loader |-> q]
Shard(c) == subject' = [kind |-> "network", c |-> c]
Wrap(n) == subject' = [kind |-> "wrapped", n |-> n]
Score(l) == subject' = [kind |-> "loss", l |-> l]
Group(sizes) == subject' = [kind |-> "grouped", sizes |-> sizes]
Stage(p) == subject' = [kind |-> "stages", p |-> p]
Denoise(i) == subject' = [kind |-> "image", i |-> i]
Speak(lengths) == subject' = [kind |-> "text", lengths |-> lengths]
Update(u) == subject' = [kind |-> "update", u |-> u]
Reward(b) == subject' = [kind |-> "rewards", b |-> b]
Fill(d) == subject' = [kind |-> "file", d |-> d]
Deal(n, replicas) == subject' = [kind |-> "deal", n |-> n, replicas |-> replicas]
Batch(c) == subject' = [kind |-> "static", c |-> c]
Draw(x) == subject' = [kind |-> "draws", x |-> x]
Weigh(x) == subject' = [kind |-> "weights", x |-> x]
Tell(l) == subject' = [kind |-> "line", l |-> l]
Train(f) == subject' = [kind |-> "forward", f |-> f]
Resize(h, w, min, max) == subject' = [kind |-> "size", h |-> h, w |-> w, min |-> min, max |-> max]
Embed(grids) == subject' = [kind |-> "images", grids |-> grids]
Attend(f) == subject' = [kind |-> "layer", f |-> f]
Paint(g) == subject' = [kind |-> "pixels", g |-> g]

OfRanks ==
  \/ \E c \in Configurations : Derive(c)
  \/ \E a \in Attentions : Arrange(a)
  \/ \E t \in Transfers : Transfer(t)
  \/ \E c \in Networks : Shard(c)
  \/ \E n \in {1, 2, 4} : Wrap(n)
  \/ \E l \in Losses : Score(l)
  \/ \E sizes \in Experts : Group(sizes)
  \/ \E p \in Pipelines : Stage(p)
OfWeights ==
  \/ \E ck \in Checkpoints : Convert(ck)
  \/ \E d \in Depths : Slice(d)
  \/ \E c \in Imports : Import(c)
  \/ \E u \in Upcyclings : Upcycle(u)
  \/ \E v \in Visions : Look(v)
  \/ \E p, q \in Savers : Reload(p, q)
OfDispatching ==
  \/ \E m \in DroplessLayers : Dispatch(m)
  \/ \E m \in SlottedLayers : Enslot(m)
  \/ \E g \in Gates : Choose(g)
OfBatching ==
  \/ \E i \in Images : Denoise(i)
  \/ \E lengths \in SpanLengths : Speak(lengths)
  \/ \E u \in Updates : Update(u)
  \/ \E b \in Rewards : Reward(b)
  \/ \E d \in Files : Fill(d)
  \/ \E n \in 1 .. 9, replicas \in 1 .. 4 : Deal(n, replicas)
  \/ \E c \in Samplers : Batch(c)
  \/ \E x \in Draws : Draw(x)
  \/ \E x \in Weightings : Weigh(x)
OfModelling ==
  \/ \E l \in Lines : Tell(l)
  \/ \E l, m \in Shared, extra \in {0, 2, 5}, spread \in BOOLEAN : Train(Trained(l, m, extra, spread))
  \/ \E h, w \in Sides, bounds \in {<<64, 4096>>, <<4, 16384>>} : Resize(h, w, bounds[1], bounds[2])
  \/ \E grids \in Packs : Embed(grids)
  \/ \E f \in Attending : Attend(f)
  \/ \E g \in Grids : Paint(g)

Next ==
  \/ Waits("ranks") /\ OfRanks
  \/ Waits("weights") /\ OfWeights
  \/ Waits("experts") /\ OfDispatching
  \/ Waits("batches") /\ OfBatching
  \/ Waits("model") /\ OfModelling

Spec == Init /\ [][Next]_subject

-----------------------------------------------------------------------------
(* Groups are made of every configuration the context accepts but those of  *)
(* the strategy fsdp, of which none can be: parallel_sizes has no entry for *)
(* its ZERO3_DP, and generate_parallel_group_configs raises.  Groups that   *)
(* are made are a coordinate system: each mode partitions the ranks, ZeRO   *)
(* groups lie inside the data groups they shard, and the local ranks of an  *)
(* order's modes determine the global rank.  The older class of each mode   *)
(* builds the same groups (but for the expert modes of isp, which nest the  *)
(* other way round).                                                        *)
GroupsPartition ==
  subject.kind = "groups" =>
    LET c == subject.c
        R == Registered(c)
        Holds(inner, outer) == {inner, outer} \subseteq DOMAIN R => Inside(R[inner], R[outer])
    IN  /\ Creates(c) <=> ~c.fsdp
        /\ ~c.fsdp =>
             /\ \A mode \in DOMAIN R : Partitions(R[mode], c.world)
             /\ Holds("zero1", IF c.isp THEN "wdata" ELSE "data") /\ Holds("ezero1", "edata")
             /\ \A order \in Orders(Strategy(c), c.experts > 1) : Coordinates(R, order, c.world)
             /\ \A mode \in DOMAIN R :
                  (c.isp => mode \notin {"expert", "eweight"}) => R[mode] = Initializer(c, mode)

(* Sliding windows of the 2D attention: the rings inside and between the    *)
(* windows partition the ranks, and equal those of the older class; the     *)
(* slices of a sequence meet in each context group as its ring expects.     *)
ShardsMeet ==
  subject.kind = "windows" =>
    LET a == subject.a IN
    /\ Partitions(Intra(a.world, a), a.world)
    /\ Partitions(Inter(a.world, a), a.world)
    /\ ~a.headFirst \/ a.head = 1 =>
         Intra(a.world, a) = OldIntra(a.world, a) /\ Inter(a.world, a) = OldInter(a.world, a)
    /\ Sharded(a)

(* Every token comes back from exactly the experts that kept it, as itself, *)
(* no slot of an expert holds two tokens, and a gate drops a choice only    *)
(* where its expert has no slot left.                                       *)
TokensReturn ==
  /\ subject.kind = "gate" => Gt!GateExact(subject.g)
  /\ subject.kind = "dropless" => Moe!Dropless(subject.m)
  /\ subject.kind = "slots" => Moe!InSlots(subject.m)

(* Ranks in parallel compute the logits, the loss and the gradients that    *)
(* one rank does, in every tensor mode; pipeline stages hold every layer    *)
(* once.                                                                    *)
LayersAgree ==
  /\ subject.kind = "network" => Par!NetworkAgrees(subject.c)
  /\ subject.kind = "wrapped" => Par!WrapAgrees(subject.n)
  /\ subject.kind = "loss" => Par!LossAgrees(subject.l.n, subject.l.target)
  /\ subject.kind = "grouped" => Par!GroupedAgrees(Len(subject.sizes), subject.sizes)
  /\ subject.kind = "stages" => Par!StagesPartition(subject.p.items, subject.p.stages, subject.p.chunks)

(* A replay evaluates exactly the actions a rollout recorded, one update    *)
(* differentiates the mean of the rollouts' own objectives however they are *)
(* spread over ranks, padded and sliced, and advantages compare a rollout   *)
(* with its own group.                                                      *)
ObjectiveExact ==
  /\ subject.kind = "image" => Po!ReplayExact(subject.i.window, subject.i.times, subject.i.batch)
  /\ subject.kind = "text" => Po!TextExact(Spans(subject.lengths), 2)
  /\ subject.kind = "update" => Po!UpdateExact(subject.u.plan, subject.u.rollouts, <<-2, -1, 0, 1>>, Waves)
  /\ subject.kind = "rewards" => Po!AdvantagesCompare(subject.b, <<2, 1>>)

(* Rows of tokens mix no samples and deliver them in order but for a tail:  *)
(* packed rows the part of the stream that fills rows, padded rows all but  *)
(* the last row, rows without packing overlapping samples (TokenPacks names *)
(* the docstrings that say otherwise).  The ranks read disjoint batches of  *)
(* equal sizes, draws pass over each dataset, and a restored sampler goes   *)
(* on in the saved order, to the saved end unless a ramp lies behind it.    *)
BatchesExact ==
  /\ subject.kind = "file" => Tp!StreamsExact(subject.d) /\ Tp!PaddedExact(subject.d, 2)
  /\ subject.kind = "deal" => Bs!DealtExact(subject.n, subject.replicas)
  /\ subject.kind = "static" => Bs!StaticExact(subject.c)
  /\ subject.kind = "draws" =>
       Bs!WeightedExact(<<DataSet("a", 2), DataSet("b", 3)>>, subject.x.choices, subject.x.later)
  /\ subject.kind = "weights" => Bs!WeightsExact(subject.x[1], subject.x[2])

(* An image is given whole cells whose embeddings do not depend on the      *)
(* images packed with it; a sample repeats what it generates where more is  *)
(* learned after it; in the forward of a row every token stands where it    *)
(* does when it is served, sees the same tokens and goes through the same   *)
(* weights, a layer turns it by the same angles and lets its heads read the *)
(* same keys and values, and each pixel that is predicted is scored against *)
(* itself.                                                                  *)
TrainedAsServed ==
  /\ subject.kind = "line" => Tf!SampleExact(subject.l)
  /\ subject.kind = "forward" => Tf!RowExact(subject.f, 2)
  /\ subject.kind = "size" => Vp!SizeExact(subject.h, subject.w, subject.min, subject.max, 10000)
  /\ subject.kind = "images" => Vp!PatchesExact(subject.grids)
  /\ subject.kind = "layer" => Al!LayerExact(subject.f, 2) /\ Al!RotationsAgree
  /\ subject.kind = "pixels" => Tf!PixelsExact(subject.g)

(* A publication hands every consumer exactly the elements of its tensors.  *)
TransferFaithful ==
  subject.kind = "transfer" => Faithful(subject.t.entries, subject.t.world, 24)

(* A checkpoint whose naming is recognised is published without loss or     *)
(* mixing, and what was published loads into the same shards on every rank; *)
(* which are recognised is Recognised, without a generation branch not all  *)
(* (UOnlyConverted).  Models made of a dense one get all of it; every rank  *)
(* reads the shards of a run cut as its own, or refuses.                    *)
ConversionFaithful ==
  /\ subject.kind = "checkpoint" =>
       LET ck == subject.ck IN
       /\ Hf!Recognised(ck) <=> Hf!Detected(ck) = ck.layout
       /\ Hf!Recognised(ck) => Hf!ExpertsConverted(ck) /\ Hf!ExpertsReturn(ck)
  /\ subject.kind = "slices" =>
       /\ Hf!SlicesPartition(subject.d.vit, subject.d.llm)
       /\ \A post \in 0 .. subject.d.llm - 1 : Hf!LayersRead(subject.d.llm, post)
  /\ subject.kind = "import" => Hf!ImportExact(subject.c)
  /\ subject.kind = "upcycling" => Hf!UpcyclingExact(subject.u) /\ Hf!OfflinePartition(subject.u)
  /\ subject.kind = "vision" =>
       /\ Hf!VisionExact(subject.v)
       /\ subject.v.heads % subject.v.n = 0 => Hf!InterleavedExact(subject.v.heads, 2, subject.v.n)
  /\ subject.kind = "reload" => Hf!ShardsAccepted(subject.saver, subject.loader)

(* Without a generation branch the naming defaults "to interleaved so       *)
(* U-only processing still works" (publish_hf.py:305-307): every expert of  *)
(* such a checkpoint is published under its own name.                       *)
UOnlyConverted ==
  subject.kind = "checkpoint" =>
    LET ck == subject.ck IN ck.layout = "interleaved" /\ ~ck.mot => Hf!ExpertsConverted(ck)

=============================================================================
