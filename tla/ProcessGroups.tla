---------------------------- MODULE ProcessGroups ----------------------------
(***************************************************************************)
(* The process groups of the training framework: sizes derived from the    *)
(* parallel configuration (sensenovalm/core/context/parallel_context.py),  *)
(* groups by generic strides and by the older one-class-per-mode formulas  *)
(* (process_group_initializer.py).  A group is the function from local to  *)
(* global rank; all ranks compute the same list, so a mode's groups are a  *)
(* set.  A configuration is the record of what the user sets, -1 for unset.*)
(***************************************************************************)
EXTENDS Integers, FiniteSets, Sequences, SequencesExt

Unset == -1
Up(n) == IF n < 1 THEN 1 ELSE n
Or(n, default) == Up(IF n = Unset THEN default ELSE n)
UpDiv(a, b) == (a + b - 1) \div b
Divides(a, b) == a >= 1 /\ b % a = 0

-----------------------------------------------------------------------------
(* Sizes: ParallelContext.init_parallel_groups. *)

Sizes(c) ==
  LET data   == Up((c.world \div c.pipeline) \div c.tensor)
      wdata  == Up((c.world \div c.pipeline) \div c.weight)
      etens  == IF c.noTp THEN 1 ELSE c.tensor
      expert == IF c.expert # Unset THEN c.expert
                ELSE LET all == (data * c.tensor) \div etens
                     IN  IF all <= c.experts THEN all ELSE c.experts
      edata  == Up(((c.world \div c.pipeline) \div (IF c.isp THEN c.eweight ELSE etens)) \div expert)
  IN  [tensor |-> c.tensor, pipeline |-> c.pipeline, data |-> data,
       weight |-> c.weight, wdata |-> wdata,
       zero1 |-> Or(c.zero1, IF c.isp THEN wdata ELSE data),
       expert |-> expert, etensor |-> etens, eweight |-> c.eweight, edata |-> edata,
       ezero1 |-> Or(c.ezero1, edata), nettest |-> 32]

(* The assertions of init_parallel_groups and check_sanity. *)
Accepts(c) ==
  LET s == Sizes(c)
      inner == s.expert * s.edata * (IF c.isp THEN s.eweight ELSE s.etensor)
      zeroed == IF c.isp THEN s.wdata ELSE s.data
  IN  /\ Divides(s.expert, c.experts)
      /\ inner = s.data * s.tensor
      /\ Divides(s.ezero1, s.edata) /\ Divides(s.zero1, zeroed)
      /\ Divides(s.data, c.experts) \/ Divides(c.experts, s.data)
      /\ c.world = s.data * s.pipeline * s.tensor
      /\ c.world = s.wdata * s.pipeline * s.weight
      /\ c.world = inner * s.pipeline

-----------------------------------------------------------------------------
(* get_group_ranks: groups of cur ranks, pre apart, over an indexed list. *)

World(n) == [i \in 0 .. n - 1 |-> i]

GroupRanks(list, cur, pre, partial) ==
  LET n == Cardinality(DOMAIN list)
      size == IF partial THEN UpDiv(n, cur) * cur ELSE n
      starts == {block * cur * pre + j : block \in 0 .. UpDiv(size, cur * pre) - 1,
                                         j \in 0 .. pre - 1}
  IN  {[i \in {k \in 0 .. cur - 1 : start + k * pre < n} |-> list[start + i * pre]] :
         start \in starts}

(* Its two assertions. *)
Groupable(list, cur, pre, partial) ==
  LET n == Cardinality(DOMAIN list)
      size == IF partial THEN UpDiv(n, cur) * cur ELSE n
  IN  size % cur = 0 /\ UpDiv(size, cur * pre) * pre = size \div cur

-----------------------------------------------------------------------------
(* The orders in which modes nest, innermost first. *)

Strategy(c) == IF c.fsdp THEN "fsdp" ELSE IF c.isp THEN "isp" ELSE "3d"

Orders(strategy, moe) ==
  CASE strategy = "isp"  -> {<<"tensor", "data", "pipeline">>, <<"weight", "wdata", "pipeline">>}
                            \union (IF moe THEN {<<"expert", "eweight", "edata", "pipeline">>} ELSE {})
    [] strategy = "fsdp" -> {<<"data">>}
    [] OTHER             -> {<<"tensor", "data", "pipeline">>}
                            \union (IF moe THEN {<<"etensor", "expert", "edata", "pipeline">>} ELSE {})

(* SUBGROUP_SPEC; the 3d strategies take that of mtp. *)
Subgroups(strategy, mode) ==
  CASE mode = "edata" /\ strategy # "fsdp"  -> <<"ezero1">>
    [] mode = "wdata" /\ strategy = "isp"   -> <<"zero1">>
    [] mode = "data"  /\ strategy = "3d"    -> <<"zero1">>
    [] mode = "data"  /\ strategy = "fsdp"  -> <<"zero3_dp", "zero1">>
    [] OTHER                                -> <<>>

(* parallel_sizes has no entry for zero3_dp. *)
Sized(c) ==
  \A order \in Orders(Strategy(c), c.experts > 1) :
    \A mode \in ToSet(order) : ToSet(Subgroups(Strategy(c), mode)) \subseteq DOMAIN Sizes(c)

Before(order, i, sizes) ==
  FoldLeft(LAMBDA product, mode : product * sizes[mode], 1, SubSeq(order, 1, i - 1))

\* Mutant: subgroups are built without their parent's stride.
AllottedFlat(strategy, order, sizes) ==
  LET named == {i \in DOMAIN order : ~(order[i] = "pipeline" /\ sizes.pipeline = 1)}
      Inner(i) == Subgroups(strategy, order[i])
  IN  {<<order[i], Before(order, i, sizes)>> : i \in named}
      \union UNION {{<<Inner(i)[k], Before(Inner(i), k, sizes)>> : k \in DOMAIN Inner(i)} : i \in named}

(* The (mode, stride) pairs one order allocates, subgroups at their parent's *)
(* stride; a pipeline of one stage is anonymous.                             *)
Allotted(strategy, order, sizes) ==
  LET named == {i \in DOMAIN order : ~(order[i] = "pipeline" /\ sizes.pipeline = 1)}
      Inner(i) == Subgroups(strategy, order[i])
  IN  {<<order[i], Before(order, i, sizes)>> : i \in named}
      \union UNION {{<<Inner(i)[k], Before(order, i, sizes) * Before(Inner(i), k, sizes)>> :
                       k \in DOMAIN Inner(i)} : i \in named}

AllAllotted(c) ==
  UNION {Allotted(Strategy(c), order, Sizes(c)) : order \in Orders(Strategy(c), c.experts > 1)}

Groups(c, mode, stride) == GroupRanks(World(c.world), Sizes(c)[mode], stride, FALSE)

(* create_parallel_process_groups goes through: the lists exist and a mode  *)
(* that two orders allocate gets the same groups from both.                 *)
Creates(c) ==
  /\ Sized(c)
  /\ \A a \in AllAllotted(c) : Groupable(World(c.world), Sizes(c)[a[1]], a[2], FALSE)
  /\ \A a, b \in AllAllotted(c) :
       a[1] = b[1] => Groups(c, a[1], a[2]) = Groups(c, b[1], b[2])

(* What the context registers, by mode. *)
Registered(c) ==
  [mode \in {a[1] : a \in AllAllotted(c)} \union {"nettest"} |->
     IF mode = "nettest" THEN GroupRanks(World(c.world), Sizes(c).nettest, 1, TRUE)
     ELSE Groups(c, mode, (CHOOSE a \in AllAllotted(c) : a[1] = mode)[2])]

-----------------------------------------------------------------------------
(* 2D attention: heads, contexts and windows (generate_2d_attn_process_group). *)

(* The flag it forces off is not the one it reads. *)
Interleaves(attn) == attn.interleaved

(* Position in the context group of the k-th rank of the window order. *)
WindowIndex(attn, k) ==
  LET i == k \div attn.window
      j == k % attn.window
  IN  IF ~Interleaves(attn) THEN k
      ELSE IF i % 2 = 0 THEN j * 2 + i * attn.window
      ELSE j * 2 + 1 + (i - 1) * attn.window

ContextStride(attn) == IF attn.headFirst THEN attn.head ELSE 1
HeadStride(attn) == IF attn.headFirst THEN 1 ELSE attn.context
Contexts(world, attn) == GroupRanks(World(world), attn.context, ContextStride(attn), FALSE)
Heads(world, attn) == GroupRanks(World(world), attn.head, HeadStride(attn), FALSE)

AttnFits(world, attn) ==
  /\ world % (attn.context * attn.head) = 0
  /\ attn.context % attn.window = 0
  /\ \A k \in 0 .. attn.context - 1 : WindowIndex(attn, k) < attn.context

WindowOrder(attn, context) ==
  [k \in 0 .. attn.context - 1 |-> context[WindowIndex(attn, k)]]

Intra(world, attn) ==
  UNION {GroupRanks(WindowOrder(attn, g), attn.window, 1, FALSE) : g \in Contexts(world, attn)}

Inter(world, attn) ==
  UNION {GroupRanks(WindowOrder(attn, g), attn.context \div attn.window, attn.window, FALSE) :
           g \in Contexts(world, attn)}

-----------------------------------------------------------------------------
(* The Initializer_* classes: one closed formula per mode. *)

Tuple(n, Rank(_)) == [k \in 0 .. n - 1 |-> Rank(k)]
Stages(s) == 0 .. s.pipeline - 1
PerStage(c) == c.world \div c.pipeline

(* Zero1 and Zero1_ISP. *)
StridedInStage(c, stride, size) ==
  {Tuple(size, LAMBDA m : i * PerStage(c) + j * stride * size + k + m * stride) :
     i \in Stages(Sizes(c)), j \in 0 .. PerStage(c) \div (stride * size) - 1, k \in 0 .. stride - 1}

Consecutive(c, size) ==
  {Tuple(size, LAMBDA j : i * size + j) : i \in 0 .. c.world \div size - 1}

(* Expert_Data_Zero: data groups first, then slices and columns of them. *)
ExpertData(c) ==
  LET s == Sizes(c)
      real == (s.data * s.tensor) \div s.etensor
      dp == {Tuple(real, LAMBDA k : i * PerStage(c) + j + k * s.etensor) :
               i \in Stages(s), j \in 0 .. s.etensor - 1}
      columns == {Tuple(real \div s.expert, LAMBDA k : g[k * s.expert + e]) :
                    g \in dp, e \in 0 .. s.expert - 1}
  IN  [expert |-> {Tuple(s.expert, LAMBDA k : g[i * s.expert + k]) :
                     g \in dp, i \in 0 .. real \div s.expert - 1},
       edata  |-> columns,
       ezero1 |-> {Tuple(s.ezero1, LAMBDA k : g[i * s.ezero1 + k]) :
                     g \in columns, i \in 0 .. s.edata \div s.ezero1 - 1}]

(* Expert_Weight_Data_Zero (isp): expert weights innermost. *)
ExpertWeightData(c) ==
  LET s == Sizes(c)
      perDp == s.eweight * s.expert
      columns == {Tuple(s.edata, LAMBDA j : i * PerStage(c) + j * perDp + m) :
                    i \in Stages(s), m \in 0 .. perDp - 1}
  IN  [edata   |-> columns,
       ezero1  |-> {Tuple(s.ezero1, LAMBDA k : g[i * s.ezero1 + k]) :
                      g \in columns, i \in 0 .. s.edata \div s.ezero1 - 1},
       eweight |-> {Tuple(s.eweight, LAMBDA w : i * PerStage(c) + j * perDp + k * s.eweight + w) :
                      i \in Stages(s), j \in 0 .. s.edata - 1, k \in 0 .. s.expert - 1},
       expert  |-> {Tuple(s.expert, LAMBDA k : i * PerStage(c) + j * perDp + k * s.eweight + w) :
                      i \in Stages(s), j \in 0 .. s.edata - 1, w \in 0 .. s.eweight - 1}]

Nettests(c) ==
  LET size == Sizes(c).nettest
  IN  {[j \in {k \in 0 .. size - 1 : i * size + k < c.world} |-> i * size + j] :
         i \in 0 .. UpDiv(c.world, size) - 1}

(* By the class of each mode. *)
Initializer(c, mode) ==
  LET s == Sizes(c) IN
  CASE mode = "pipeline" -> {Tuple(s.pipeline, LAMBDA j : i + j * PerStage(c)) :
                               i \in 0 .. PerStage(c) - 1}
    [] mode = "tensor"   -> Consecutive(c, s.tensor)
    [] mode = "weight"   -> Consecutive(c, s.weight)
    [] mode = "data"     -> {Tuple(s.data, LAMBDA k : i * PerStage(c) + j + k * s.tensor) :
                               i \in Stages(s), j \in 0 .. s.tensor - 1}
    [] mode = "wdata"    -> {Tuple(s.wdata, LAMBDA k : i * PerStage(c) + j + k * s.weight) :
                               i \in Stages(s), j \in 0 .. PerStage(c) \div s.wdata - 1}
    [] mode = "zero1"    -> StridedInStage(c, IF c.isp THEN s.weight ELSE s.tensor, s.zero1)
    [] mode = "nettest"  -> Nettests(c)
    [] mode = "etensor"  -> Consecutive(c, s.etensor)
    [] mode \in {"expert", "eweight", "edata", "ezero1"} ->
         IF c.isp THEN ExpertWeightData(c)[mode] ELSE ExpertData(c)[mode]

(* get_sliding_window_pg over one context group; interleaving goes by the   *)
(* parity of the global rank.                                               *)
OfParity(context, parity) ==
  SetToSortSeq({r \in {context[k] : k \in DOMAIN context} : r % 2 = parity}, <)

OldInterleaves(attn) == attn.interleaved /\ attn.window < 8 /\ attn.window # attn.context

OldIntra(world, attn) ==
  UNION {IF OldInterleaves(attn)
         THEN {Tuple(attn.window, LAMBDA k : OfParity(g, parity)[i * attn.window + 1] + 2 * k) :
                 parity \in 0 .. 1, i \in 0 .. (attn.context \div 2) \div attn.window - 1}
         ELSE {Tuple(attn.window, LAMBDA k : g[j * attn.window + k]) :
                 j \in 0 .. attn.context \div attn.window - 1}
         : g \in Contexts(world, attn)}

OldInter(world, attn) ==
  LET windows == attn.context \div attn.window IN
  UNION {{Tuple(windows, LAMBDA t : IF OldInterleaves(attn)
                                    THEN OfParity(g, t % 2)[(t \div 2) * attn.window + j + 1]
                                    ELSE g[t * attn.window + j]) :
            j \in 0 .. attn.window - 1}
         : g \in Contexts(world, attn)}

-----------------------------------------------------------------------------
(* What groups are for. *)

Members(group) == {group[k] : k \in DOMAIN group}

Partitions(groups, world) ==
  /\ UNION {Members(g) : g \in groups} = 0 .. world - 1
  /\ \A g, h \in groups : g # h => Members(g) \intersect Members(h) = {}

GroupOf(groups, rank) == CHOOSE g \in groups : rank \in Members(g)
LocalRank(groups, rank) == LET g == GroupOf(groups, rank) IN CHOOSE k \in DOMAIN g : g[k] = rank

Inside(inner, outer) == \A g \in inner : \E h \in outer : Members(g) \subseteq Members(h)

(* The local ranks of an order's modes are coordinates of the rank. *)
Coordinates(groups, order, world) ==
  LET modes == ToSet(order) \intersect DOMAIN groups
      At == [r \in 0 .. world - 1 |-> [mode \in modes |-> LocalRank(groups[mode], r)]]
  IN  Cardinality({At[r] : r \in 0 .. world - 1}) = world

=============================================================================
