---------------------------- MODULE ParallelLayers ----------------------------
(***************************************************************************)
(* The parallel layers of the training framework: linear layers            *)
(* (model/modules/linear.py) with the communicators of tensor, sequence    *)
(* and weight parallelism (core/parallel/comm), the feed-forward block,    *)
(* the embedding, the output head and the vocabulary-parallel loss.        *)
(*                                                                         *)
(* A tensor is a matrix of small integers, and a distributed tensor a      *)
(* sequence of one matrix per rank: the layers are polynomials in the      *)
(* entries, so that the equality of what many ranks and what one rank      *)
(* compute is an equality of matrices.  Rows are tokens.                   *)
(***************************************************************************)
EXTENDS Integers, Sequences, FiniteSetsExt, SequencesExt, TLC

(* The empty prefix makes TLC evaluate a sequence once. *)
Eager(s) == <<>> \o s
Total(Term(_), n) == MapThenSumSet(Term, 1 .. n)
Mul(a, b) ==
  Eager([i \in DOMAIN a |-> Eager([j \in DOMAIN b[1] |-> Total(LAMBDA k : a[i][k] * b[k][j], Len(b))])])
Times(a, b) == Eager([i \in DOMAIN a |-> Eager([j \in DOMAIN a[i] |-> a[i][j] * b[i][j]])])
Transposed(m) == Eager([j \in DOMAIN m[1] |-> Eager([i \in DOMAIN m |-> m[i][j]])])
Scaled(s, m) == Eager([i \in DOMAIN m |-> Eager([j \in DOMAIN m[i] |-> s * m[i][j]])])

Slice(s, n, r) == LET size == Len(s) \div n IN SubSeq(s, (r - 1) * size + 1, r * size)
ColumnSlice(m, n, r) == Eager([i \in DOMAIN m |-> Slice(m[i], n, r)])
Stacked(d) == FlattenSeq(d)
SideBySide(d) == Eager([i \in DOMAIN d[1] |-> FlattenSeq(Eager([r \in DOMAIN d |-> d[r][i]]))])
SumOf(d) ==
  Eager([i \in DOMAIN d[1] |-> Eager([j \in DOMAIN d[1][i] |-> Total(LAMBDA r : d[r][i][j], Len(d))])])

(* The collectives of comm/utils.py; a group of one leaves its input alone. *)
AllReduce(d) == LET sum == SumOf(d) IN Eager([r \in DOMAIN d |-> sum])
AllGather(d) == LET all == Stacked(d) IN Eager([r \in DOMAIN d |-> all])
ReduceScatter(d) == LET sum == SumOf(d) IN Eager([r \in DOMAIN d |-> Slice(sum, Len(d), r)])
SplitRows(d) == Eager([r \in DOMAIN d |-> Slice(d[r], Len(d), r)])
SplitColumns(d) == Eager([r \in DOMAIN d |-> ColumnSlice(d[r], Len(d), r)])
GatherColumns(d) == LET all == SideBySide(d) IN Eager([r \in DOMAIN d |-> all])
(* Rows of all columns become columns of all rows, and back.                *)
RowsToColumns(d) == Eager([r \in DOMAIN d |-> Stacked(Eager([p \in DOMAIN d |-> ColumnSlice(d[p], Len(d), r)]))])
ColumnsToRows(d) == Eager([r \in DOMAIN d |-> SideBySide(Eager([p \in DOMAIN d |-> Slice(d[p], Len(d), r)]))])

-----------------------------------------------------------------------------
(* A communicator c has the tensor mode, the role of its layer, whether it  *)
(* saves the gathered input, and for the head whether its output stays      *)
(* sharded ("inner" for every other layer).                                 *)
SplitMode(name, mode) ==
  CASE name = "head"                    -> "head"
    [] name \in {"w1", "w3", "w13"}     -> "column"
    [] name = "w2" /\ mode = "isp"      -> "column"
    [] name = "w2" /\ mode # "isp"      -> "row"

Role(name, mode) == IF SplitMode(name, mode) = "row" THEN "row" ELSE "column"

Communicator(name, cfg) ==
  [mode |-> cfg.mode, saves |-> cfg.saves, role |-> Role(name, cfg.mode),
   head |-> IF name # "head" THEN "inner" ELSE IF cfg.retain THEN "sharded" ELSE "whole"]

(* Weights are chunked by rows of the output features, by columns for a row *)
(* layer, whose bias is its first rank's.                                   *)
ColumnShards(w, n) == Eager([r \in 1 .. n |-> Slice(w, n, r)])
RowShards(w, n) == Eager([r \in 1 .. n |-> ColumnSlice(w, n, r)])
RowBias(b, n) == Eager([r \in 1 .. n |-> IF r = 1 THEN b ELSE <<>>])
WeightShards(c, w, n) == IF c.role = "row" THEN RowShards(w, n) ELSE ColumnShards(w, n)
BiasShards(c, b, n) == IF c.role = "row" THEN RowBias(b, n) ELSE ColumnShards(b, n)

(* Tensor parallelism: every rank holds all tokens.                         *)
TensorOutput(c, y) == IF c.role = "row" THEN AllReduce(y) ELSE y
TensorGradInput(c, g) == IF c.role = "column" THEN AllReduce(g) ELSE g

(* Sequence parallelism: outside of the layers each holds some tokens.      *)
SequenceInput(c, x, forward) ==
  IF c.role = "row" \/ (~forward /\ c.saves) THEN x ELSE AllGather(x)
SequenceOutput(c, y) == IF c.role = "row" THEN ReduceScatter(y) ELSE y
SequenceGradOutput(c, g) == IF c.role = "row" THEN AllGather(g) ELSE g
\* Mutant: each rank keeps the gradient through its own columns.
SequenceGradInputLocal(c, g) == IF c.role = "column" THEN SplitRows(g) ELSE g
SequenceGradInput(c, g) == IF c.role = "column" THEN ReduceScatter(g) ELSE g

(* Weight parallelism: each rank has tokens of its own, and gathers weights. *)
WeightHook(c, w) == IF c.mode = "isp" THEN AllGather(w) ELSE w
GradHook(c, g) == IF c.mode = "isp" THEN ReduceScatter(g) ELSE g

(* The head keeps its logits cut by vocabulary or makes them whole.         *)
HeadOutput(c, y) == IF c.head = "sharded" THEN y ELSE GatherColumns(y)
HeadGradOutput(c, g) == IF c.head = "sharded" THEN g ELSE SplitColumns(g)
WeightHeadOutput(c, y) == IF c.head = "sharded" THEN RowsToColumns(y) ELSE AllGather(y)
WeightHeadGradOutput(c, g) == IF c.head = "sharded" THEN ColumnsToRows(g) ELSE SplitRows(g)

InputHook(c, x, forward) == IF c.mode = "msp" THEN SequenceInput(c, x, forward) ELSE x
OutputHook(c, y) ==
  CASE c.mode = "isp" -> IF c.head = "inner" THEN y ELSE WeightHeadOutput(c, y)
    [] c.mode # "isp" /\ c.head # "inner" -> HeadOutput(c, y)
    [] OTHER -> IF c.mode = "mtp" THEN TensorOutput(c, y) ELSE SequenceOutput(c, y)
GradOutputHook(c, g) ==
  CASE c.mode = "isp" -> IF c.head = "inner" THEN g ELSE WeightHeadGradOutput(c, g)
    [] c.mode # "isp" /\ c.head # "inner" -> HeadGradOutput(c, g)
    [] OTHER -> IF c.mode = "mtp" THEN g ELSE SequenceGradOutput(c, g)
GradInputHook(c, g) == IF c.mode = "mtp" THEN TensorGradInput(c, g) ELSE SequenceGradInput(c, g)

(* The products: biases are matrices of one column, or empty.               *)
Affine(x, w, b) ==
  LET y == Mul(x, Transposed(w))
  IN  IF b = <<>> THEN y ELSE Eager([i \in DOMAIN y |-> Eager([j \in DOMAIN y[i] |-> y[i][j] + b[j][1]])])
WeightGrad(x, g) == Mul(Transposed(g), x)
BiasGrad(b, g) == IF b = <<>> THEN <<>> ELSE Mul(Transposed(g), Eager([i \in DOMAIN g |-> <<1>>]))

SPForward(c, x, w, b) ==
  LET total == InputHook(c, x, TRUE)
  IN  [out |-> OutputHook(c, Eager([r \in DOMAIN x |-> Affine(total[r], w[r], b[r])])),
       saved |-> IF c.saves /\ c.mode = "msp" THEN total ELSE x]

SPBackward(c, saved, w, b, grad) ==
  LET g == GradOutputHook(c, grad)
      x == InputHook(c, saved, FALSE)
  IN  [input  |-> GradInputHook(c, Eager([r \in DOMAIN x |-> Mul(g[r], w[r])])),
       weight |-> Eager([r \in DOMAIN x |-> WeightGrad(x[r], g[r])]),
       bias   |-> Eager([r \in DOMAIN x |-> BiasGrad(b[r], g[r])])]

WPForward(c, x, w, b) ==
  LET weight == WeightHook(c, w)
      bias == WeightHook(c, b)
  IN  [out |-> OutputHook(c, Eager([r \in DOMAIN x |-> Affine(x[r], weight[r], bias[r])])), saved |-> x]

WPBackward(c, x, w, b, grad) ==
  LET g == GradOutputHook(c, grad)
      weight == WeightHook(c, w)
  IN  [input  |-> Eager([r \in DOMAIN x |-> Mul(g[r], weight[r])]),
       weight |-> GradHook(c, Eager([r \in DOMAIN x |-> WeightGrad(x[r], g[r])])),
       bias   |-> IF b[1] = <<>> THEN b ELSE GradHook(c, Eager([r \in DOMAIN x |-> BiasGrad(b[r], g[r])]))]

Linear(c, x, w, b) == IF c.mode = "isp" THEN WPForward(c, x, w, b) ELSE SPForward(c, x, w, b)
LinearGrads(c, saved, w, b, g) ==
  IF c.mode = "isp" THEN WPBackward(c, saved, w, b, g) ELSE SPBackward(c, saved, w, b, g)

(* The head's weight_scale scales the gradient, not the value.              *)
HeadGrads(c, saved, w, g, scale) ==
  LET grads == LinearGrads(c, saved, w, Eager([r \in DOMAIN w |-> <<>>]), g)
  IN  [grads EXCEPT !.weight = Eager([r \in DOMAIN w |-> Scaled(scale, grads.weight[r])])]

-----------------------------------------------------------------------------
(* FeedForward: w2(act(w1 x) * w3 x), with the activation left out; fused,  *)
(* each rank stacks its shards of w1 and w3 and halves the product.         *)
Halves(m) == Eager([k \in 1 .. 2 |-> ColumnSlice(m, 2, k)])
FeedForwardShards(cfg, p) ==
  LET up == Communicator("w1", cfg)
      down == Communicator("w2", cfg)
  IN  [w1 |-> WeightShards(up, p.w1, cfg.n), b1 |-> BiasShards(up, p.b1, cfg.n),
       w3 |-> WeightShards(up, p.w3, cfg.n), b3 |-> BiasShards(up, p.b3, cfg.n),
       w2 |-> WeightShards(down, p.w2, cfg.n), b2 |-> BiasShards(down, p.b2, cfg.n)]
FusedWeight(w1, w3) == Eager([r \in DOMAIN w1 |-> w1[r] \o w3[r]])

SplitUp(fused) ==
  LET half == Eager([r \in DOMAIN fused.out |-> Halves(fused.out[r])])
  IN  [saved |-> fused.saved, gate |-> Eager([r \in DOMAIN half |-> half[r][1]]),
       up |-> Eager([r \in DOMAIN half |-> half[r][2]])]
BothUp(one, three) == [saved |-> one.saved, gate |-> one.out, up |-> three.out]
Lifted(cfg, x, w) ==
  LET up == Communicator("w1", cfg)
  IN  IF cfg.fused THEN SplitUp(Linear(up, x, FusedWeight(w.w1, w.w3), FusedWeight(w.b1, w.b3)))
      ELSE BothUp(Linear(up, x, w.w1, w.b1), Linear(up, x, w.w3, w.b3))
Lowered(lift, two) == [out |-> two.out, hidden |-> two.saved] @@ lift
LowerWith(cfg, lift, w) ==
  Lowered(lift, Linear(Communicator("w2", cfg),
                       Eager([r \in DOMAIN lift.up |-> Times(lift.gate[r], lift.up[r])]), w.w2, w.b2))

FeedForward(cfg, x, w) == LowerWith(cfg, Lifted(cfg, x, w), w)

SplitGrads(fused) ==
  LET Half(k) == Eager([r \in DOMAIN fused.weight |-> Slice(fused.weight[r], 2, k)])
  IN  [input |-> fused.input, w1 |-> Half(1), w3 |-> Half(2)]
BothGrads(one, three) ==
  [input |-> Eager([r \in DOMAIN one.input |-> SumOf(<<one.input[r], three.input[r]>>)]),
   w1 |-> one.weight, w3 |-> three.weight, b1 |-> one.bias, b3 |-> three.bias]
LiftedGrads(cfg, f, w, gate, lift) ==
  LET up == Communicator("w1", cfg)
  IN  IF cfg.fused
      THEN SplitGrads(LinearGrads(up, f.saved, FusedWeight(w.w1, w.w3), FusedWeight(w.b1, w.b3),
                        Eager([r \in DOMAIN gate |-> SideBySide(<<gate[r], lift[r]>>)])))
      ELSE BothGrads(LinearGrads(up, f.saved, w.w1, w.b1, gate), LinearGrads(up, f.saved, w.w3, w.b3, lift))
GradsFrom(cfg, f, w, down) ==
  LET Through(other) == Eager([r \in DOMAIN down.input |-> Times(down.input[r], other[r])])
  IN  [w2 |-> down.weight, b2 |-> down.bias] @@ LiftedGrads(cfg, f, w, Through(f.up), Through(f.gate))

FeedForwardGrads(cfg, f, w, g) ==
  GradsFrom(cfg, f, w, LinearGrads(Communicator("w2", cfg), f.hidden, w.w2, w.b2, g))

-----------------------------------------------------------------------------
(* Embedding1D with its communicator: a rank holds a range of the           *)
(* vocabulary (tokens outside it look up zeros) or a range of the columns.  *)
EmbeddingShards(cfg, w) ==
  Eager([r \in 1 .. cfg.n |-> IF cfg.vocab THEN Slice(w, cfg.n, r) ELSE ColumnSlice(w, cfg.n, r)])

Masked(ids, size, r) ==
  Eager([i \in DOMAIN ids |-> IF ids[i] \in (r - 1) * size + 1 .. r * size THEN ids[i] - (r - 1) * size ELSE 0])
Lookup(ids, w) == Eager([i \in DOMAIN ids |-> IF ids[i] = 0 THEN Eager([j \in DOMAIN w[1] |-> 0]) ELSE w[ids[i]]])
GatheredTable(cfg, w) == IF cfg.vocab THEN Stacked(w) ELSE SideBySide(w)

TensorEmbedded(cfg, ids, w) ==
  IF cfg.vocab THEN AllReduce(Eager([r \in DOMAIN w |-> Lookup(Masked(ids[r], Len(w[r]), r), w[r])]))
  ELSE GatherColumns(Eager([r \in DOMAIN w |-> Lookup(ids[r], w[r])]))
SequenceEmbedded(cfg, ids, w) == SplitRows(TensorEmbedded(cfg, ids, w))
WeightEmbedded(cfg, ids, w) ==
  LET table == GatheredTable(cfg, w) IN Eager([r \in DOMAIN w |-> Lookup(ids[r], table)])

Embedded(cfg, ids, w) ==
  CASE cfg.mode = "isp" -> WeightEmbedded(cfg, ids, w)
    [] cfg.mode = "msp" -> SequenceEmbedded(cfg, ids, w)
    [] cfg.mode = "mtp" -> TensorEmbedded(cfg, ids, w)

Scattered(ids, g, size) ==
  Eager([v \in 1 .. size |-> Eager([j \in DOMAIN g[1] |->
     Total(LAMBDA i : IF ids[i] = v THEN g[i][j] ELSE 0, Len(ids))])])

(* The look-ups backward: a sum passes the gradient on, a gathered tensor   *)
(* gets its rank's columns, a split one all the rows; a gathered table      *)
(* reduces and scatters.                                                    *)
TensorTableGrad(cfg, ids, w, g) ==
  Eager([r \in DOMAIN w |->
    IF cfg.vocab THEN Scattered(Masked(ids[r], Len(w[r]), r), g[r], Len(w[r]))
    ELSE Scattered(ids[r], SplitColumns(g)[r], Len(w[r]))])
SequenceTableGrad(cfg, ids, w, g) == TensorTableGrad(cfg, ids, w, AllGather(g))
WeightTableGrad(cfg, ids, w, g) ==
  LET whole == Eager([r \in DOMAIN w |-> Scattered(ids[r], g[r], Len(GatheredTable(cfg, w)))])
  IN  IF cfg.vocab THEN ReduceScatter(whole) ELSE SplitColumns(AllReduce(whole))

EmbeddingGrad(cfg, ids, w, g) ==
  CASE cfg.mode = "isp" -> WeightTableGrad(cfg, ids, w, g)
    [] cfg.mode = "msp" -> SequenceTableGrad(cfg, ids, w, g)
    [] cfg.mode = "mtp" -> TensorTableGrad(cfg, ids, w, g)

-----------------------------------------------------------------------------
(* MoESequenceParallelCommunicator: the block runs on the gathered tokens   *)
(* of the group, and its output is split again; backward the other way.     *)
WrappedBack(alone, f, w, g) ==
  [out |-> SplitRows(Eager([r \in DOMAIN f |-> f[r].out[1]])),
   input |-> SplitRows(Eager([r \in DOMAIN f |-> FeedForwardGrads(alone, f[r], w, <<g[r]>>).input[1]]))]
Wrapped(cfg, x, w) ==
  LET alone == [cfg EXCEPT !.mode = "mtp"]
      all == AllGather(x)
  IN  WrappedBack(alone, Eager([r \in DOMAIN x |-> FeedForward(alone, <<all[r]>>, w)]), w, all)

-----------------------------------------------------------------------------
(* _VocabParallelCrossEntropy without smoothing: the loss of a token is the *)
(* logarithm of a sum less the target's logit, its gradient the softmax     *)
(* less one at the target, times that sum.  Target 0 is the ignored label.  *)
Exp(v) == 2 ^ (v + 8)
Sums(x) == Eager([i \in DOMAIN x[1] |->
  Total(LAMBDA r : Total(LAMBDA j : Exp(x[r][i][j]), Len(x[r][i])), Len(x))])
Centred(logits) ==
  LET ranks == DOMAIN logits
      Top(i) == Max(UNION {ToSet(logits[r][i]) : r \in ranks})
  IN  Eager([r \in ranks |-> Eager([i \in DOMAIN logits[r] |-> Eager([j \in DOMAIN logits[r][i] |->
        logits[r][i][j] - Top(i)])])])

VocabLoss(logits, target) ==
  LET x == Centred(logits)
      sum == Sums(x)
      Local(r) == Masked(target, Len(x[r][1]), r)
      At(r, i) == IF Local(r)[i] = 0 THEN 0 ELSE x[r][i][Local(r)[i]]
  IN  Eager([i \in DOMAIN target |-> IF target[i] = 0 THEN <<1, 0>>
             ELSE <<sum[i], Total(LAMBDA r : At(r, i), Len(logits))>>])

VocabGrad(logits, target) ==
  LET x == Centred(logits)
      sum == Sums(x)
      Local(r) == Masked(target, Len(x[r][1]), r)
      At(r, i, j) == Exp(x[r][i][j]) - (IF Local(r)[i] = j THEN sum[i] ELSE 0)
  IN  Eager([r \in DOMAIN x |-> Eager([i \in DOMAIN target |-> Eager([j \in DOMAIN x[r][i] |->
        IF target[i] = 0 THEN 0 ELSE At(r, i, j)])])])

(* _VocabSequenceParallelCrossEntropy: each rank has some rows of all       *)
(* logits, every rank the losses of all rows.                               *)
SequenceLoss(logits, target) ==
  FlattenSeq(Eager([r \in DOMAIN logits |-> VocabLoss(<<logits[r]>>, target[r])]))
SequenceGrad(logits, target) ==
  Eager([r \in DOMAIN logits |-> VocabGrad(<<logits[r]>>, target[r])[1]])

-----------------------------------------------------------------------------
(* GroupedWPLinear: the experts' matrices are chunked by rows over the      *)
(* weight group; each rank has its own number of tokens for each expert.    *)
GroupedShards(experts, n) == ColumnShards(FlattenSeq(experts), n)
Grouped(x, w, sizes, cols) ==
  LET weight == Stacked(w)
      First(e) == Total(LAMBDA k : sizes[k], e - 1)
      OfExpert(e) == SubSeq(weight, (e - 1) * cols + 1, e * cols)
  IN  FlattenSeq(Eager([e \in DOMAIN sizes |-> Mul(SubSeq(x, First(e) + 1, First(e) + sizes[e]), OfExpert(e))]))

GroupedGrad(x, g, sizes, cols) ==
  LET First(e) == Total(LAMBDA k : sizes[k], e - 1)
      Of(m, e) == SubSeq(m, First(e) + 1, First(e) + sizes[e])
      Zero == Eager([i \in 1 .. cols |-> Eager([j \in 1 .. 2 |-> 0])])
  IN  FlattenSeq(Eager([e \in DOMAIN sizes |->
        IF sizes[e] = 0 THEN Zero ELSE Mul(Transposed(Of(x, e)), Of(g, e))]))

-----------------------------------------------------------------------------
(* partition_uniform: each chunk of the layers is dealt to the stages, the  *)
(* last ones taking one more.                                               *)
StageParts(items, stages, chunks) ==
  LET perChunk == items \div chunks
      size == perChunk \div stages
      left == stages - (perChunk % stages)
      Before(p) == p * size + (IF p > left THEN p - left ELSE 0)
  IN  Eager([p \in 1 .. stages |-> Eager([k \in 1 .. chunks |->
         <<(k - 1) * perChunk + Before(p - 1), (k - 1) * perChunk + Before(p)>>])])

-----------------------------------------------------------------------------
(* A network of all the layers: the embedding, a block, the head.  Run it   *)
(* forward, and backward from a gradient of its logits.                     *)
BackThrough(cfg, s, block, headGrads) ==
  LET grads == FeedForwardGrads(cfg, block, s.w, headGrads.input)
  IN  [head |-> headGrads.weight, table |-> EmbeddingGrad(cfg, s.tokens, s.table, grads.input)] @@ grads
BackFrom(cfg, s, block, logits, g) ==
  LET grad == Eager([r \in 1 .. cfg.n |-> IF cfg.retain THEN ColumnSlice(g, cfg.n, r) ELSE g])
  IN  [logits |-> logits.out] @@
      BackThrough(cfg, s, block, HeadGrads(Communicator("head", cfg), logits.saved, s.head, grad, 3))
HeadOn(cfg, s, block, g) ==
  LET none == Eager([r \in 1 .. cfg.n |-> <<>>])
  IN  BackFrom(cfg, s, block, Linear(Communicator("head", cfg), block.out, s.head, none), g)
RunShards(cfg, s, g) == HeadOn(cfg, s, FeedForward(cfg, Embedded(cfg, s.tokens, s.table), s.w), g)
Network(cfg, p, ids, g) ==
  RunShards(cfg,
    [tokens |-> Eager([r \in 1 .. cfg.n |-> IF cfg.mode = "isp" THEN Slice(ids, cfg.n, r) ELSE ids]),
     table |-> EmbeddingShards(cfg, p.table), w |-> FeedForwardShards(cfg, p),
     head |-> WeightShards(Communicator("head", cfg), p.head, cfg.n)], g)

Entry(k, i, j) == ((7 * i + 5 * j + 3 * k + i * j * k) % 5) - 2
Matrix(k, cols) == Eager([i \in 1 .. 4 |-> Eager([j \in 1 .. cols |-> Entry(k, i, j)])])
Parameters(bias) ==
  LET Bias(k) == IF bias THEN Matrix(k, 1) ELSE <<>>
  IN  [table |-> Matrix(1, 4), w1 |-> Matrix(2, 4), w3 |-> Matrix(3, 4), w2 |-> Matrix(4, 4),
       head |-> Matrix(5, 4), b1 |-> Bias(6), b3 |-> Bias(7), b2 |-> Bias(8)]
Ids == <<2, 4, 2, 1>>

(* Ranks in parallel compute what one alone does: each its shard of the     *)
(* logits and of every gradient.                                            *)
ShardsOf(cfg, many, one) ==
  LET c(name) == Communicator(name, cfg)
  IN  /\ \A r \in 1 .. cfg.n :
           many.logits[r] = IF cfg.retain THEN ColumnSlice(one.logits[1], cfg.n, r) ELSE one.logits[1]
      /\ many.table = EmbeddingShards(cfg, one.table[1])
      /\ \A name \in {"w1", "w3", "w2", "head"} :
           many[name] = WeightShards(c(name), one[name][1], cfg.n)
      /\ ~cfg.fused => \A k \in 1 .. 3 : LET b == <<"b1", "b2", "b3">>[k] IN
           many[b] = BiasShards(c(<<"w1", "w2", "w3">>[k]), one[b][1], cfg.n)
NetworkAgrees(cfg) ==
  LET p == Parameters(cfg.bias)
      On(c) == Network(c, p, Ids, Matrix(9, 4))
  IN  ShardsOf(cfg, On(cfg), On([cfg EXCEPT !.n = 1, !.mode = "mtp", !.fused = FALSE]))

(* The wrapped block of a sequence-parallel group is the block alone.       *)
Alone == [n |-> 1, mode |-> "mtp", saves |-> FALSE, fused |-> FALSE, retain |-> TRUE]
WrapSplits(n, many, one, grads) ==
  /\ many.out = SplitRows(Eager([r \in 1 .. n |-> one.out[1]]))
  /\ many.input = SplitRows(Eager([r \in 1 .. n |-> grads.input[1]]))
WrapMatches(n, x, w, one) ==
  WrapSplits(n, Wrapped(Alone, SplitRows(Eager([r \in 1 .. n |-> x])), w), one,
             FeedForwardGrads(Alone, one, w, <<x>>))
WrapAgrees(n) ==
  LET p == Parameters(FALSE)
      w == [k \in {"w1", "w2", "w3", "b1", "b2", "b3"} |-> <<p[k]>>]
  IN  WrapMatches(n, p.table, w, FeedForward(Alone, <<p.table>>, w))

(* The losses and their gradients do not depend on how logits are cut.      *)
LossAgrees(n, target) ==
  LET logits == Matrix(9, 4)
      loss == VocabLoss(<<logits>>, target)
      grad == VocabGrad(<<logits>>, target)[1]
      columns == RowShards(logits, n)
      rows == ColumnShards(logits, n)
      targets == ColumnShards(target, n)
  IN  /\ VocabLoss(columns, target) = loss
      /\ VocabGrad(columns, target) = RowShards(grad, n)
      /\ 0 \notin ToSet(target) =>
           SequenceLoss(rows, targets) = loss /\ SequenceGrad(rows, targets) = ColumnShards(grad, n)

(* Grouped linears over a weight group give each token its expert's product *)
(* and each rank its rows of the experts' gradients, some without tokens.   *)
GroupedAgrees(n, sizes) ==
  LET w == [e \in 1 .. 4 |-> [j \in 1 .. 2 |-> Entry(4, e, j)]]
      Tokens(k, r, e) == [i \in 1 .. sizes[r][e] |-> [j \in 1 .. 2 |-> Entry(k, 4 * r + i, 4 * e + j)]]
      X(r) == FlattenSeq([e \in 1 .. 2 |-> Tokens(1, r, e)])
      G(r) == FlattenSeq([e \in 1 .. 2 |-> Tokens(2, r, e)])
      All(k, e) == FlattenSeq([r \in 1 .. n |-> Tokens(k, r, e)])
      shards == GroupedShards(<<SubSeq(w, 1, 2), SubSeq(w, 3, 4)>>, n)
  IN  /\ \A r \in 1 .. n : Grouped(X(r), shards, sizes[r], 2) =
           Mul(Tokens(1, r, 1), SubSeq(w, 1, 2)) \o Mul(Tokens(1, r, 2), SubSeq(w, 3, 4))
      /\ ReduceScatter([r \in 1 .. n |-> GroupedGrad(X(r), G(r), sizes[r], 2)]) =
           LET whole == GroupedGrad(All(1, 1) \o All(1, 2), All(2, 1) \o All(2, 2),
                                    [e \in 1 .. 2 |-> Len(All(1, e))], 2)
           IN  [r \in 1 .. n |-> Slice(whole, n, r)]

(* Stages hold every layer once, each chunk in order over them.             *)
StagesPartition(items, stages, chunks) ==
  items % chunks = 0 =>
    LET parts == StageParts(items, stages, chunks)
        Of(p, k) == parts[p][k][1] .. parts[p][k][2] - 1
        Cells == (1 .. stages) \X (1 .. chunks)
    IN  /\ UNION {Of(c[1], c[2]) : c \in Cells} = 0 .. items - 1
        /\ \A c, d \in Cells : c # d => Of(c[1], c[2]) \cap Of(d[1], d[2]) = {}
        /\ \A k \in 1 .. chunks, p \in 2 .. stages : parts[p][k][1] = parts[p - 1][k][2]
=============================================================================
