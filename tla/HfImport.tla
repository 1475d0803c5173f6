------------------------------- MODULE HfImport -------------------------------
(***************************************************************************)
(* Loading published weights into the ranks of a training run              *)
(* (sensenovavl/utils/checkpoint.py), the way back of HfConversion.        *)
(*                                                                         *)
(* An import c has the tensor mode and its size n, the source it loads     *)
(* ("mot": both branches; "random", "copied": a dense model into a model   *)
(* of two branches; "dense"), whether queries and keys are normalized,     *)
(* whether experts replace the feed-forward, whether the embedding is cut  *)
(* by its hidden dimension, and whether the head is tied to it.  A tensor  *)
(* is a sequence of rows; the tensors of one layer and of the top of the   *)
(* network are keyed by their name and branch.  Ranks count from 0.        *)
(***************************************************************************)
EXTENDS HfConversion, TLC

(* torch.chunk and torch.cat along a dimension. *)
Whole == -1
Upto(a, b) == IF a < b THEN a ELSE b
Part(s, n, r) ==
  LET size == (Len(s) + n - 1) \div n IN SubSeq(s, r * size + 1, Upto((r + 1) * size, Len(s)))
Chunk(t, n, dim, r) ==
  CASE dim = Whole -> t
    [] dim = 0       -> Part(t, n, r)
    [] dim = 1       -> [i \in DOMAIN t |-> Part(t[i], n, r)]
Cat(parts, dim) ==
  CASE dim = Whole -> parts[1]
    [] dim = 0       -> FlattenSeq(parts)
    [] dim = 1       -> [i \in DOMAIN parts[1] |-> FlattenSeq([p \in DOMAIN parts |-> parts[p][i]])]
Matrix(name, rows, cols) == [i \in 1 .. rows |-> [j \in 1 .. cols |-> <<name, i, j>>]]
Vector(name, size) == [i \in 1 .. size |-> <<name, i>>]

RowDim(c) == IF c.mode = "isp" THEN 0 ELSE 1
Ranks(c) == 0 .. c.n - 1
OverRanks(c, F(_)) == [p \in 1 .. c.n |-> F(p - 1)]

-----------------------------------------------------------------------------
(* The training state of a rank: how its layers cut their weights.          *)
FeedForward == {"w1", "w2", "w3"}
Attention == {"wq", "wk", "wv", "wo"}
LayerNorms == {"attention_norm", "ffn_norm"}
QkNorms == {"q_norm", "q_norm_hw", "k_norm", "k_norm_hw"}
LayerNames(c) ==
  Attention \union LayerNorms \union (IF c.moe THEN {} ELSE FeedForward)
    \union (IF c.qk THEN QkNorms ELSE {})
Top == {<<"tok_embeddings", "und">>, <<"output", "und">>, <<"norm", "und">>}
Trains(c) == IF c.source = "dense" THEN {"und"} ELSE Branches

LayerDim(c, name) ==
  CASE name \in {"w1", "w3", "wq", "wk", "wv", "output"} -> 0
    [] name \in {"w2", "wo"}                             -> RowDim(c)
    [] name = "tok_embeddings"                           -> IF c.hidden THEN 1 ELSE 0
    [] OTHER                                             -> Whole

Size == 4
Weight(c, key) ==
  IF key[1] \in LayerNorms \union QkNorms \union {"norm"} THEN Vector(key, Size)
  ELSE IF key[1] = "output" /\ c.tied THEN Matrix(<<"tok_embeddings", "und">>, Size, Size)
  ELSE Matrix(key, Size, Size)
Keys(c, branches) ==
  (LayerNames(c) \X branches) \union Top \union {<<"norm", b>> : b \in branches}
Trained(c, branches, r) ==
  [key \in Keys(c, branches) |-> Chunk(Weight(c, key), c.n, LayerDim(c, key[1]), r)]

-----------------------------------------------------------------------------
(* publish_hf on the dense tensors of the weight shards: the concatenation, *)
(* and of the norms, which every rank holds, the first part.                *)
ConvertDenseKey ==
  [wq |-> "q_proj", wk |-> "k_proj", wv |-> "v_proj", wo |-> "o_proj",
   w1 |-> "gate_proj", w3 |-> "up_proj", w2 |-> "down_proj",
   attention_norm |-> "input_layernorm", ffn_norm |-> "post_attention_layernorm",
   q_norm |-> "q_norm", q_norm_hw |-> "q_norm_hw", k_norm |-> "k_norm", k_norm_hw |-> "k_norm_hw",
   tok_embeddings |-> "embed_tokens", output |-> "lm_head", norm |-> "norm"]

MergedShards(shards, name) ==
  CASE name = "norm"           -> shards[1]
    [] name = "tok_embeddings" -> Cat(shards, 1)
    [] OTHER                   -> Cat(shards, 0)
ReducedNorm(name, merged, n) ==
  IF name \in LayerNorms \union QkNorms THEN Part(merged, n, 0) ELSE merged

Published(c, branches) ==
  LET keys == {k \in Keys(c, branches) : c.tied => k[1] # "output"}
      Key(hf) == CHOOSE k \in keys : <<ConvertDenseKey[k[1]], k[2]>> = hf
      Merge(k) == MergedShards(OverRanks(c, LAMBDA r : Trained(c, branches, r)[k]), k[1])
  IN  [hf \in {<<ConvertDenseKey[k[1]], k[2]>> : k \in keys} |->
         ReducedNorm(Key(hf)[1], Merge(Key(hf)), c.n)]

-----------------------------------------------------------------------------
(* _load_pretrained_qwen2_llm.  A rule names the tensor a parameter is read *)
(* from and the dimension along which it is chunked.                        *)
From(hf, dim) == [hf |-> hf, dim |-> dim]
Norms ==
  [attention_norm |-> From("input_layernorm", Whole), ffn_norm |-> From("post_attention_layernorm", Whole)]
FeedForwardRules(c) ==
  [w1 |-> From("gate_proj", 0), w2 |-> From("down_proj", RowDim(c)), w3 |-> From("up_proj", RowDim(c))]
AttentionRules(c) ==
  [wq |-> From("q_proj", RowDim(c)), wk |-> From("k_proj", RowDim(c)),
   wv |-> From("v_proj", RowDim(c)), wo |-> From("o_proj", RowDim(c))]
QkNormRules(c) ==
  IF c.qk THEN [q_norm |-> From("q_norm", Whole), q_norm_hw |-> From("q_norm_hw", Whole),
                k_norm |-> From("k_norm", Whole), k_norm_hw |-> From("k_norm_hw", Whole)]
  ELSE <<>>
Ones == [i \in 1 .. Size |-> "one"]

(* Parameters read by rules from a branch of the published tensors.  A      *)
(* missing tensor raises.                                                   *)
Reads(c, hf, rules, branch, r) ==
  [key \in (DOMAIN rules) \X {branch} |->
     LET rule == rules[key[1]] IN Chunk(hf[<<rule.hf, branch>>], c.n, rule.dim, r)]
Copies(loaded) == [key \in {<<k[1], "gen">> : k \in DOMAIN loaded} |-> loaded[<<key[1], "und">>]]

(* From a model of two branches: each parameter from its own tensor.        *)
MotLayer(c, hf, r) ==
  LET rules == Norms @@ (IF c.moe THEN <<>> ELSE FeedForwardRules(c)) @@ AttentionRules(c) @@ QkNormRules(c)
  IN  Reads(c, hf, rules, "und", r) @@ Reads(c, hf, rules, "gen", r)
        @@ (<<"norm", "gen">> :> hf[<<"norm", "gen">>])

(* From a dense model: the generation branch keeps its initial values, its  *)
(* norms of queries and keys excepted.                                      *)
RandomLayer(c, hf, r) ==
  Reads(c, hf, Norms @@ FeedForwardRules(c) @@ AttentionRules(c) @@ QkNormRules(c), "und", r)
    @@ [key \in (DOMAIN QkNormRules(c)) \X {"gen"} |-> Ones]

(* From a dense model: the generation branch is a copy.                     *)
CopiedLayer(c, hf, r) ==
  LET und == Reads(c, hf, Norms @@ FeedForwardRules(c) @@ AttentionRules(c) @@ QkNormRules(c), "und", r)
  IN  und @@ Copies(und)

DenseLayer(c, hf, r) ==
  Reads(c, hf, Norms @@ FeedForwardRules(c) @@ AttentionRules(c) @@ QkNormRules(c), "und", r)

(* The embedding, the head, tied to it when the file has none, and the norm. *)
TopOfNetwork(c, hf, r) ==
  LET embedding == Chunk(hf[<<"embed_tokens", "und">>], c.n, IF c.hidden THEN 1 ELSE 0, r)
  IN  (<<"tok_embeddings", "und">> :> embedding) @@ (<<"norm", "und">> :> hf[<<"norm", "und">>])
        @@ (<<"output", "und">> :> IF <<"lm_head", "und">> \in DOMAIN hf
                                   THEN Chunk(hf[<<"lm_head", "und">>], c.n, 0, r) ELSE embedding)

Imported(c, hf, r) ==
  TopOfNetwork(c, hf, r) @@
    (CASE c.source = "mot"    -> MotLayer(c, hf, r)
       [] c.source = "random" -> RandomLayer(c, hf, r)
       [] c.source = "copied" -> CopiedLayer(c, hf, r)
       [] c.source = "dense"  -> DenseLayer(c, hf, r))

(* Which layers of the dense model are read and which start anew, when the  *)
(* file ends before the layers after the buffer.                            *)
Existing(layers, post, filed) == IF post > 0 /\ layers - 1 \notin filed THEN layers - post ELSE layers
ReadLayers(layers, post, filed) == 0 .. Existing(layers, post, filed) - 1

(* A file of exactly the layers before the buffer, or of all, is readable.  *)
LayersRead(layers, post) ==
  /\ ReadLayers(layers, post, 0 .. layers - 1) = 0 .. layers - 1
  /\ ReadLayers(layers, post, 0 .. layers - post - 1) = 0 .. layers - post - 1

(* What a run published is what it loads, tensor by tensor and on each      *)
(* rank; from a dense model both branches start alike, or one at random.    *)
(* Outside of weight parallelism with more than one rank the rules chunk    *)
(* column layers by columns, and nothing is claimed.                        *)
ImportExact(c) ==
  LET hf == Published(c, IF c.source = "mot" THEN Branches ELSE {"und"})
      Und(loaded) == [key \in Keys(c, {"und"}) |-> loaded[key]]
  IN  \A r \in Ranks(c) : LET loaded == Imported(c, hf, r) IN
        /\ Und(loaded) = Trained(c, {"und"}, r)
        /\ CASE c.source = "mot"    -> loaded = Trained(c, Branches, r)
             [] c.source = "random" -> DOMAIN loaded = Keys(c, {"und"}) \union
                                         {<<name, "gen">> : name \in {q \in QkNorms : c.qk}}
             [] c.source = "copied" -> \A name \in LayerNames(c) :
                                         loaded[<<name, "gen">>] = loaded[<<name, "und">>]
             [] c.source = "dense"  -> DOMAIN loaded = Keys(c, {"und"})

-----------------------------------------------------------------------------
(* _load_qwen3_moe_experts_from_hf with grouped experts under weight        *)
(* parallelism: an expert rank's experts stacked, then cut.                 *)
LocalExperts(ck, branch, ep) ==
  LET local == Experts(ck, branch) \div ck.ep
  IN  {e \in 0 .. Experts(ck, branch) - 1 : ep * local <= e /\ e < (ep + 1) * local}

\* Mutant: each expert is cut before they are stacked.
ImportedExpertsCut(ck, hf, branch, ep, ewp) ==
  FlattenSeq([i \in 1 .. Cardinality(LocalExperts(ck, branch, ep)) |->
    Part(hf[<<branch, ep * Cardinality(LocalExperts(ck, branch, ep)) + i - 1>>], ck.ewp, ewp)])

ImportedExperts(ck, hf, branch, ep, ewp) ==
  LET stacked == FlattenSeq([i \in 1 .. Cardinality(LocalExperts(ck, branch, ep)) |->
                   hf[<<branch, ep * Cardinality(LocalExperts(ck, branch, ep)) + i - 1>>]])
  IN  Part(stacked, ck.ewp, ewp)

(* Publishing and loading gives each expert rank the shard it had saved.    *)
ExpertsReturn(ck) ==
  \A layer \in MoeLayers(ck), branch \in Present(ck), ep \in 0 .. ck.ep - 1, ewp \in 0 .. ck.ewp - 1 :
    ImportedExperts(ck, Converted(ck, layer), branch, ep, ewp) = Shard(ck, branch, layer, ep, ewp)

-----------------------------------------------------------------------------
(* load_pretrained_llm_moe_online and load_pretrained_vit_moe_online: the   *)
(* experts of a new model are made of a dense feed-forward.  An upcycling u *)
(* has the tensor mode, the groups of experts ep and of their weights ew,   *)
(* the experts, the pieces split, the shared experts, and whether a         *)
(* group's experts are multiplied together (gemm).                          *)
Inner == 8
Dense == [w1 |-> Matrix("w1", Inner, Size), w2 |-> Matrix("w2", Size, Inner)]
SplitDim == [w1 |-> 0, w2 |-> 1]
Transposed(t) == [j \in DOMAIN t[1] |-> [i \in DOMAIN t |-> t[i][j]]]
DensePiece(u, w, j) == Chunk(Dense[w], u.split, SplitDim[w], j)

(* Of its local experts: each is a piece of the feed-forward, cut by the    *)
(* expert weight rank.                                                      *)
ExpertCut(u, w, e, ewp) ==
  LET piece == DensePiece(u, w, e % u.split)
      dim == IF w = "w2" /\ u.mode # "isp" THEN 1 ELSE 0
  IN  Chunk(IF u.gemm THEN Transposed(piece) ELSE piece, u.ew, dim, ewp)
Upcycled(u, w, ep, ewp) ==
  LET local == u.experts \div u.ep
      experts == {e \in 0 .. (u.experts \div u.split) * u.split - 1 : e \div local = ep}
      cuts == [i \in 1 .. Cardinality(experts) |-> ExpertCut(u, w, ep * local + i - 1, ewp)]
  IN  IF u.gemm /\ u.mode = "isp" THEN <<FlattenSeq(cuts)>> ELSE cuts

(* The shared experts: the pieces over again, as many as there are.         *)
SharedExperts(u, w, r) ==
  LET pieces == [j \in 1 .. u.split |-> DensePiece(u, w, j - 1)]
      repeated == FlattenSeq([k \in 1 .. u.shared \div u.split |-> pieces])
                    \o SubSeq(pieces, 1, u.shared % u.split)
  IN  Chunk(Cat(repeated, SplitDim[w]), u.n, IF w = "w2" THEN RowDim(u) ELSE 0, r)

(* A checkpoint of shards is first gathered.                                *)
GatheredDense(u, w) ==
  LET dim == IF w = "w2" THEN RowDim(u) ELSE 0
  IN  Cat(OverRanks(u, LAMBDA r : Chunk(Dense[w], u.n, dim, r)), dim)

(* Every split experts in turn are the pieces of one dense feed-forward,    *)
(* with as many ranks as there are; the shared ones likewise.  When expert  *)
(* weights are cut and a rank has several experts, grouped experts are cut  *)
(* one by one where the layer expects the stack to be cut: nothing is       *)
(* claimed of those.                                                        *)
UpcyclingExact(u) ==
  LET local == u.experts \div u.ep
      dim(w) == IF w = "w2" /\ u.mode # "isp" THEN 1 ELSE 0
      Gathered(w, ep, i) == Cat([p \in 1 .. u.ew |-> Upcycled(u, w, ep, p - 1)[i]], dim(w))
      Expected(w, e) == LET t == DensePiece(u, w, e % u.split) IN IF u.gemm THEN Transposed(t) ELSE t
  IN  /\ \A w \in {"w1", "w2"}, ep \in 0 .. u.ep - 1 :
           IF u.gemm /\ u.mode = "isp"
           THEN u.ew = 1 \/ local = 1 =>
                  Gathered(w, ep, 1) = FlattenSeq([i \in 1 .. local |-> Expected(w, ep * local + i - 1)])
           ELSE \A i \in 1 .. local : Gathered(w, ep, i) = Expected(w, ep * local + i - 1)
      /\ \A w \in {"w1", "w2"} :
           /\ GatheredDense(u, w) = Dense[w]
           /\ Cat(OverRanks(u, LAMBDA r : SharedExperts(u, w, r)), IF w = "w2" THEN RowDim(u) ELSE 0)
                = Cat([k \in 1 .. u.shared |-> DensePiece(u, w, (k - 1) % u.split)], SplitDim[w])

(* load_pretrained_llm_moe_offline: the files of experts a rank reads.      *)
OfflineFiles(experts, ep, rank, gemm) ==
  LET wrapped == IF gemm THEN 1 ELSE experts \div ep
  IN  {rank * wrapped + j : j \in 0 .. wrapped - 1}
OfflinePartition(u) ==
  LET files == [p \in 1 .. u.ep |-> OfflineFiles(u.experts, u.ep, p - 1, u.gemm)]
  IN  /\ UNION {files[p] : p \in 1 .. u.ep} = 0 .. (IF u.gemm THEN u.ep ELSE u.experts) - 1
      /\ \A p, q \in 1 .. u.ep : p # q => files[p] \intersect files[q] = {}

-----------------------------------------------------------------------------
(* _load_pretrained_hf_vit and load_pretrained_mlp.  A vision block v has   *)
(* the tensor mode, its size n and the heads; heads may divide unevenly.    *)
HeadSize == 2
LocalHeads(v, r) == v.heads \div v.n + (IF r < v.heads % v.n THEN 1 ELSE 0)
StartHead(v, r) ==
  LET each == v.heads \div v.n
      larger == v.heads % v.n
  IN  IF r < larger THEN (each + 1) * r ELSE (each + 1) * larger + (r - larger) * each
OfHeads(v, s, r) ==
  SubSeq(s, StartHead(v, r) * HeadSize + 1, (StartHead(v, r) + LocalHeads(v, r)) * HeadSize)

Features(v) == v.heads * HeadSize
Qkv(v) == FlattenSeq([k \in 1 .. 3 |-> Vector(<<"qkv", k>>, Features(v))])
QkvPiece(v, r) ==
  IF v.mode = "isp" THEN Part(Qkv(v), v.n, r)
  ELSE FlattenSeq([k \in 1 .. 3 |-> OfHeads(v, Part(Qkv(v), 3, k - 1), r)])
Proj(v) == Matrix("proj", Features(v), Features(v))
ProjPiece(v, r) ==
  IF v.mode = "isp" THEN Part(Proj(v), v.n, r) ELSE [i \in DOMAIN Proj(v) |-> OfHeads(v, Proj(v)[i], r)]

(* The two linear layers of a block or of the projector; outside of weight  *)
(* parallelism the second bias is the first rank's.                         *)
MlpPieces(v, r) ==
  [in |-> Chunk(Matrix("in", Inner, Size), v.n, 0, r), inBias |-> Part(Vector("in", Inner), v.n, r),
   out |-> Chunk(Matrix("out", Size, Inner), v.n, RowDim(v), r),
   outBias |-> IF v.mode = "isp" THEN Part(Vector("out", Size), v.n, r)
               ELSE IF r = 0 THEN Vector("out", Size) ELSE <<>>]

(* In every mode the ranks hold each head, feature and bias exactly once.   *)
VisionExact(v) ==
  LET Thirds(k) == FlattenSeq(OverRanks(v, LAMBDA r : Part(QkvPiece(v, r), 3, k)))
      Mlp(w, dim) == Cat(OverRanks(v, LAMBDA r : MlpPieces(v, r)[w]), dim)
  IN  /\ IF v.mode = "isp" THEN FlattenSeq(OverRanks(v, LAMBDA r : QkvPiece(v, r))) = Qkv(v)
         ELSE \A k \in 0 .. 2 : Thirds(k) = Part(Qkv(v), 3, k)
      /\ Cat(OverRanks(v, LAMBDA r : ProjPiece(v, r)), RowDim(v)) = Proj(v)
      /\ Mlp("in", 0) = Matrix("in", Inner, Size) /\ Mlp("inBias", 0) = Vector("in", Inner)
      /\ Mlp("out", RowDim(v)) = Matrix("out", Size, Inner) /\ Mlp("outBias", 0) = Vector("out", Size)

-----------------------------------------------------------------------------
(* _load_model_checkpoint: from the names of the files it derives the sizes *)
(* of the run that saved them, and each rank the name of its own.           *)
ShardFile(p, tensor, weight, pipeline) ==
  IF p.mode = "isp" THEN <<"wp", weight, pipeline>> ELSE <<"tp", tensor, pipeline>>
SavedFiles(p) ==
  {ShardFile(p, t, w, l) : t \in 0 .. p.tensor - 1, w \in 0 .. p.weight - 1, l \in 0 .. p.pipeline - 1}
AcceptsFiles(p, files) ==
  LET largest(i) == CHOOSE n \in {f[i] : f \in files} : \A f \in files : f[i] <= n
  IN  /\ files # {} /\ \A f \in files : f[1] = IF p.mode = "isp" THEN "wp" ELSE "tp"
      /\ p.pipeline = largest(3) + 1
      /\ p.weight = (IF p.mode = "isp" THEN largest(2) ELSE 0) + 1
      /\ p.mode # "isp" => p.tensor = largest(2) + 1

(* A run takes the files of exactly the runs whose shards are its own.      *)
ShardsAccepted(saver, loader) ==
  AcceptsFiles(loader, SavedFiles(saver)) => SavedFiles(loader) = SavedFiles(saver)

(* convert_q_k_v_to_wqkv_interleaved (of the loader of an older format):    *)
(* each head of keys follows its queries.                                   *)
Interleaved(q, k, v, heads, groups, dim) ==
  FlattenSeq([h \in 1 .. heads |->
    SubSeq(q, (h - 1) * groups * dim + 1, h * groups * dim)
      \o SubSeq(k, (h - 1) * dim + 1, h * dim) \o SubSeq(v, (h - 1) * dim + 1, h * dim)])

(* A rank's rows of the fused projection are those of its own heads.        *)
InterleavedExact(heads, groups, n) ==
  LET q == Vector("q", heads * groups * HeadSize)
      k == Vector("k", heads * HeadSize)
      v == Vector("v", heads * HeadSize)
  IN  \A r \in 0 .. n - 1 : Part(Interleaved(q, k, v, heads, groups, HeadSize), n, r) =
        Interleaved(Part(q, n, r), Part(k, n, r), Part(v, n, r), heads \div n, groups, HeadSize)

=============================================================================
