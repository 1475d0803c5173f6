----------------------------- MODULE HfConversion -----------------------------
(***************************************************************************)
(* The offline conversion of a training checkpoint to the published layout *)
(* (training/tools/publish_hf.py).  A checkpoint is described by k, the    *)
(* first layers without experts; n, the layers; ep and ewp, the expert and *)
(* weight shards of one file layer; the experts of each branch; mot, that  *)
(* the generation branch exists; and the naming of its files.  A tensor is *)
(* its branch, layer and expert.                                           *)
(***************************************************************************)
EXTENDS Integers, Sequences, SequencesExt, FiniteSets

Branches == {"und", "gen"}

(* _file_L_for. *)
FileLayer(layout, layer, n, gen) ==
  CASE layout = "interleaved" -> 2 * layer + (IF gen THEN 1 ELSE 0)
    [] layout = "offset"      -> layer + (IF gen THEN n ELSE 0)

(* The writer: per file layer one file for each expert and weight shard.   *)
MoeLayers(ck) == ck.k .. ck.n - 1
Experts(ck, branch) == IF branch = "gen" THEN ck.genExperts ELSE ck.experts
Present(ck) == {b \in Branches : b = "gen" => ck.mot}

FileOf(ck, branch, layer) == FileLayer(ck.layout, layer, ck.n, branch = "gen")
Files(ck) == {FileOf(ck, b, l) : b \in Present(ck), l \in MoeLayers(ck)}

(* The experts one pair of shards holds: half rows of each with two weight *)
(* shards over the concatenation of the expert group's matrices.           *)
RowsPerExpert == 2
Stacked(ck, branch, layer, ep) ==
  LET perEp == Experts(ck, branch) \div ck.ep
  IN  [row \in 1 .. perEp * RowsPerExpert |->
         <<branch, layer, ep * perEp + (row - 1) \div RowsPerExpert, (row - 1) % RowsPerExpert>>]
Shard(ck, branch, layer, ep, wp) ==
  LET all == Stacked(ck, branch, layer, ep)
      size == Len(all) \div ck.ewp
  IN  SubSeq(all, wp * size + 1, (wp + 1) * size)
Owner(ck, file) == CHOOSE o \in Present(ck) \X MoeLayers(ck) : FileOf(ck, o[1], o[2]) = file
ContentOf(ck, file, ep, wp) == Shard(ck, Owner(ck, file)[1], Owner(ck, file)[2], ep, wp)

-----------------------------------------------------------------------------
(* discover_shards: the naming, from the first layer with experts.         *)
Detected(ck) ==
  IF ck.k < ck.n /\ 2 * ck.k + 1 \notin Files(ck) /\ ck.k + ck.n \in Files(ck)
  THEN "offset" ELSE "interleaved"

(* The checkpoints whose naming it finds: a file of the other layout must  *)
(* not be where it looks.                                                  *)
Recognised(ck) ==
  \/ ck.layout = "interleaved" /\ (ck.mot \/ ck.k = ck.n \/ (ck.n - ck.k) % 2 = 1)
  \/ ck.layout = "offset" /\ ck.mot /\ ck.n <= 2 * ck.k + 1 /\ ck.k < ck.n - 1

(* merge_wp_shards of an expert tensor. *)
Merged(ck, file, ep) == FlattenSeq([w \in 1 .. ck.ewp |-> ContentOf(ck, file, ep, w - 1)])

(* process_moe_layer: what layer's output file maps each expert key to.  A *)
(* key is given the layer and the expert, and keeps the branch it has in   *)
(* its file; the file taken for the generation branch's is read last.      *)
Converted(ck, layer) ==
  LET layout == Detected(ck)
      File(b) == FileLayer(layout, layer, ck.n, b = "gen")
      PerEp(b) == Experts(ck, b) \div ck.ep
      Read == {b \in Branches : File(b) \in Files(ck)}
      Keys(b) == {<<Owner(ck, File(b))[1], e>> : e \in 0 .. Experts(ck, b) - 1}
  IN  [key \in UNION {Keys(b) : b \in Read} |->
         LET b == IF "gen" \in Read /\ key \in Keys("gen") THEN "gen" ELSE "und"
             merged == Merged(ck, File(b), key[2] \div PerEp(b))
             size == Len(merged) \div PerEp(b)
             local == key[2] % PerEp(b)
         IN  SubSeq(merged, local * size + 1, (local + 1) * size)]

Tensor(branch, layer, expert) ==
  [row \in 1 .. RowsPerExpert |-> <<branch, layer, expert, row - 1>>]

(* Every expert of every layer and branch is published under its own name. *)
ExpertsConverted(ck) ==
  \A layer \in MoeLayers(ck) :
    Converted(ck, layer) =
      [key \in {<<b, e>> \in Present(ck) \X (0 .. 3) : e < Experts(ck, b)} |->
         Tensor(key[1], layer, key[2])]

-----------------------------------------------------------------------------
(* Dense slices: compute_dense_slice_layout and build_dense_slot_index.    *)

Slices(base, layers) == IF layers % base > 0 THEN base + 1 ELSE base
VitSlices(vit) == Slices(3, vit)
LlmSlices(llm) == Slices(10, llm)

LayersIn(base, layers, i) ==
  LET per == layers \div base
  IN  i * per .. (IF i < base THEN (i + 1) * per ELSE layers) - 1

TotalSlices(vit, llm) == VitSlices(vit) + 1 + 1 + LlmSlices(llm)

(* A slot is its category and index; slices count from 1. *)
Slots(vit, llm) ==
  {<<"vit", i>> : i \in 0 .. VitSlices(vit) - 1} \union {<<"mlp1", 0>>, <<"fm_modules", 0>>}
    \union {<<"llm", i>> : i \in 0 .. LlmSlices(llm) - 1}
GlobalSlot(vit, slot) ==
  CASE slot[1] = "vit" -> slot[2] + 1
    [] slot[1] = "mlp1" -> VitSlices(vit) + 1
    [] slot[1] = "fm_modules" -> VitSlices(vit) + 2
    [] slot[1] = "llm" -> VitSlices(vit) + 3 + slot[2]

(* classify_dense_key: the slots that may take a key; -1 for no layer.     *)
Classified(vit, llm, category, layer) ==
  CASE category = "vit" -> {<<"vit", i>> : i \in {i \in 0 .. VitSlices(vit) - 1 :
                               IF layer = -1 THEN i = 0 ELSE layer \in LayersIn(3, vit, i)}}
    [] category = "llm" -> {<<"llm", i>> : i \in {i \in 0 .. LlmSlices(llm) - 1 :
                               IF layer = -1 THEN i = 0 ELSE layer \in LayersIn(10, llm, i)}}
    [] OTHER            -> {<<category, 0>>}

(* Every dense tensor goes to exactly one of the numbered slices.          *)
SlicesPartition(vit, llm) ==
  /\ {GlobalSlot(vit, s) : s \in Slots(vit, llm)} = 1 .. TotalSlices(vit, llm)
  /\ Cardinality(Slots(vit, llm)) = TotalSlices(vit, llm)
  /\ \A layer \in -1 .. vit - 1 : Cardinality(Classified(vit, llm, "vit", layer)) = 1
  /\ \A layer \in -1 .. llm - 1 : Cardinality(Classified(vit, llm, "llm", layer)) = 1

=============================================================================
