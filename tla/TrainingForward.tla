----------------------------- MODULE TrainingForward -----------------------------
(***************************************************************************)
(* One training forward: samples collated into a row, the tokens to be     *)
(* denoised moved to the front of it, the mask under which they meet, the  *)
(* branch whose weights each one uses, and the losses; of u15_packed_      *)
(* collate_fn, modeling_sensenovavl_chat_mot.py, modeling_qwen3_moe_mot.py *)
(* and modules/mha.py.  What a token is to the layers is an entry, and     *)
(* "at" is its place in the row (zero where it has none).                  *)
(***************************************************************************)
EXTENDS TrainingSample

CONSTANTS Block,   \* tokens of a block of the mask
          Split    \* tokens of a piece of the padding

Joined(F(_), S) == FlattenSeq([k \in S |-> F(k)])
(* The empty prefix makes TLC evaluate a sequence once.                    *)
Eager(s) == <<>> \o s

-----------------------------------------------------------------------------
(* Collating: the rows' indexes, targets and weights.                      *)
ContextIndexes(ids) ==
  [i \in DOMAIN ids |->
     Cardinality({j \in 1 .. i : ids[j] # "patch"}) + Cardinality({j \in 2 .. i : ids[j - 1] = "img"}) - 1]

(* A copy takes the indexes of the image before it; what follows moves up. *)
Reindexed(index, s0, e0, s1, e1) ==
  [i \in DOMAIN index |-> IF i < s1 THEN index[i]
                          ELSE IF i <= e1 THEN index[s0 + i - s1]
                          ELSE index[i] - (index[e1] - index[e0])]
DocumentIndexes(ids, copies) ==
  LET start == Where(ids, "img")
      end == Where(ids, "/img")
  IN  FoldLeft(LAMBDA index, k :
                 IF k > 1 /\ copies[k]
                 THEN Eager(Reindexed(index, start[k - 1], end[k - 1], start[k], end[k])) ELSE index,
               Eager(ContextIndexes(ids)), [k \in DOMAIN start |-> k])

(* The flags of a row are those of its documents one after the other.      *)
CopiesOf(samples, d) ==
  LET flags == Joined(LAMBDA k : samples[k].dup, DOMAIN samples)
      Images(k) == Len(Where(samples[k].ids, "img"))
      before == FoldLeft(LAMBDA n, k : n + Images(k), 0, [k \in 1 .. d - 1 |-> k])
  IN  SubSeq(flags, before + 1, before + Images(d))

(* Labels and weights move one to the left over the whole row, and padding *)
(* to "capacity" is a document of its own.                                 *)
Shifted(s, last) == Tail(s) \o <<last>>
Collated(samples, capacity) ==
  LET ids == Joined(LAMBDA d : samples[d].ids, DOMAIN samples)
      documents == Joined(LAMBDA d : [i \in DOMAIN samples[d].ids |-> d], DOMAIN samples)
      labels == Joined(LAMBDA d : samples[d].labels, DOMAIN samples)
      length == Len(ids)
      Padding(x) == [i \in 1 .. capacity - length |-> x]
      cuts == [d \in 1 .. Len(samples) + 1 |-> Cardinality({i \in DOMAIN ids : documents[i] < d})]
      targets == Shifted(labels, FALSE) \o Padding(FALSE)
      weights == Shifted(documents, 0) \o Padding(0)
  IN  [ids |-> ids \o Padding("pad"),
       cuts |-> IF length < capacity THEN cuts \o <<capacity>> ELSE cuts,
       targets |-> targets,
       weights |-> [i \in 1 .. capacity |-> IF targets[i] THEN weights[i] ELSE 0],
       index |-> Joined(LAMBDA d : DocumentIndexes(samples[d].ids, CopiesOf(samples, d)), DOMAIN samples)
                 \o [i \in 1 .. capacity - length |-> i - 1],
       types |-> Joined(LAMBDA d : [i \in DOMAIN samples[d].ids |-> samples[d].type], DOMAIN samples)
                 \o Padding(0),
       images |-> Joined(LAMBDA d : [k \in DOMAIN samples[d].images |-> <<d, samples[d].images[k]>>],
                         DOMAIN samples),
       gen |-> Joined(LAMBDA d : samples[d].gen, DOMAIN samples),
       dup |-> Joined(LAMBDA d : samples[d].dup, DOMAIN samples)]

-----------------------------------------------------------------------------
(* The documents of a row; the last one, when padding, goes in pieces.     *)
DocumentIds(row) ==
  LET counts == [d \in 1 .. Len(row.cuts) - 1 |-> row.cuts[d + 1] - row.cuts[d]]
      last == Last(counts)
      pieces == [k \in 1 .. last \div Split |-> Split] \o (IF last % Split > 0 THEN <<last % Split>> ELSE <<>>)
      all == IF Last(row.ids) = "pad" THEN Front(counts) \o pieces ELSE counts
  IN  Joined(LAMBDA d : [i \in 1 .. all[d] |-> d], DOMAIN all)

(* Which image a context token is of, from the start tokens before it, or  *)
(* by the runs of context when the row is spread over ranks.               *)
ImageByStart(ids) ==
  [i \in DOMAIN ids |-> IF ids[i] = "patch" THEN Cardinality({j \in 1 .. i - 1 : ids[j] = "img"}) ELSE 0]
ImageByRun(ids) ==
  [i \in DOMAIN ids |->
     IF ids[i] = "patch"
     THEN Cardinality({j \in 1 .. i : ids[j] = "patch" /\ (j = 1 \/ ids[j - 1] # "patch")}) ELSE 0]

(* Of each run as many tokens as its image has embeddings, and of each     *)
(* image as many embeddings as its run has tokens.                         *)
RunLength(image, k) == Cardinality({i \in DOMAIN image : image[i] = k})
Aligned(image, lengths) ==
  {i \in DOMAIN image : /\ image[i] \in DOMAIN lengths
                        /\ Cardinality({j \in 1 .. i : image[j] = image[i]}) <= lengths[image[i]]}
Features(image, lengths) ==
  Joined(LAMBDA k : [p \in 1 .. IF RunLength(image, k) < lengths[k] THEN RunLength(image, k) ELSE lengths[k]
                       |-> [image |-> k, patch |-> p]], DOMAIN lengths)

Flagged(image, flags) == [i \in DOMAIN image |-> image[i] \in DOMAIN flags /\ flags[image[i]]]

(* The start of a copy, and the end of the image it repeats.               *)
DupBoundary(image, gen, dup) ==
  LET Text(i) == image[i] = 0 IN
  [i \in DOMAIN image |->
     /\ Text(i)
     /\ \/ i < Len(image) /\ dup[i + 1]
        \/ i > 1 /\ i + 2 <= Len(image) /\ gen[i - 1] /\ Text(i + 1) /\ dup[i + 2]]

(* A context token takes the next embedding, the noised one where it is to *)
(* be denoised, and the position of its patch.                             *)
None == [image |-> 0, patch |-> 0]
Entries(row, spread) ==
  LET lengths == [k \in DOMAIN row.gen |-> Patches]
      image == Eager(IF spread THEN ImageByRun(row.ids) ELSE ImageByStart(row.ids))
      selected == IF spread THEN Aligned(image, lengths) ELSE {i \in DOMAIN image : image[i] # 0}
      features == Features(image, lengths)
      gen == Eager([i \in DOMAIN image |-> i \in selected /\ Flagged(image, row.gen)[i]])
      dup == Eager([i \in DOMAIN image |-> i \in selected /\ Flagged(image, row.dup)[i]])
      hidden == Eager(DupBoundary(image, gen, dup))
      document == Eager(DocumentIds(row))
      Feature(i) == IF i \in selected THEN features[Cardinality({j \in selected : j <= i})] ELSE None
  IN  Eager([i \in DOMAIN row.ids |->
        LET feature == Feature(i)
            patch == IF i \in selected THEN feature.patch - 1 ELSE 0
        IN  [at |-> i, id |-> row.ids[i], t |-> row.index[i], h |-> RowOf(patch), w |-> ColumnOf(patch),
             doc |-> document[i], image |-> image[i], gen |-> gen[i], hidden |-> hidden[i],
             feature |-> feature, noised |-> gen[i]]])

-----------------------------------------------------------------------------
(* Packing: tokens to be denoised first, dummies of theirs before them, so *)
(* that their weights always take part; and padding of the mask.           *)
IsGen(e) == e.gen
Perm(entries) ==
  LET all == [i \in DOMAIN entries |-> i]
  IN  SelectSeq(all, LAMBDA i : entries[i].gen) \o SelectSeq(all, LAMBDA i : ~entries[i].gen)
InvPerm(perm) == Eager([i \in DOMAIN perm |-> CHOOSE x \in DOMAIN perm : perm[x] = i])

Highest(entries, F(_)) == Max({F(entries[x]) : x \in DOMAIN entries})
Filler(gen, doc, t) ==
  [at |-> 0, id |-> "pad", t |-> t, h |-> 0, w |-> 0, doc |-> doc, image |-> 0, gen |-> gen,
   hidden |-> FALSE, feature |-> None, noised |-> FALSE]
Packed(entries, dummies) ==
  LET perm == Perm(entries)
      doc == Highest(entries, LAMBDA e : e.doc) + 1
  IN  [x \in 1 .. dummies |-> Filler(TRUE, doc, 0)] \o [x \in DOMAIN perm |-> entries[perm[x]]]
Masked(packed) ==
  LET missing == (Block - (Len(packed) % Block)) % Block
      doc == Highest(packed, LAMBDA e : e.doc) + 1
      t == Highest(packed, LAMBDA e : e.t) + 1
  IN  packed \o [x \in 1 .. missing |-> Filler(FALSE, doc, t)]

(* create_flex_mask_padding_image_gen: whether query q sees key k.         *)
SameImage(q, k) == q.image = k.image /\ q.doc = k.doc
Visible(q, k) == (q.doc = k.doc /\ q.t >= k.t) \/ (q.image > 0 /\ SameImage(q, k))
Gate1(q, k) == k.gen => q.gen /\ SameImage(q, k)
\* Mutant: what is denoised sees the copy of itself that is to be understood.
Gate2Open(q, k) == TRUE
Gate2(q, k) == q.gen => k.gen \/ k.t # q.t
Sees(q, k) == Visible(q, k) /\ Gate1(q, k) /\ Gate2(q, k) /\ ~k.hidden

(* Split over ranks: each applies to a token the weights of the branch it  *)
(* finds by counting its own tokens to be denoised.                        *)
SplitSizes(length, ranks) ==
  [r \in 1 .. ranks |-> length \div ranks + (IF r <= length % ranks THEN 1 ELSE 0)]
Slice(packed, ranks, r) ==
  LET sizes == SplitSizes(Len(packed), ranks)
      before == FoldLeft(LAMBDA n, k : n + sizes[k], 0, [k \in 1 .. r - 1 |-> k])
  IN  SubSeq(packed, before + 1, before + sizes[r])
Branches(slice) == [x \in DOMAIN slice |-> x <= Len(SelectSeq(slice, IsGen))]
Gathered(packed, ranks) == Joined(LAMBDA r : Slice(packed, ranks, r), 1 .. ranks)

(* The output in the row's order, dummies apart.                           *)
Unpacked(entries, packed, dummies) ==
  LET inverse == InvPerm(Perm(entries))
  IN  Eager([i \in DOMAIN entries |-> packed[dummies + inverse[i]]])

(* The balance loss of a branch leaves out documents of nothing but pads.  *)
Balanced(slice, gen) ==
  LET own == SelectSeq(slice, LAMBDA e : e.gen = gen)
  IN  SelectSeq(own, LAMBDA e : \E x \in DOMAIN own : own[x].doc = e.doc /\ own[x].id # "pad")

(* Noise, time and target of each image to be generated, in order.         *)
ImageTargets(row) ==
  Joined(LAMBDA k : IF row.gen[k] THEN [p \in 1 .. Patches |-> [image |-> k, patch |-> p]] ELSE <<>>,
         DOMAIN row.gen)
Timed(entries, row, dummies) ==
  LET times == [x \in 1 .. dummies |-> None] \o ImageTargets(row)
      own == SelectSeq(entries, IsGen)
  IN  [x \in DOMAIN own |-> [at |-> own[x].at, time |-> times[dummies + x]]]

(* The image loss, token by token: what is predicted where, against which  *)
(* target, for which document.                                             *)
ImageLoss(entries, packed, row, dummies) ==
  LET before == SubSeq(packed, 1, dummies) \o Unpacked(entries, packed, dummies)
      states == SelectSeq(before, IsGen)
      targets == [x \in 1 .. dummies |-> None] \o ImageTargets(row)
      own == SelectSeq(entries, IsGen)
  IN  [x \in DOMAIN own |-> [state |-> states[dummies + x].at, target |-> targets[dummies + x],
                             sample |-> own[x].doc, type |-> row.types[own[x].at]]]

(* The pixel head decodes images one by one, the dummies as one of them.   *)
HeadImages(entries, packed, row, dummies) ==
  LET before == SubSeq(packed, 1, dummies) \o Unpacked(entries, packed, dummies)
      states == SelectSeq(before, IsGen)
      sizes == (IF dummies > 0 THEN <<dummies>> ELSE <<>>)
               \o [k \in DOMAIN SelectSeq(row.gen, LAMBDA g : g) |-> Patches]
  IN  [k \in DOMAIN sizes |->
         LET from == FoldLeft(LAMBDA n, j : n + sizes[j], 0, [j \in 1 .. k - 1 |-> j])
         IN  SubSeq(states, from + 1, from + sizes[k])]

Forward(row, spread, dummies) ==
  LET entries == Entries(row, spread)
  IN  [entries |-> entries, packed |-> Eager(Packed(entries, dummies)), dummies |-> dummies, row |-> row]

-----------------------------------------------------------------------------
(* Pixels: an image of gh by gw patches of p by p pixels, merged m by m.   *)
(* What an element of a flattened patch is, which patches an embedding     *)
(* reads, which pixel an element of a target is, and where the server      *)
(* draws it.                                                               *)
Channels == 3
PatchPixel(g, patch, c, i, j) ==
  [c |-> c, y |-> ((patch \div g.gw) * g.p) + i, x |-> ((patch % g.gw) * g.p) + j]
EmbeddingPixels(g, token) ==
  LET width == g.gw \div g.m
      Read(a, b) == (g.m * (token \div width) + a) * g.gw + (g.m * (token % width)) + b
  IN  {PatchPixel(g, Read(a, b), c, i, j) :
         a, b \in 0 .. g.m - 1, c \in 0 .. Channels - 1, i, j \in 0 .. g.p - 1}
TargetPixel(g, token, e) ==
  LET width == g.gw \div g.m
      side == g.m * g.p
      y == e \div (side * Channels)
      x == (e \div Channels) % side
      patch == ((token \div width) * g.m + (y \div g.p)) * g.gw + ((token % width) * g.m) + (x \div g.p)
  IN  PatchPixel(g, patch, e % Channels, y % g.p, x % g.p)
ServedPixel(g, token, e) ==
  LET width == g.gw \div g.m
      side == g.m * g.p
  IN  [c |-> e % Channels, y |-> ((token \div width) * side) + (e \div (side * Channels)),
       x |-> ((token % width) * side) + ((e \div Channels) % side)]

-----------------------------------------------------------------------------
(* The document a server would see: each generated image once, as it is    *)
(* understood, up to one that nothing follows.                             *)
Served(f, d) ==
  LET row == f.row
      start == Where(row.ids, "img")
      end == Where(row.ids, "/img")
      own == {i \in DOMAIN row.ids : row.cuts[d] < i /\ i <= row.cuts[d + 1]}
      Replaced(k) == IF k < Len(row.dup) /\ row.dup[k + 1] THEN (start[k] + 1 .. end[k]) \union {start[k + 1]}
                     ELSE {i \in own : i > start[k]}
      replaced == UNION {Replaced(k) : k \in {j \in DOMAIN start : row.gen[j] /\ start[j] \in own}}
  IN  SelectSeq([i \in DOMAIN row.ids |-> i], LAMBDA i : i \in own \ replaced)

Documents(f) == 1 .. Len(f.row.cuts) - (IF Last(f.row.ids) = "pad" THEN 2 ELSE 1)
KeysOf(masked, e) == {masked[x].at : x \in {y \in DOMAIN masked : Sees(e, masked[y])}}
Standing(e) == <<e.t, e.h, e.w>>

(* Every token of that document stands where it does when it is served and *)
(* sees the same tokens; every one that is supervised is among them, and   *)
(* its target is the next; and an image is denoised at the indexes and     *)
(* from the keys it has in a session.                                      *)
DocumentExact(f, masked, d) ==
  LET plain == Served(f, d)
      row == f.row
      prefill == Eager(Prefill([x \in DOMAIN plain |-> row.ids[plain[x]]]))
      First(n) == {plain[x] : x \in 1 .. n}
      start == Where(row.ids, "img")
  IN  /\ \A x \in DOMAIN plain :
           /\ Standing(f.entries[plain[x]]) = <<prefill[x].t, prefill[x].h, prefill[x].w>>
           /\ KeysOf(masked, f.entries[plain[x]]) = First(prefill[x].upto)
      /\ \A i \in row.cuts[d] + 1 .. row.cuts[d + 1] : row.targets[i] =>
           /\ row.weights[i] = d
           /\ \E x \in 1 .. Len(plain) - 1 : plain[x] = i /\ plain[x + 1] = i + 1
      /\ \A x \in DOMAIN plain, k \in DOMAIN start : start[k] = plain[x] /\ row.gen[k] =>
           LET own == {i \in DOMAIN row.ids : f.entries[i].gen /\ f.entries[i].image = k}
           IN  /\ {Standing(f.entries[i]) : i \in own} = ImageIndexes(prefill[x].t)
               /\ \A i \in own : KeysOf(masked, f.entries[i]) = First(x) \union own

(* A context token has its own image's embedding, noised if it is          *)
(* denoised, and its own patch; where the image is repeated both are of    *)
(* one image.                                                              *)
EmbeddingsExact(f) ==
  /\ \A i \in DOMAIN f.entries :
       LET e == f.entries[i]
           before == {j \in 1 .. i : f.row.ids[j] = "patch" /\ f.entries[j].image = e.image}
       IN  IF e.id = "patch"
           THEN /\ e.feature = [image |-> e.image, patch |-> Cardinality(before)]
                /\ e.noised = f.row.gen[e.image]
                /\ <<e.h, e.w>> = <<RowOf(e.feature.patch - 1), ColumnOf(e.feature.patch - 1)>>
           ELSE e.feature = None
  /\ \A k \in DOMAIN f.row.dup : f.row.dup[k] => f.row.images[k] = f.row.images[k - 1]

(* Each token that is denoised, and no other, is scored once, against its  *)
(* own target at its own time, for its own document and task.              *)
LossExact(f) ==
  LET loss == ImageLoss(f.entries, f.packed, f.row, f.dummies)
      times == Timed(f.entries, f.row, f.dummies)
      heads == HeadImages(f.entries, f.packed, f.row, f.dummies)
  IN  /\ {loss[x].state : x \in DOMAIN loss} = {i \in DOMAIN f.entries : f.entries[i].gen}
      /\ \A x \in DOMAIN loss :
           LET e == f.entries[loss[x].state]
           IN  /\ loss[x].target = e.feature /\ times[x] = [at |-> e.at, time |-> e.feature]
               /\ loss[x].sample \in Documents(f)
               /\ f.row.cuts[loss[x].sample] < e.at /\ e.at <= f.row.cuts[loss[x].sample + 1]
               /\ loss[x].type > 2
      /\ \A k \in DOMAIN heads, x, y \in 1 .. Patches :
           heads[k][x].at > 0 => {x, y} \subseteq DOMAIN heads[k] /\ heads[k][x].image = heads[k][y].image
      /\ \A i \in DOMAIN f.entries : Unpacked(f.entries, f.packed, f.dummies)[i].at = i

(* However the packed row is split, each token goes through the weights of *)
(* its branch and is counted for its balance, and padding is not.          *)
BranchesExact(f, ranks) ==
  /\ Gathered(f.packed, ranks) = f.packed
  /\ \A r \in 1 .. ranks :
       LET slice == Slice(f.packed, ranks, r)
       IN  /\ \A x \in DOMAIN slice : Branches(slice)[x] = slice[x].gen
           /\ \A gen \in BOOLEAN :
                Balanced(slice, gen) = SelectSeq(slice, LAMBDA e : e.gen = gen /\ e.id # "pad")

RowExact(f, ranks) ==
  LET masked == Eager(Masked(f.packed))
  IN  /\ \A d \in Documents(f) : DocumentExact(f, masked, d)
      /\ EmbeddingsExact(f) /\ LossExact(f)
      /\ BranchesExact(f, 1) /\ BranchesExact(f, ranks)

(* An element of a target is the pixel the server draws it at, and a token *)
(* is embedded from the pixels it is to predict.                           *)
PixelsExact(g) ==
  LET elements == 0 .. g.m * g.p * g.m * g.p * Channels - 1
  IN  \A token \in 0 .. (g.gh \div g.m) * (g.gw \div g.m) - 1 :
        /\ \A e \in elements : TargetPixel(g, token, e) = ServedPixel(g, token, e)
        /\ {TargetPixel(g, token, e) : e \in elements} = EmbeddingPixels(g, token)

=============================================================================
