---------------------------- MODULE AttentionLayers ----------------------------
(***************************************************************************)
(* One decoder layer as it is trained and as it is served: which weights   *)
(* and norms a token goes through, how its heads are turned by its place,  *)
(* and which keys and values each head reads; of modules/mha.py,           *)
(* embedding.py and modeling_qwen3_moe_mot.py on one side and              *)
(* neo_unify/modeling_qwen3.py on the other.  A vector is a sequence of    *)
(* terms that name what its elements are computed from.                    *)
(***************************************************************************)
EXTENDS TrainingForward

CONSTANTS HeadDim, QueryHeads, KvHeads,   \* of the attention; HeadDim is a multiple of eight
          ThetaT, ThetaHw,           \* bases of the rotations in time and in the plane
          MaxPosition                \* places the server has prepared

-----------------------------------------------------------------------------
(* Rotations: frequencies are a base and an exponent in 1/HeadDim.         *)
EverySecond(s) == [j \in 1 .. (Len(s) + 1) \div 2 |-> s[2 * j - 1]]
DefaultFrequencies(dim, base) ==
  [j \in 1 .. dim \div 2 |-> <<base, 2 * (j - 1) * (HeadDim \div dim)>>]

(* Both sides keep the range of frequencies of a head twice as wide.       *)
TrainedFrequencies(dim, base) ==
  EverySecond([j \in 1 .. dim |-> <<base, 2 * (j - 1) * (HeadDim \div (2 * dim))>>])
ServedFrequencies(dim, base) == EverySecond(DefaultFrequencies(2 * dim, base))

(* The training table grows to the largest place it meets; one table turns *)
(* rows and columns.  The server looks places up in a table it prepared.   *)
Grown(length, places) == Max({length} \union {p + 1 : p \in places})
Table(freqs, length) == [p \in 0 .. length - 1 |-> [j \in DOMAIN freqs |-> <<p, freqs[j]>>]]

(* Coefficients of an element of a rotation in the elements it reads;      *)
(* "conj" is the way back of the gradients.                                *)
TrainedRotation(width, conj) ==
  LET half == width \div 2
  IN  [o, i \in 1 .. width |->
         IF o = i THEN "cos"
         ELSE IF i = o + half THEN (IF conj THEN "sin" ELSE "-sin")
         ELSE IF o = i + half THEN (IF conj THEN "-sin" ELSE "sin") ELSE "0"]

(* x cos + rotate_half(x) sin, where rotate_half is <<-x2, x1>>.           *)
RotateHalf(width) ==
  [o \in 1 .. width |-> IF o <= width \div 2 THEN <<"-sin", o + (width \div 2)>>
                        ELSE <<"sin", o - (width \div 2)>>]
ServedRotation(width) ==
  [o, i \in 1 .. width |-> IF o = i THEN "cos"
                           ELSE IF RotateHalf(width)[o][2] = i THEN RotateHalf(width)[o][1] ELSE "0"]

(* A rotation by the angles of place zero leaves its vector alone.         *)
Left(x) == {<<"1", x, <<0, <<0, 0>>>>>>}
Turned(v, rotation, angles) ==
  [o \in DOMAIN v |->
     LET angle == angles[((o - 1) % Len(angles)) + 1]
     IN  IF angle[1] = 0 THEN Left(v[o])
         ELSE {<<rotation[o, i], v[i], angle>> : i \in {j \in DOMAIN v : rotation[o, j] # "0"}}]

-----------------------------------------------------------------------------
(* What both sides do to one token with the weights of a branch: its input *)
(* norm, a projection into heads, a norm over half of a head.              *)
Projection(e, weight, gen, heads) ==
  [h \in 1 .. heads |-> [d \in 1 .. HeadDim |->
     [of |-> e.at, weight |-> weight, gen |-> gen, place |-> (h - 1) * HeadDim + d]]]
Chunk(v, k, n) == SubSeq(v, (k - 1) * (Len(v) \div n) + 1, k * (Len(v) \div n))
Normed(v, norm, gen) == [d \in DOMAIN v |-> <<v[d], norm, gen, d>>]

(* Time turns the first half of a head, row and column a quarter each.     *)
Positioned(v, name, gen, rotation, t, h, w) ==
  LET time == Normed(Chunk(v, 1, 2), name \o "_norm", gen)
      plane == Normed(Chunk(v, 2, 2), name \o "_norm_hw", gen)
  IN  Turned(time, rotation[HeadDim \div 2], t)
      \o Turned(Chunk(plane, 1, 2), rotation[HeadDim \div 4], h)
      \o Turned(Chunk(plane, 2, 2), rotation[HeadDim \div 4], w)

Rotations(Rotation(_)) == [width \in {HeadDim \div 2, HeadDim \div 4} |-> Rotation(width)]

(* Each group of query heads reads one head of keys and values.            *)
Repeated(kv, n) == [h \in 1 .. Len(kv) * n |-> kv[((h - 1) \div n) + 1]]
Context(q, keys, values, seen, h) ==
  LET n == Len(q) \div Len(keys[1])
  IN  [query |-> q[h], width |-> Len(q[h]),
       pairs |-> {<<Repeated(keys[y], n)[h], Repeated(values[y], n)[h]>> : y \in seen}]

(* Of a layer: the norm before attention, its output weights, the norm and *)
(* the network after it, and the last norm of the model, all of one branch. *)
Outcome(gen, contexts) ==
  [attention_norm |-> gen, contexts |-> contexts, wo |-> gen, ffn_norm |-> gen,
   feed_forward |-> gen, norm |-> gen]

-----------------------------------------------------------------------------
(* Training: on each rank the tokens to be denoised come first.            *)
TrainedStates(slice) ==
  LET own == Branches(slice)
      T == TrainedFrequencies(HeadDim \div 2, ThetaT)
      HW == TrainedFrequencies(HeadDim \div 4, ThetaHw)
      Places(F(_)) == {F(slice[x]) : x \in DOMAIN slice}
      rows == Grown(0, Places(LAMBDA e : e.h))
      t == Table(T, Grown(0, Places(LAMBDA e : e.t)))
      h == Table(HW, rows)
      w == Table(HW, Grown(rows, Places(LAMBDA e : e.w)))
      rotation == Rotations(LAMBDA width : TrainedRotation(width, FALSE))
      Placed(x, name, heads) ==
        LET e == slice[x]
            v == Projection(e, "w" \o name, own[x], heads)
        IN  [g \in 1 .. heads |-> Positioned(v[g], name, own[x], rotation, t[e.t], h[e.h], w[e.w])]
  IN  Eager([x \in DOMAIN slice |->
        [q |-> Placed(x, "q", QueryHeads), k |-> Placed(x, "k", KvHeads),
         v |-> Projection(slice[x], "wv", own[x], KvHeads)]])

(* The all-to-all of the sequence parallel ranks: rank r gives each other  *)
(* its share of one dimension and joins their shares of the other.         *)
ScatterHeads(shards, r) ==
  Joined(LAMBDA s : [x \in DOMAIN shards[s] |-> Slice(shards[s][x], Len(shards), r)], DOMAIN shards)
ScatterTokens(contexts, r) ==
  LET own == [s \in DOMAIN contexts |-> Slice(contexts[s], Len(contexts), r)]
  IN  [x \in DOMAIN own[1] |-> Joined(LAMBDA s : own[s][x], DOMAIN own)]

(* Padded to whole blocks of the mask, attended, and cut again.            *)
Attended(masked, q, k, v) ==
  LET pad == Len(masked) - Len(q)
      Zeros(s) == [x \in 1 .. pad |-> s[1]]
      queries == q \o Zeros(q)
      keys == k \o Zeros(k)
      values == v \o Zeros(v)
      context == [x \in DOMAIN masked |->
                    [h \in DOMAIN queries[x] |->
                       Context(queries[x], keys, values, {y \in DOMAIN masked : Sees(masked[x], masked[y])}, h)]]
  IN  Eager(SubSeq(context, 1, Len(masked) - pad))

TrainedLayer(f, ranks) ==
  LET shards == [r \in 1 .. ranks |-> Slice(f.packed, ranks, r)]
      states == Eager([r \in 1 .. ranks |-> TrainedStates(shards[r])])
      Part(F(_)) == [r \in 1 .. ranks |-> [x \in DOMAIN states[r] |-> F(states[r][x])]]
      q == Part(LAMBDA s : s.q)
      k == Part(LAMBDA s : s.k)
      v == Part(LAMBDA s : s.v)
      masked == Eager(Masked(f.packed))
      contexts == Eager([r \in 1 .. ranks |->
                    Attended(masked, ScatterHeads(q, r), ScatterHeads(k, r), ScatterHeads(v, r))])
      own(r) == ScatterTokens(contexts, r)
  IN  Eager(Joined(LAMBDA r : [x \in DOMAIN shards[r] |-> Outcome(Branches(shards[r])[x], own(r)[x])],
                   1 .. ranks))

-----------------------------------------------------------------------------
(* Serving: a call is of one branch.  A call of a single text token leaves *)
(* the plane unturned.                                                     *)
ServedStates(tokens, gen, single) ==
  LET T == Table(ServedFrequencies(HeadDim \div 2, ThetaT), MaxPosition)
      HW == Table(ServedFrequencies(HeadDim \div 4, ThetaHw), MaxPosition)
      rotation == Rotations(ServedRotation)
      Placed(e, name, heads) ==
        LET v == Projection(e, "w" \o name, gen, heads)
            Plane(p) == HW[IF single THEN 0 ELSE p]
        IN  [g \in 1 .. heads |-> Positioned(v[g], name, gen, rotation, T[e.t], Plane(e.h), Plane(e.w))]
  IN  Eager([x \in DOMAIN tokens |->
        [q |-> Placed(tokens[x], "q", QueryHeads), k |-> Placed(tokens[x], "k", KvHeads),
         v |-> Projection(tokens[x], "wv", gen, KvHeads)]])

(* Buffers of a fixed size, of which the tokens up to a length are read.   *)
Written(buffer, length, new) ==
  [y \in DOMAIN buffer |-> IF y \in length + 1 .. length + Len(new) THEN new[y - length] ELSE buffer[y]]
Buffer(cache, new, stale) == Written(cache \o stale, Len(cache), new)

Answered(states, keys, gen, Seen(_)) ==
  [x \in DOMAIN states |->
     Outcome(gen, [h \in 1 .. QueryHeads |->
       Context(states[x].q, [y \in DOMAIN keys |-> keys[y].k], [y \in DOMAIN keys |-> keys[y].v], Seen(x), h)])]

(* A prompt under its dense mask fills the cache.                          *)
PrefillCall(tokens, mask) ==
  LET states == ServedStates(tokens, FALSE, FALSE)
  IN  [out |-> Answered(states, states, FALSE, LAMBDA x : 1 .. mask[x]), cache |-> states]

(* A text token without a mask: the kernel of the decode buffers appends   *)
(* it and reads up to it; without them it is joined to the cache.          *)
DecodeCall(token, cache, flash, stale) ==
  LET new == ServedStates(<<token>>, FALSE, TRUE)
      keys == IF flash THEN Buffer(cache, new, stale) ELSE cache \o new
      read == IF flash THEN 1 .. Len(cache) + 1 ELSE DOMAIN keys
  IN  [out |-> Answered(new, keys, FALSE, LAMBDA x : read)[1], cache |-> SubSeq(keys, 1, Len(cache) + 1)]

(* Known text without a mask, under the kernel: causal to the lower right. *)
SpanCall(tokens, cache) ==
  LET new == ServedStates(tokens, FALSE, FALSE)
      keys == cache \o new
  IN  [out |-> Answered(new, keys, FALSE, LAMBDA x : 1 .. Len(keys) - Len(tokens) + x), cache |-> keys]

(* The patches of an image being denoised read the prompt and each other;  *)
(* the buffer still holds what the step before wrote there.                *)
DenoiseCall(tokens, cache, prepared, stale) ==
  LET new == ServedStates(tokens, TRUE, FALSE)
      keys == IF prepared THEN SubSeq(Buffer(cache, new, stale), 1, Len(cache) + Len(new)) ELSE cache \o new
  IN  Answered(new, keys, TRUE, LAMBDA x : DOMAIN keys)

(* What a forward of the model does with its tokens' indicators: the branch *)
(* of the call, or none where both meet.                                   *)
CallBranch(indicators) ==
  LET und == \E x \in DOMAIN indicators : ~indicators[x]
      gen == \E x \in DOMAIN indicators : indicators[x]
  IN  IF und /\ ~gen THEN "und" ELSE IF gen /\ ~und THEN "gen" ELSE "refused"

-----------------------------------------------------------------------------
(* Serving a document by any of these calls gives each of its tokens what  *)
(* it is trained with: the same query, keys, values and weights; the cache *)
(* a call leaves is the one of the whole prompt; and each call is of one   *)
(* branch.                                                                 *)
CallsServe(f, trained, plain, prefill, tokens, whole) ==
  LET cache == Eager(whole.cache)
      Trained(at) == trained[CHOOSE y \in DOMAIN f.packed : f.packed[y].at = at]
      stale == ServedStates([x \in 1 .. Patches + 2 |-> [at |-> 0, t |-> 1, h |-> 0, w |-> 0]], TRUE, FALSE)
      Text(x) == prefill[x].token # "patch"
      After(x) == x > 1 /\ \A y \in 1 .. x - 1 : prefill[y].upto < x
      start == Where(f.row.ids, "img")
  IN  /\ \A x \in DOMAIN tokens : whole.out[x] = Trained(tokens[x].at)
      /\ \A x \in DOMAIN tokens : Text(x) /\ prefill[x].upto = x /\ After(x) =>
           /\ \A flash \in BOOLEAN :
                LET call == DecodeCall(tokens[x], SubSeq(cache, 1, x - 1), flash, stale)
                IN  call.out = whole.out[x] /\ call.cache = SubSeq(cache, 1, x)
           /\ \A y \in x .. Len(tokens) : (\A z \in x .. y : Text(z) /\ prefill[z].upto = z) =>
                LET call == SpanCall(SubSeq(tokens, x, y), SubSeq(cache, 1, x - 1))
                IN  /\ call.cache = SubSeq(cache, 1, y)
                    /\ \A z \in x .. y : call.out[z - x + 1] = whole.out[z]
      /\ \A k \in DOMAIN start, x \in DOMAIN plain : f.row.gen[k] /\ start[k] = plain[x] =>
           LET block == SelectSeq(f.entries, LAMBDA e : e.gen /\ e.image = k)
               indicators == [i \in DOMAIN block |-> block[i].gen]
           IN  /\ CallBranch(indicators) = "gen"
               /\ \A prepared \in BOOLEAN :
                    LET out == DenoiseCall(block, SubSeq(cache, 1, x), prepared, stale)
                    IN  \A i \in DOMAIN block : out[i] = Trained(block[i].at)

ContextServed(f, trained, plain, prefill, tokens) ==
  CallsServe(f, trained, plain, prefill, tokens,
             PrefillCall(tokens, [x \in DOMAIN prefill |-> prefill[x].upto]))
PlacesServed(f, trained, plain, prefill) ==
  ContextServed(f, trained, plain, prefill,
    Eager([x \in DOMAIN plain |-> [at |-> plain[x], t |-> prefill[x].t, h |-> prefill[x].h, w |-> prefill[x].w]]))
DocumentServed(f, trained, d) ==
  LET plain == Served(f, d)
  IN  PlacesServed(f, trained, plain, Eager(Prefill([x \in DOMAIN plain |-> f.row.ids[plain[x]]])))

AllServed(f, trained) == \A d \in Documents(f) : DocumentServed(f, trained, d)
LayerExact(f, ranks) == AllServed(f, TrainedLayer(f, ranks))

(* Gradients go back through a rotation by its transpose, and both sides   *)
(* turn by the same angles.                                                *)
RotationsAgree ==
  /\ \A width \in {HeadDim \div 2, HeadDim \div 4} :
       /\ TrainedRotation(width, FALSE) = ServedRotation(width)
       /\ \A o, i \in 1 .. width : TrainedRotation(width, TRUE)[o, i] = TrainedRotation(width, FALSE)[i, o]
  /\ TrainedFrequencies(HeadDim \div 2, ThetaT) = ServedFrequencies(HeadDim \div 2, ThetaT)
  /\ TrainedFrequencies(HeadDim \div 4, ThetaHw) = ServedFrequencies(HeadDim \div 4, ThetaHw)

=============================================================================
