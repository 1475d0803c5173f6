---------------------------- MODULE ExpertDispatch ----------------------------
(***************************************************************************)
(* Mixture-of-experts layers over a group of expert-parallel ranks: the    *)
(* dropless layer (sensenovalm/model/moe/dropless_layer_qwen.py), by       *)
(* all-to-all and by all-gather, and the capacity slots of GShard          *)
(* (sensenovavl/model/vit_moe/gshard_layer.py).  A layer m is a record:    *)
(* ep ranks of m.local experts, top choices of a token, and route[r][t],   *)
(* the experts of token t of rank r, best first.  What travels is the      *)
(* embedding of a token, then what an expert made of it.                   *)
(***************************************************************************)
EXTENDS Integers, FiniteSets, Sequences, SequencesExt

Ranks(m) == 1 .. m.ep
Experts(m) == 1 .. m.ep * m.local
Tokens(m) == 1 .. Len(m.route[1])
ExpertAt(m, d, l) == (d - 1) * m.local + l
Total(sizes) == FoldSeq(+, 0, sizes)
Concat(n, Part(_)) == FlattenSeq([i \in 1 .. n |-> Part(i)])

(* torch.split *)
Split(x, sizes) ==
  LET start(i) == Total(SubSeq(sizes, 1, i - 1))
  IN  [i \in DOMAIN sizes |-> SubSeq(x, start(i) + 1, start(i) + sizes[i])]

(* Rank d receives the d-th piece of every rank, in rank order. *)
AllToAll(x, splits) ==
  [d \in DOMAIN x |-> Concat(Len(x), LAMBDA s : Split(x[s], splits[s])[d])]

(* Experts.forward: local expert l takes the l-th part. *)
Applied(m, d, x, sizes) ==
  Concat(m.local, LAMBDA l :
    [i \in 1 .. sizes[l] |-> [token |-> Split(x, sizes)[l][i], expert |-> ExpertAt(m, d, l)]])

-----------------------------------------------------------------------------
(* Choices in the order of their flattened indices; m.kept[r] are those     *)
(* that capacity did not drop.                                              *)

Positions(m) == 1 .. Len(m.route[1]) * m.top
TokenOf(m, p) == (p - 1) \div m.top + 1
ExpertOf(m, r, p) == m.route[r][TokenOf(m, p)][((p - 1) % m.top) + 1]

(* Dropped choices carry the largest index, and the sort is stable. *)
Sorted(m, r) ==
  LET Index(p) == IF p \in m.kept[r] THEN ExpertOf(m, r, p) ELSE Cardinality(Experts(m)) + 1
      order == SetToSortSeq(Positions(m), LAMBDA a, b :
                 Index(a) < Index(b) \/ (Index(a) = Index(b) /\ a < b))
  IN  SubSeq(order, 1, Cardinality(m.kept[r]))

Count(m, r, e) == Cardinality({p \in m.kept[r] : ExpertOf(m, r, p) = e})

(* What every rank sends each expert: the capacity, when padded. *)
Load(m, r, e) == IF m.pad = <<>> THEN Count(m, r, e) ELSE Len(m.pad[1][1])

(* permute: the tokens an input of the all-to-all carries, expert by expert. *)
Permuted(m, r) ==
  IF m.pad = <<>> THEN [i \in DOMAIN Sorted(m, r) |-> <<r, TokenOf(m, Sorted(m, r)[i])>>]
  ELSE LET flat == FlattenSeq(m.pad[r]) IN [i \in DOMAIN flat |-> <<r, flat[i]>>]

LoadOf(m, r, d) == [l \in 1 .. m.local |-> Load(m, r, ExpertAt(m, d, l))]
InputSplits(m) == [r \in Ranks(m) |-> [d \in Ranks(m) |-> Total(LoadOf(m, r, d))]]
OutputSplits(m) == [d \in Ranks(m) |-> [s \in Ranks(m) |-> Total(LoadOf(m, s, d))]]

(* Chunks arrive by source rank, then expert; experts want the reverse. *)
SortByExpert(m) ==
  Concat(m.local, LAMBDA l : [s \in Ranks(m) |-> (s - 1) * m.local + l])

\* Mutant: the outputs are put back in the order the inputs were sorted by.
RestoreAsSorted(m) == SortByExpert(m)

RestoreByRank(m) ==
  Concat(m.ep, LAMBDA s : [l \in 1 .. m.local |-> (l - 1) * m.ep + s])

SortChunks(x, sizes, order) == Concat(Len(order), LAMBDA i : Split(x, sizes)[order[i]])

(* The experts of rank d, from and to the order of its all-to-all. *)
ByExpert(m, d, x) ==
  LET arrived == Concat(m.ep, LAMBDA s : LoadOf(m, s, d))
      grouped == Concat(m.local, LAMBDA l : [s \in Ranks(m) |-> Load(m, s, ExpertAt(m, d, l))])
      sizes == [l \in 1 .. m.local |-> Total([s \in Ranks(m) |-> Load(m, s, ExpertAt(m, d, l))])]
  IN  SortChunks(Applied(m, d, SortChunks(x, arrived, SortByExpert(m)), sizes),
                 grouped, RestoreByRank(m))

(* What each rank's choices come back with, in the order they were sent. *)
Returned(m) ==
  LET received == AllToAll([r \in Ranks(m) |-> Permuted(m, r)], InputSplits(m))
      made == [d \in Ranks(m) |-> ByExpert(m, d, received[d])]
  IN  AllToAll(made, OutputSplits(m))

(* unpermute of what came back, each result with the expert whose weight    *)
(* multiplies it; what is not a token's own choice has weight zero.         *)
Output(m, back, r, t) ==
  LET flat == FlattenSeq(m.pad[r])
      At(i) == (i - 1) \div Load(m, r, 1) + 1
  IN  IF m.pad = <<>>
      THEN {<<back[i], ExpertOf(m, r, Sorted(m, r)[i])>> :
              i \in {j \in DOMAIN back : TokenOf(m, Sorted(m, r)[j]) = t}}
      ELSE {<<back[i], At(i)>> :
              i \in {j \in DOMAIN back : flat[j] = t /\ At(j) \in ToSet(m.route[r][t])}}

-----------------------------------------------------------------------------
(* By all-gather: every rank sees all choices and serves those of its own   *)
(* experts; the shares of a token are added up by the reduce-scatter.       *)

Gathered(m) ==
  Concat(m.ep, LAMBDA r : [p \in Positions(m) |-> [token |-> <<r, TokenOf(m, p)>>,
                                                 expert |-> ExpertOf(m, r, p)]])

Share(m, d) ==
  LET own == SelectSeq(Gathered(m), LAMBDA c : c.expert \in {ExpertAt(m, d, l) : l \in 1 .. m.local})
      order == SetToSortSeq(DOMAIN own, LAMBDA a, b :
                 own[a].expert < own[b].expert \/ (own[a].expert = own[b].expert /\ a < b))
      sizes == [l \in 1 .. m.local |->
                  Cardinality({i \in DOMAIN own : own[i].expert = ExpertAt(m, d, l)})]
      made == Applied(m, d, [i \in DOMAIN order |-> own[order[i]].token], sizes)
  IN  {[to |-> own[order[i]].token, part |-> <<made[i], own[order[i]].expert>>] : i \in DOMAIN order}

Shares(m) == UNION {Share(m, d) : d \in Ranks(m)}
Summed(shares, r, t) == {s.part : s \in {x \in shares : x.to = <<r, t>>}}

(* A server holds all experts and adds what each makes of the tokens that   *)
(* chose it to what they have.                                              *)
ServedExperts(m, r, t) ==
  LET Mask(e) == {c \in (1 .. m.top) \X Tokens(m) : m.route[r][c[2]][c[1]] = e}
  IN  UNION {{<<[token |-> <<r, c[2]>>, expert |-> e], m.route[r][c[2]][c[1]]>> :
               c \in {b \in Mask(e) : b[2] = t}} : e \in Experts(m)}

-----------------------------------------------------------------------------
(* GShard: an expert has a slot for each of m.capacity choices of a rank,   *)
(* first choices of all tokens before second ones.  m.kept[r] are the       *)
(* choices <<k, t>> left by the mask of used tokens and random selection.   *)

Earlier(a, b) == a[1] < b[1] \/ (a[1] = b[1] /\ a[2] < b[2])
ChoiceExpert(m, r, c) == m.route[r][c[2]][c[1]]

Location(m, r, c) ==
  Cardinality({b \in m.kept[r] : ChoiceExpert(m, r, b) = ChoiceExpert(m, r, c) /\ Earlier(b, c)})

Slotted(m, r) == {c \in m.kept[r] : Location(m, r, c) < m.capacity}

(* The tokens whose sum a slot is, slots in expert order. *)
Slots(m, r) ==
  [i \in 1 .. Cardinality(Experts(m)) * m.capacity |->
     {<<r, c[2]>> : c \in {b \in Slotted(m, r) :
        (ChoiceExpert(m, r, b) - 1) * m.capacity + Location(m, r, b) + 1 = i}}]

(* The slots of a rank, expert by expert and source by source. *)
SlotExperts(m, d, x) ==
  [i \in DOMAIN x |-> [token |-> x[i],
                       expert |-> ExpertAt(m, d, (((i - 1) \div m.capacity) % m.local) + 1)]]

EqualSplits(m) == [r \in Ranks(m) |-> [d \in Ranks(m) |-> m.local * m.capacity]]

SlotsBack(m) ==
  LET received == AllToAll([s \in Ranks(m) |-> Slots(m, s)], EqualSplits(m))
  IN  AllToAll([d \in Ranks(m) |-> SlotExperts(m, d, received[d])], EqualSplits(m))

Combined(m, back, r, t) ==
  LET SlotOf(c) == back[(ChoiceExpert(m, r, c) - 1) * m.capacity + Location(m, r, c) + 1]
  IN  {<<SlotOf(c), ChoiceExpert(m, r, c)>> : c \in {b \in Slotted(m, r) : b[2] = t}}

-----------------------------------------------------------------------------
(* Every token comes back from exactly the experts it chose and was not     *)
(* dropped at, each time itself and under the weight of that expert; where  *)
(* nothing is dropped, as when it is served.                                *)

Own(token, experts) == {<<[token |-> token, expert |-> e], e>> : e \in experts}

Kept(m, r, t) == {ExpertOf(m, r, p) : p \in {q \in m.kept[r] : TokenOf(m, q) = t}}

PaddedKept(m, r, t) ==
  {e \in Experts(m) : e \in ToSet(m.route[r][t]) /\ t \in ToSet(m.pad[r][e])}

Dropless(m) ==
  LET back == Returned(m)
      shares == Shares(m)
  IN  \A r \in Ranks(m), t \in Tokens(m) :
        /\ Output(m, back[r], r, t) =
             Own(<<r, t>>, IF m.pad = <<>> THEN Kept(m, r, t) ELSE PaddedKept(m, r, t))
        /\ m.pad = <<>> /\ m.kept[r] = Positions(m) =>
             /\ Summed(shares, r, t) = Output(m, back[r], r, t)
             /\ ServedExperts(m, r, t) = Output(m, back[r], r, t)

(* The slots of an expert are used up before a choice is dropped. *)
InSlots(m) ==
  LET back == SlotsBack(m) IN
  \A r \in Ranks(m) :
    /\ \A e \in Experts(m) :
         LET Of(choices) == Cardinality({c \in choices : ChoiceExpert(m, r, c) = e})
         IN  Of(Slotted(m, r)) = IF Of(m.kept[r]) < m.capacity THEN Of(m.kept[r]) ELSE m.capacity
    /\ \A t \in Tokens(m) :
         Combined(m, back[r], r, t) =
           Own({<<r, t>>}, {ChoiceExpert(m, r, c) : c \in {b \in Slotted(m, r) : b[2] = t}})
=============================================================================
