----------------------------- MODULE ExpertGating -----------------------------
(***************************************************************************)
(* The gates of the GShard layers, in the language model                   *)
(* (sensenovalm/model/moe/gshard_layer.py) and in the vision tower         *)
(* (sensenovavl/model/vit_moe/gshard_layer.py): which experts a token      *)
(* chooses, which choices get a slot, and what the layer adds up for a     *)
(* token, by its two ways to move tokens into slots.                       *)
(* A gate g is a record: k choices of each of g.tokens tokens among        *)
(* g.experts, the gates and the noisy scores gate[t][e] and noisy[t][e]    *)
(* (the softmax and the logits plus noise, of which only the order and the *)
(* shares matter), the set of used tokens, the options of the layer and    *)
(* factor = <<a, b>>, the capacity factor a / b.                           *)
(* A choice <<i, t>> is the i-th expert of token t.                        *)
(***************************************************************************)
EXTENDS Integers, Sequences, FiniteSetsExt, SequencesExt

Tokens(g) == 1 .. g.tokens
Experts(g) == 1 .. g.experts

(* TopKGate.forward: the gating function that serves the layer.             *)
Gating(g) ==
  IF g.fused \/ g.k > 2 THEN "fused" ELSE IF g.k = 1 THEN "top1" ELSE "top2"

(* The first rank whose expert is chosen by the noisy scores: the second    *)
(* of two is always; the noise of a policy is for training only.            *)
NoisyFrom(g) ==
  LET policy == IF g.training THEN g.policy ELSE "None"
  IN  CASE Gating(g) = "top2" -> 2
        [] Gating(g) = "top1" /\ policy = "RSample" -> 1
        [] Gating(g) = "fused" /\ policy = "RSample" -> 2
        [] Gating(g) = "fused" /\ policy = "RSample_before" -> 1
        [] OTHER -> g.k + 1

(* Each rank takes the best expert the ranks before it left.                *)
Best(among, score) == CHOOSE e \in among : \A o \in among : score[e] >= score[o]
Route(g, t) ==
  LET expert[i \in 1 .. g.k] ==
        Best(Experts(g) \ {expert[j] : j \in 1 .. i - 1},
             IF i >= NoisyFrom(g) THEN g.noisy[t] ELSE g.gate[t])
  IN  expert

(* The vision gate strikes out the tokens that are not used, except where   *)
(* the fused one takes all its choices at once.                             *)
Masked(g) == g.vision /\ (Gating(g) # "fused" \/ NoisyFrom(g) <= g.k)

Chosen(g) == (1 .. g.k) \X (IF Masked(g) THEN g.used ELSE Tokens(g))
ExpertOf(g, c) == Route(g, c[2])[c[1]]
Of(g, choices, e) == {c \in choices : ExpertOf(g, c) = e}

(* _capacity, of k choices a token; a gate of one choice that must not drop *)
(* any takes the largest number of tokens an expert got on any rank.        *)
CeilDiv(a, b) == (a + b - 1) \div b
Capacity(g) ==
  IF Gating(g) = "top1" /\ ~g.drop
  THEN Max({Cardinality(Of(g, Chosen(g), e)) : e \in Experts(g)} \union {g.elsewhere})
  ELSE Max({CeilDiv(g.tokens * g.factor[1] * g.k, g.experts * g.factor[2]), g.min})

(* Random token selection keeps a capacity of each expert's choices,        *)
(* whichever; without it a gate of one choice leaves them to topk's ties.   *)
Picks(g) == Gating(g) = "top1" \/ (Gating(g) = "fused" /\ g.vision /\ g.rts)
Selections(g) ==
  IF ~Picks(g) THEN {Chosen(g)}
  ELSE {S \in SUBSET Chosen(g) : \A e \in Experts(g) :
          Cardinality(Of(g, S, e)) = Min({Capacity(g), Cardinality(Of(g, Chosen(g), e))})}

(* Raised otherwise: too few tokens, or topk of more rows than there are;   *)
(* the language model's fused gate has no noise, and only it rearranges.    *)
Accepts(g) ==
  /\ Gating(g) = "top1" => g.tokens >= g.min /\ Capacity(g) \in 1 .. g.tokens
  /\ Gating(g) = "fused" /\ Picks(g) => Capacity(g) <= g.k * g.tokens
  /\ g.rearrange => Gating(g) = "fused" /\ Capacity(g) <= g.tokens
  /\ ~g.vision => g.policy # "RSample_before" /\ (Gating(g) = "fused" => g.policy # "RSample")

(* Slots are counted off rank by rank: second choices after all first ones. *)
Earlier(a, b) == a[1] < b[1] \/ (a[1] = b[1] /\ a[2] < b[2])
Location(g, S, c) == Cardinality({b \in Of(g, S, ExpertOf(g, c)) : Earlier(b, c)})
Kept(g, S) == {c \in S : Location(g, S, c) < Capacity(g)}

(* The share of a token's output a choice makes up: a gate of one choice    *)
(* takes the probability as it is.                                          *)
Weight(g, kept, c) ==
  LET GateOf(b) == g.gate[b[2]][ExpertOf(g, b)]
      own == {b \in kept : b[2] = c[2]}
  IN  <<GateOf(c), IF Gating(g) = "top1" THEN 1 ELSE MapThenSumSet(GateOf, own)>>

(* combine_weights and dispatch_mask: its entries that are not zero.        *)
Combine(g, S) ==
  {[token |-> c[2], slot |-> <<ExpertOf(g, c), Location(g, S, c)>>,
    weight |-> Weight(g, Kept(g, S), c)] : c \in Kept(g, S)}

(* By products with them: a slot is the sum of the tokens dispatched to it. *)
Made(slot, tokens) == [expert |-> slot[1], input |-> tokens]
ByProduct(g, S, t) ==
  LET combine == Combine(g, S)
      Slot(s) == {x.token : x \in {y \in combine : y.slot = s}}
  IN  {<<x.weight, Made(x.slot, Slot(x.slot))>> : x \in {y \in combine : y.token = t}}

(* By indices: each expert selects its best ranked tokens, of equal ranks   *)
(* in the order topk gives them; a dropped choice reads any slot with a     *)
(* weight of zero.                                                          *)
Rankings(g, S, e) ==
  {q \in SetToSeqs(Of(g, Kept(g, S), e)) : \A i, j \in DOMAIN q : i < j => q[i][1] <= q[j][1]}
InOrder(q) == \A i, j \in DOMAIN q : i < j => Earlier(q[i], q[j])
ByIndex(g, S, rankings, t) ==
  {<<Weight(g, Kept(g, S), c),
     Made(<<ExpertOf(g, c), 0>>, {rankings[ExpertOf(g, c)][Location(g, S, c) + 1][2]})>> :
     c \in {b \in Kept(g, S) : b[2] = t}}

-----------------------------------------------------------------------------
(* Whatever is drawn, a token is added up from itself through the experts   *)
(* that kept it, in shares of one; no choice is dropped while its           *)
(* expert has slots, nor (unless at random) before a later one; both ways   *)
(* to move tokens agree when topk keeps equal ranks in order.               *)
Expected(g, S, t) ==
  {<<Weight(g, Kept(g, S), c), Made(<<ExpertOf(g, c), 0>>, {t})>> :
     c \in {b \in Kept(g, S) : b[2] = t}}

GateExact(g) ==
  \A S \in Selections(g) :
    LET kept == Kept(g, S) IN
    /\ \A t \in Tokens(g) :
         LET own == {c \in kept : c[2] = t}
             Whole(c) == Weight(g, kept, c)[2]
         IN  /\ ByProduct(g, S, t) = Expected(g, S, t)
             /\ Gating(g) # "top1" =>
                  \A c \in own : MapThenSumSet(LAMBDA b : Weight(g, kept, b)[1], own) = Whole(c)
    /\ \A e \in Experts(g) :
         Cardinality(Of(g, kept, e)) = Min({Capacity(g), Cardinality(Of(g, Chosen(g), e))})
    /\ ~Picks(g) => \A c \in kept, d \in Chosen(g) \ kept :
                      ExpertOf(g, c) = ExpertOf(g, d) => Earlier(c, d)
    /\ Gating(g) = "top1" /\ ~g.drop => kept = Chosen(g)
    /\ g.rearrange =>
         LET stable == [e \in Experts(g) |-> CHOOSE q \in Rankings(g, S, e) : InOrder(q)]
         IN  \A t \in Tokens(g) : ByIndex(g, S, stable, t) = ByProduct(g, S, t)
=============================================================================
