------------------------------- MODULE KvCache -------------------------------
(***************************************************************************)
(* The key/value cache of one sequence, as the interleaved sessions grow   *)
(* it: the positions and the mask under which each token entered, of       *)
(* models/neo_unify/modeling_neo_chat.py and modeling_qwen3.py.  A key is  *)
(* what its token, position and mask make it, so two caches with equal     *)
(* entries hold equal keys.                                                *)
(***************************************************************************)
EXTENDS Naturals, FiniteSets, SequencesExt

CONSTANTS Rows, Columns    \* grid of image tokens

ASSUME GridAssumption == {Rows, Columns} \subseteq Nat \ {0}

Patches == Rows * Columns
Tokens == {"word", "eos", "img", "patch", "/img"}

(* t, h and w are the rotary positions; the token attended to the entries  *)
(* 1 .. upto.                                                              *)
Entry(token, t, h, w, upto) == [token |-> token, t |-> t, h |-> h, w |-> w, upto |-> upto]

TokensOf(cache) == [i \in DOMAIN cache |-> cache[i].token]

Image == <<"img">> \o [i \in 1 .. Patches |-> "patch"] \o <<"/img">>

(* Row and column of the k-th patch, counted from zero.                    *)
RowOf(k) == k \div Columns
ColumnOf(k) == k % Columns

(* A whole prompt: a token after <img> shares its index with the patches   *)
(* that follow it, and the tokens of one index see each other.             *)
TIndex(ids, i) ==
  Cardinality({j \in 1 .. i : ids[j] # "patch"})
    + Cardinality({j \in 1 .. i - 1 : ids[j] = "img"}) - 1

BlockCausal(ids, i) ==
  CHOOSE j \in i .. Len(ids) :
    /\ TIndex(ids, j) = TIndex(ids, i)
    /\ \A k \in j + 1 .. Len(ids) : TIndex(ids, k) # TIndex(ids, i)

Prefill(ids) ==
  [i \in DOMAIN ids |->
     LET k == Cardinality({j \in 1 .. i - 1 : ids[j] = "patch"}) % Patches
         patch == ids[i] = "patch"
     IN  Entry(ids[i], TIndex(ids, i), IF patch THEN RowOf(k) ELSE 0,
               IF patch THEN ColumnOf(k) ELSE 0, BlockCausal(ids, i))]

(* One decoded token: current_index is set to the last index, the forward  *)
(* counts it up, and the newest token sees the whole cache.                *)
Decoded(cache, t, token) == Append(cache, Entry(token, t + 1, 0, 0, Len(cache) + 1))

(* Known text, appended under an explicit causal mask.                     *)
TextAppended(cache, t, ids) ==
  cache \o [i \in DOMAIN ids |-> Entry(ids[i], t + i, 0, 0, Len(cache) + i)]

(* A finished image and its end token; the patches see each other and not  *)
(* the end.                                                                *)
ImageAppended(cache, t) ==
  cache \o [i \in 1 .. Patches |->
              Entry("patch", t + 1, RowOf(i - 1), ColumnOf(i - 1), Len(cache) + Patches)]
        \o <<Entry("/img", t + 2, 0, 0, Len(cache) + Patches + 1)>>

(* The patches being denoised: where they stand and which keys they read   *)
(* besides each other.                                                     *)
ImageIndexes(t) == {<<t + 1, RowOf(k), ColumnOf(k)>> : k \in 0 .. Patches - 1}

=============================================================================
