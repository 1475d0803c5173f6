------------------------------ MODULE TokenPacks ------------------------------
(***************************************************************************)
(* Packed rows of tokens (sensenovalm/data/tokenized): the samples of a    *)
(* .bin file that are long enough, in shuffled order, cut into rows of     *)
(* d.packed tokens in three ways, their collation, and the rows that are   *)
(* unpacked again.                                                         *)
(*                                                                         *)
(* A token is the pair of its sample and its position there.               *)
(***************************************************************************)
EXTENDS Integers, FiniteSets, SequencesExt

Joined(s) == FoldLeft(LAMBDA a, b : a \o b, <<>>, s)
Total(s) == FoldLeft(LAMBDA a, b : a + b, 0, s)
Least(a, b) == IF a < b THEN a ELSE b
Count(n, x) == [i \in 1 .. n |-> x]
From0(n) == [i \in 1 .. n |-> i - 1]

Ignored == <<0, 0>>
Sample(d, s) == [i \in 1 .. d.lengths[s] |-> <<s, i>>]

-----------------------------------------------------------------------------
(* The samples of a file: those shorter than the minimum are left out.      *)

Offsets(lengths, min) == SelectSeq([i \in DOMAIN lengths |-> i], LAMBDA i : lengths[i] >= min)
Kept(lengths, min) == SelectSeq(lengths, LAMBDA n : n >= min)

Shuffled(d) == [i \in DOMAIN d.order |-> d.lengths[d.order[i]]]
Upto(d, i) == Total(SubSeq(Shuffled(d), 1, i))
NumTokens(d) == Total(d.lengths)
Packs(d) == NumTokens(d) \div d.packed

Found(d, P(_)) == Cardinality({i \in DOMAIN d.order : P(Upto(d, i))})

-----------------------------------------------------------------------------
(* A row under construction.                                                *)

Empty == [tokens |-> <<>>, labels |-> <<>>, cu |-> <<0>>, indexes |-> <<>>]

\* A label is the next token; the last of a chunk has none.
Shifted(chunk) == Append(Tail(chunk), Ignored)

Cuts(n, max) == Count(n \div max, max) \o (IF n % max > 0 THEN <<n % max>> ELSE <<>>)

Extend(pack, chunk, labels, cuts) ==
  [tokens |-> pack.tokens \o chunk, labels |-> pack.labels \o labels,
   cu |-> FoldLeft(LAMBDA cu, n : Append(cu, cu[Len(cu)] + n), pack.cu, cuts),
   indexes |-> pack.indexes \o Joined([k \in DOMAIN cuts |-> From0(cuts[k])])]

Padded(d, pack, indexes(_)) ==
  LET rest == d.packed - pack.cu[Len(pack.cu)] IN
  IF rest = 0 THEN pack
  ELSE [tokens |-> pack.tokens \o Count(rest, Ignored), labels |-> pack.labels \o Count(rest, Ignored),
        cu |-> Append(pack.cu, d.packed), indexes |-> pack.indexes \o indexes(rest)]

-----------------------------------------------------------------------------
(* All samples as one stream: PackedDatasetWithoutCuSeqlen.                 *)

FindOffset(d, offset) ==
  LET i == Found(d, LAMBDA end : end <= offset) IN <<i, offset - Upto(d, i)>>

OneItem(d, item) ==
  LET start == FindOffset(d, item * d.packed)
      end == FindOffset(d, (item + 1) * d.packed)
      At(i) == Sample(d, d.order[i + 1])
      pieces == IF start[1] = end[1]
                THEN <<SubSeq(At(start[1]), start[2] + 1, end[2])>>
                ELSE <<SubSeq(At(start[1]), start[2] + 1, Len(At(start[1])))>>
                       \o [k \in 1 .. end[1] - start[1] - 1 |-> At(start[1] + k)]
                       \o (IF end[2] = 0 THEN <<>> ELSE <<SubSeq(At(end[1]), 1, end[2])>>)
      rows == d.packed \div d.max
  IN  [tokens |-> Joined(pieces), labels |-> Joined([k \in DOMAIN pieces |-> Shifted(pieces[k])]),
       cu |-> [i \in 1 .. rows + 1 |-> (i - 1) * d.max],
       indexes |-> Joined(Count(rows, From0(d.max)))]

-----------------------------------------------------------------------------
(* PackedDatasetWithCut: rows are cut from the stream, and a sample goes on *)
(* in the next row.                                                         *)

CalMap(d, carriage) == Found(d, LAMBDA end : end < (carriage + 1) * d.packed)

\* Mutant: a sample that ends with the row begins the next one too.
MappingStays(d, item) ==
  LET Into(pos, tokens) == Shuffled(d)[pos + 1] - (Upto(d, pos + 1) - tokens)
      pre == IF item = 0 THEN <<0, 0>> ELSE <<CalMap(d, item - 1), Into(CalMap(d, item - 1), item * d.packed) - 1>>
  IN  [pre |-> pre, pos |-> CalMap(d, item), token |-> Into(CalMap(d, item), (item + 1) * d.packed)]

Mapping(d, item) ==
  LET Into(pos, tokens) == Shuffled(d)[pos + 1] - (Upto(d, pos + 1) - tokens)
      before == CalMap(d, item - 1)
      pre == IF item = 0 THEN <<0, 0>>
             ELSE IF Into(before, item * d.packed) = Shuffled(d)[before + 1] THEN <<before + 1, 0>>
             ELSE <<before, Into(before, item * d.packed)>>
  IN  [pre |-> pre, pos |-> CalMap(d, item), token |-> Into(CalMap(d, item), (item + 1) * d.packed)]

CutItem(d, item) ==
  LET m == Mapping(d, item)
      From(i) == IF i = m.pre[1] THEN m.pre[2] ELSE 0
      At(i) == Sample(d, d.order[i + 1])
      Whole(pack, i) ==
        LET chunk == SubSeq(At(i), From(i) + 1, Len(At(i)))
        IN  Extend(pack, chunk, Shifted(chunk), Cuts(Len(chunk), d.max))
      last == At(m.pos)
      chunk == SubSeq(last, From(m.pos) + 1, m.token)
      labels == IF m.token = Len(last) THEN Shifted(chunk) ELSE Append(Tail(chunk), last[m.token + 1])
  IN  Extend(FoldLeft(Whole, Empty, [k \in 1 .. m.pos - m.pre[1] |-> m.pre[1] + k - 1]),
             chunk, labels, Cuts(Len(chunk), d.max))

\* Without packing: the micro samples from an index on, each cut to its
\* maximum; the next index begins one sample later.
Truncated(d, i) == SubSeq(Sample(d, d.order[i]), 1, Least(d.lengths[d.order[i]], d.max))
AddTruncated(d, pack, i) ==
  Extend(pack, Truncated(d, i), Shifted(Truncated(d, i)), <<Len(Truncated(d, i))>>)

UnpackedItem(d, index, micro) ==
  Padded(d, FoldLeft(LAMBDA pack, i : AddTruncated(d, pack, i), Empty,
                     [k \in 1 .. Least(micro, Len(d.order) - index) |-> index + k]), From0)

-----------------------------------------------------------------------------
(* PackedDatasetWithPad: a row takes whole samples, each cut to the maximum,*)
(* until the next one does not fit.                                         *)

Belongs(d) ==
  LET Place(run, i) ==
        LET n == Len(Truncated(d, i)) IN
        IF run.length + n > d.packed
        THEN [length |-> n, row |-> run.row + 1, of |-> Append(run.of, run.row + 1)]
        ELSE [run EXCEPT !.length = @ + n, !.of = Append(@, run.row)]
  IN  FoldLeft(Place, [length |-> 0, row |-> 0, of |-> <<>>], [i \in DOMAIN d.order |-> i]).of

\* __len__, the number of the last row, which is left out.
PadRows(d) == Belongs(d)[Len(d.order)]

PadItem(d, index) ==
  LET own == SelectSeq([i \in DOMAIN d.order |-> i], LAMBDA i : Belongs(d)[i] = index)
  IN  Padded(d, FoldLeft(LAMBDA pack, i : AddTruncated(d, pack, i), Empty, own), LAMBDA n : Count(n, 0))

-----------------------------------------------------------------------------
(* The metadata that local rank 0 leaves for its node, in either layout.    *)

Cached(d, one) ==
  IF one THEN <<d.offsets, d.lengths, d.order, [i \in DOMAIN d.order |-> Upto(d, i)]>>
  ELSE <<d.offsets, d.lengths, d.order, Shuffled(d), [i \in DOMAIN d.order |-> Upto(d, i)]>>

FromCache(rows, one) ==
  [offsets |-> rows[1], lengths |-> rows[2], order |-> rows[3],
   ends |-> IF one THEN rows[4] ELSE rows[5]]

(* The tokens of a collated row are their magnitudes; a label that is not   *)
(* positive, the sign of a masked token, is ignored.                        *)
Collated(pack, Masked(_)) ==
  [pack EXCEPT !.labels = [i \in DOMAIN @ |-> IF @[i] = Ignored \/ Masked(@[i]) THEN Ignored ELSE @[i]]]

\* _unpack_data: one row for each of the first micro sequences.
Unpacked(d, values, cu, micro) ==
  [j \in 1 .. micro |->
     LET n == cu[j + 1] - cu[j]
     IN  SubSeq(values, cu[j] + 1, cu[j + 1]) \o Count(d.max - n, Ignored)]

-----------------------------------------------------------------------------
(* Every row is full, its sequences tile it, and a label names the token    *)
(* that follows in the same sample or nothing.                              *)
Sound(d, pack) ==
  /\ Len(pack.tokens) = d.packed /\ Len(pack.labels) = d.packed /\ Len(pack.indexes) = d.packed
  /\ pack.cu[1] = 0 /\ pack.cu[Len(pack.cu)] = d.packed
  /\ \A k \in 1 .. Len(pack.cu) - 1 : pack.cu[k] < pack.cu[k + 1]
  /\ \A j \in 1 .. d.packed :
       pack.labels[j] \in {Ignored, <<pack.tokens[j][1], pack.tokens[j][2] + 1>>}

Ends(d, token) == token[2] = d.lengths[token[1]]
Within(pack, j) == j - 1 - pack.cu[Cardinality({k \in DOMAIN pack.cu : pack.cu[k] < j})]
Stream(d) == Joined([i \in DOMAIN d.order |-> Sample(d, d.order[i])])

(* Rows of either stream are consecutive parts of it, but for a tail that   *)
(* fills no row and is not delivered (364-368), where the docstring of      *)
(* PackedDatasetWithCut draws it padded (281-284).  Cut rows lose a label   *)
(* only at a sample's end, and none of their sequences spans two samples or *)
(* exceeds the maximum; rows of one sequence also lose the label at theirs. *)
RowsExact(d, one, cut) ==
  LET Part(packs) == Joined([i \in DOMAIN packs |-> packs[i].tokens]) = SubSeq(Stream(d), 1, Packs(d) * d.packed)
  IN  /\ d.packed % d.max = 0 =>
           /\ Part(one)
           /\ \A i \in DOMAIN one :
                /\ Sound(d, one[i])
                /\ \A j \in 1 .. d.packed :
                     one[i].labels[j] = Ignored <=> j = d.packed \/ Ends(d, one[i].tokens[j])
      /\ Part(cut)
      /\ \A i \in DOMAIN cut :
           /\ Sound(d, cut[i])
           /\ \A j \in 1 .. d.packed :
                /\ cut[i].labels[j] = Ignored <=> Ends(d, cut[i].tokens[j])
                /\ cut[i].indexes[j] = Within(cut[i], j)
           /\ \A k \in 1 .. Len(cut[i].cu) - 1 :
                /\ cut[i].cu[k + 1] - cut[i].cu[k] <= d.max
                /\ cut[i].tokens[cut[i].cu[k] + 1][1] = cut[i].tokens[cut[i].cu[k + 1]][1]
      /\ \A flag \in BOOLEAN :
           FromCache(Cached(d, flag), flag) =
             [offsets |-> d.offsets, lengths |-> d.lengths, order |-> d.order,
              ends |-> [i \in DOMAIN d.order |-> Upto(d, i)]]
StreamsExact(d) ==
  RowsExact(d, [i \in 1 .. Packs(d) |-> OneItem(d, i - 1)], [i \in 1 .. Packs(d) |-> CutItem(d, i - 1)])

(* The padded rows that the class delivers hold a beginning of the shuffled *)
(* samples, each once and as much of it as the maximum allows; what they do *)
(* not hold fits one row, the last, which __len__ leaves out (590-591)      *)
(* though the docstring of the class draws it (530-538).  Unpacking the row *)
(* of index i gives back the micro samples from the i-th on, so that rows i *)
(* and i + 1 share all but one of them (455-457), where the docstring of    *)
(* build_unpack deals each sample to one row (459-475).  A masked token is  *)
(* never a label.                                                           *)
PaddedExact(d, micro) ==
  LET rows == [i \in 1 .. PadRows(d) |-> PadItem(d, i - 1)]
      Real(pack) == SelectSeq(pack.tokens, LAMBDA t : t # Ignored)
      whole == Joined([i \in DOMAIN d.order |-> Truncated(d, i)])
      held == Joined([i \in DOMAIN rows |-> Real(rows[i])])
      Masked(t) == t[2] % 2 = 0
  IN  /\ \A i \in DOMAIN rows :
           /\ Sound(d, rows[i])
           /\ \A j \in 1 .. d.packed :
                Collated(rows[i], Masked).labels[j] = Ignored \/ ~Masked(rows[i].labels[j])
      /\ held = SubSeq(whole, 1, Len(held))
      /\ Len(whole) - Len(held) \in 1 .. d.packed
      /\ micro * d.max <= d.packed => \A index \in 0 .. Len(d.order) - micro :
           LET pack == UnpackedItem(d, index, micro)
               rest == Unpacked(d, pack.tokens, pack.cu, micro)
           IN  /\ Sound(d, pack)
               /\ \A j \in 1 .. micro :
                    rest[j] = Truncated(d, index + j) \o Count(d.max - Len(Truncated(d, index + j)), Ignored)
=============================================================================
