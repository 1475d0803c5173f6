---------------------------- MODULE SequenceShards ----------------------------
(***************************************************************************)
(* How a sequence is cut over the ranks of a tensor group for 2D attention *)
(* (sensenovalm/core/parallel/shard.py), and the all-to-all of             *)
(* DistributedAttention (core/parallel/comm/isp.py) that trades slices of  *)
(* the sequence for heads around the attention.  An attention a is a       *)
(* configuration of ProcessGroups' windows; a local tensor is the slices   *)
(* of the sequence it holds, in order, and the heads.                      *)
(***************************************************************************)
EXTENDS ProcessGroups

SpSize(a) == a.head * a.context
Tensors(a) == GroupRanks(World(a.world), SpSize(a), 1, FALSE)
HeadRank(a, r) == LocalRank(Heads(a.world, a), r)
ContextRank(a, r) == LocalRank(Contexts(a.world, a), r)

\* Mutant: the upper half of a head group counts from its first rank.
FirstSliceMirrored(a, h, c) ==
  IF h < a.head \div 2 THEN 2 * h + c * a.head
  ELSE (2 * SpSize(a) - 2) - 2 * h - c * a.head

FirstSlice(a, h, c) ==
  IF h < a.head \div 2 THEN 2 * h + c * a.head
  ELSE (2 * SpSize(a) - 2) - 2 * (a.head - h - 1) - c * a.head

(* The two of 2 * SpSize(a) slices a rank selects. *)
Slices(a, r) ==
  LET h == HeadRank(a, r)
      c == ContextRank(a, r)
  IN  CASE a.context = 1 -> <<2 * h, 2 * h + 1>>
        [] a.head = 1    -> <<c, 2 * a.context - 1 - c>>
        [] OTHER         -> <<FirstSlice(a, h, c), FirstSlice(a, h, c) + 1>>

Part(s, n, k) == LET size == Len(s) \div n IN SubSeq(s, k * size + 1, (k + 1) * size)
Joined(group, PartOf(_)) ==
  FoldLeft(\o, <<>>, [k \in 1 .. Cardinality(DOMAIN group) |-> PartOf(group[k - 1])])

Input(a, r) == [rows |-> Slices(a, r), heads |-> [i \in 1 .. 2 * a.head |-> i]]

(* _SeqAllToAll: heads are scattered and the sequence gathered, and back.   *)
ToHeads(a, x, r) ==
  LET group == GroupOf(Heads(a.world, a), r)
  IN  [rows  |-> Joined(group, LAMBDA p : x[p].rows),
       heads |-> Part(x[r].heads, a.head, HeadRank(a, r))]

ToRows(a, y, r) ==
  LET group == GroupOf(Heads(a.world, a), r)
  IN  [rows  |-> Part(y[r].rows, a.head, HeadRank(a, r)),
       heads |-> Joined(group, LAMBDA p : y[p].heads)]

-----------------------------------------------------------------------------
(* The ring of a context group wants its rank's chunk and the mirrored one. *)
Chunks(a, c) ==
  LET Whole(chunk) == [i \in 1 .. a.head |-> chunk * a.head + i - 1]
  IN  Whole(c) \o Whole(2 * a.context - 1 - c)

(* Ranks of a tensor group hold every slice once; around the attention the  *)
(* rank at place c of a context group holds chunks c and its mirror, for    *)
(* the heads all of its context group hold; and after it, its own slices    *)
(* with all heads.                                                          *)
Sharded(a) ==
  LET x == [r \in 0 .. a.world - 1 |-> Input(a, r)]
      y == [r \in 0 .. a.world - 1 |-> ToHeads(a, x, r)]
  IN  /\ \A t \in Tensors(a) :
           LET held == Joined(t, LAMBDA r : Slices(a, r))
           IN  Len(held) = 2 * SpSize(a) /\ ToSet(held) = 0 .. 2 * SpSize(a) - 1
      /\ \A r \in 0 .. a.world - 1 :
           y[r].rows = Chunks(a, ContextRank(a, r)) /\ ToRows(a, y, r) = x[r]
      /\ \A g \in Contexts(a.world, a) :
           /\ \E t \in Tensors(a) : Members(g) \subseteq Members(t)
           /\ \A r, p \in Members(g) : y[r].heads = y[p].heads
=============================================================================
