---------------------------- MODULE BucketTransfer ----------------------------
(***************************************************************************)
(* How one policy's weights cross from the FSDP2 shards of W trainer ranks *)
(* to a serving consumer (rl/weight_publisher.py).  An entry is one tensor *)
(* of the serving closure: owner, dtype, its source's rows and columns,    *)
(* whether it is sharded by rows and whether the consumer has it           *)
(* transposed.  The value of an element is its name: entry, row, column.   *)
(***************************************************************************)
EXTENDS Integers, Sequences, SequencesExt, FiniteSetsExt

Zero == <<"zero">>

Itemsize(dtype) == CASE dtype = "bfloat16" -> 2 [] dtype = "float32" -> 4
Numel(e) == e.rows * e.cols
Nbytes(e) == Numel(e) * Itemsize(e.dtype)

Chunk(e, W) == (e.rows + W - 1) \div W

\* Mutant: the rows are divided downwards.
PaddedNumelFloor(e, W) == IF e.sharded THEN (e.rows \div W) * e.cols ELSE Numel(e)

PaddedNumel(e, W) == IF e.sharded THEN Chunk(e, W) * e.cols ELSE Numel(e)

(* Rows of rank (from 0): all of them when the tensor is replicated. *)
RankRows(e, W, rank) ==
  IF e.sharded THEN Max({0, Min({Chunk(e, W), e.rows - Chunk(e, W) * rank})}) ELSE e.rows
RankNumel(e, W, rank) == RankRows(e, W, rank) * e.cols

(* Elements of a run of rows, row by row. *)
Flat(i, e, first, rows) ==
  [k \in 1 .. rows * e.cols |-> <<i, first + (k - 1) \div e.cols, (k - 1) % e.cols>>]

(* What the consumer must get: the tensor, or its transpose, row by row. *)
Target(i, e) ==
  IF e.transpose THEN [k \in 1 .. Numel(e) |-> <<i, (k - 1) % e.rows, (k - 1) \div e.rows>>]
  ELSE Flat(i, e, 0, e.rows)

(* torch.chunk gives rank these rows of a sharded tensor. *)
LocalTensor(i, e, W, rank) ==
  Flat(i, e, IF e.sharded THEN Chunk(e, W) * rank ELSE 0, RankRows(e, W, rank))

-----------------------------------------------------------------------------
(* _buckets: consecutive entries of one owner and dtype, up to a size.     *)

Splits(entries, current, i, limit) ==
  /\ current # <<>>
  /\ \/ entries[i].owner # entries[Last(current)].owner
     \/ entries[i].dtype # entries[Last(current)].dtype
     \/ FoldLeft(LAMBDA bytes, k : bytes + Nbytes(entries[k]), Nbytes(entries[i]), current) > limit

Buckets(entries, limit) ==
  LET Put(state, i) ==
        IF Splits(entries, state.current, i, limit)
        THEN [grouped |-> Append(state.grouped, state.current), current |-> <<i>>]
        ELSE [state EXCEPT !.current = Append(@, i)]
      end == FoldLeft(Put, [grouped |-> <<>>, current |-> <<>>], [i \in DOMAIN entries |-> i])
  IN  IF end.current = <<>> THEN end.grouped ELSE Append(end.grouped, end.current)

-----------------------------------------------------------------------------
(* One bucket: every rank packs, all gather, rank 0 rebuilds.              *)

(* Shards are padded to the common size so that the gathered parts align. *)
Padded(local, size) ==
  local \o [k \in 1 .. size - Len(local) |-> Zero]

Pack(entries, bucket, W, rank) ==
  FlattenSeq([k \in DOMAIN bucket |->
    Padded(LocalTensor(bucket[k], entries[bucket[k]], W, rank),
           PaddedNumel(entries[bucket[k]], W))])

(* all_gather_into_tensor: equal contributions in rank order. *)
Gather(entries, bucket, W) == [rank \in 0 .. W - 1 |-> Pack(entries, bucket, W, rank)]

OffsetIn(entries, bucket, W, k) ==
  FoldLeft(LAMBDA offset, i : offset + PaddedNumel(entries[i], W), 0, SubSeq(bucket, 1, k - 1))

Source(entries, bucket, W, gathered, k) ==
  LET e == entries[bucket[k]]
      offset == OffsetIn(entries, bucket, W, k)
      Part(rank) == SubSeq(gathered[rank], offset + 1, offset + RankNumel(e, W, rank))
  IN  IF e.sharded THEN FlattenSeq([r \in 1 .. W |-> Part(r - 1)]) ELSE Part(0)

Transposed(flat, rows, cols) ==
  [k \in 1 .. rows * cols |-> flat[((k - 1) % rows) * cols + (k - 1) \div rows + 1]]

Rebuilt(entries, bucket, W) ==
  LET gathered == Gather(entries, bucket, W)
      Piece(k) == LET e == entries[bucket[k]]
                      flat == Source(entries, bucket, W, gathered, k)
                  IN  IF e.transpose THEN Transposed(flat, e.rows, e.cols) ELSE flat
  IN  FlattenSeq([k \in DOMAIN bucket |-> Piece(k)])

(* The consumer cuts the broadcast by the shapes of the update payload. *)
Received(entries, bucket, flat, k) ==
  LET before == FoldLeft(LAMBDA n, i : n + Numel(entries[i]), 0, SubSeq(bucket, 1, k - 1))
  IN  SubSeq(flat, before + 1, before + Numel(entries[bucket[k]]))

(* The names _verify_receipts expects of a consumer. *)
Required(entries, consumer) == {i \in DOMAIN entries : entries[i].owner = consumer}

(* _send_sharded_consumer takes the buckets of its consumer. *)
Sent(entries, buckets, consumer) ==
  UNION {ToSet(buckets[b]) : b \in {b \in DOMAIN buckets : entries[buckets[b][1]].owner = consumer}}

-----------------------------------------------------------------------------
(* Every consumer gets exactly its tensors, in buckets of one dtype within *)
(* the size limit (a larger tensor travels alone), element by element as   *)
(* its closure lays them out.                                              *)
Faithful(entries, W, limit) ==
  LET buckets == Buckets(entries, limit) IN
  /\ FlattenSeq(buckets) = [i \in DOMAIN entries |-> i]
  /\ \A e \in ToSet(entries) :
       Sent(entries, buckets, e.owner) = Required(entries, e.owner)
  /\ \A b \in DOMAIN buckets :
       LET bucket == buckets[b]
           flat == Rebuilt(entries, bucket, W)
       IN  /\ \A k \in DOMAIN bucket :
                /\ entries[bucket[k]].dtype = entries[bucket[1]].dtype
                /\ Received(entries, bucket, flat, k) = Target(bucket[k], entries[bucket[k]])
           /\ \/ Len(bucket) = 1
              \/ FoldLeft(LAMBDA n, i : n + Nbytes(entries[i]), 0, bucket) <= limit
           /\ \A r, q \in 0 .. W - 1 :
                Len(Pack(entries, bucket, W, r)) = Len(Pack(entries, bucket, W, q))

=============================================================================
