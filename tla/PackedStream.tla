----------------------------- MODULE PackedStream -----------------------------
(***************************************************************************)
(* PackedDataset of sensenovavl/data/dataset_interleaved_iterable.py as one*)
(* worker iterates it: rows are drawn from several datasets by weight,     *)
(* merged into buffers that fit a token and an image budget, and yielded   *)
(* when full, nearly full, stale or too many.  A stream either restarts    *)
(* exhausted datasets for ever (replacement) or is one finite epoch.       *)
(*                                                                         *)
(* A row is a pair <<dataset, index>> of the worker's shard; of its content*)
(* only the numbers of tokens and images count.  Weights are drawn at      *)
(* random, so only whether they are positive matters.                      *)
(*                                                                         *)
(* A shard and its estimated size are independent: the workers of a small  *)
(* dataset are capped, so that some hold nothing and others more than the  *)
(* even share the estimate is.                                             *)
(***************************************************************************)
EXTENDS Integers, FiniteSets, SequencesExt

CONSTANTS
  Datasets,        \* the datasets of the mixture
  MaxTokens,       \* max_packed_tokens
  MaxImages,       \* num_images_expected
  MaxBuffers,      \* max_buffer_size
  Stale,           \* packed_buffer_stale_threshold
  Interval,        \* iterations between two adjustments of the weights
  Epochs,          \* times a finite stream is iterated by its process
  Configurations   \* [rows, estimate, packed, replacement, overflow]

(* A dataset holds max_tokens and max_num_images to the packer's budgets;    *)
(* one of packed rows (external) is taken to do so too.                      *)
ASSUME PackedAssumption ==
  /\ {MaxTokens, MaxImages, MaxBuffers, Stale, Interval, Epochs} \subseteq Nat \ {0}
  /\ Configurations \subseteq
       [rows : [Datasets -> Seq([tokens : 1 .. MaxTokens, images : 0 .. MaxImages])],
        estimate : [Datasets -> Nat \ {0}], packed : SUBSET Datasets,
        replacement : BOOLEAN, overflow : BOOLEAN]

VARIABLES
  cfg,        \* the worker's shard of each dataset, its estimated size, those named
              \* llm_mixed_training, whose rows are packed already, and the mode
  stage,      \* "choose", "pack", "end" or "failed"
  epoch,      \* which iteration of the stream this is
  read,       \* rows read from each dataset's iterator
  positive,   \* datasets whose weight is not zero
  consumed,   \* sample_info, up to the estimate; it outlives an epoch
  clock,      \* iterations since the weights were last adjusted
  buffers,    \* buffer_list: [rows, tokens, images, age] in descending number of images
  full,       \* buffer_max_len_list
  last,       \* size of the pack yielded last
  delivered   \* finite epochs: how often each row was yielded

vars == <<cfg, stage, epoch, read, positive, consumed, clock, buffers, full, last, delivered>>

-----------------------------------------------------------------------------
Held(d) == Len(cfg.rows[d])
Rows == UNION {{d} \X (1 .. Held(d)) : d \in Datasets}
Row(r) == cfg.rows[r[1]][r[2]]
Lowest(S) == CHOOSE i \in S : \A j \in S : i <= j
Highest(S) == CHOOSE i \in S : \A j \in S : i >= j

-----------------------------------------------------------------------------
(* Where a row goes. *)

HasSlots(b, r) == b.images + Row(r).images <= MaxImages
Fitting(r) ==
  {i \in DOMAIN buffers :
     HasSlots(buffers[i], r) /\ buffers[i].tokens + Row(r).tokens <= MaxTokens}

\* Once half the buffers are in use, the first that would overflow is taken.
Overflowing(r) ==
  {i \in DOMAIN buffers :
     /\ cfg.overflow /\ Len(buffers) >= MaxBuffers \div 2
     /\ HasSlots(buffers[i], r) /\ buffers[i].tokens + Row(r).tokens > MaxTokens}

\* The tightest fit, the first of equals; 0 for a new buffer.
FindBuffer(r) ==
  LET tightest == {i \in Fitting(r) : \A j \in Fitting(r) : buffers[i].tokens >= buffers[j].tokens}
  IN  IF tightest # {} THEN Lowest(tightest)
      ELSE IF Overflowing(r) # {} THEN Lowest(Overflowing(r)) ELSE 0

\* Before the first buffer with fewer images.
Insert(bs, b) ==
  LET fewer == {i \in DOMAIN bs : bs[i].images < b.images}
  IN  InsertAt(bs, IF fewer = {} THEN Len(bs) + 1 ELSE Lowest(fewer), b)

\* A merge that overflows is to be split, and the split rejects the buffer's
\* birth stamp: the worker fails.  A full buffer is set aside.
Merge(r) ==
  LET i == FindBuffer(r)
      rest == IF i = 0 THEN buffers ELSE RemoveAt(buffers, i)
      merged == IF i = 0
                THEN [rows |-> {r}, tokens |-> Row(r).tokens, images |-> Row(r).images, age |-> 0]
                ELSE [buffers[i] EXCEPT !.rows = @ \union {r}, !.tokens = @ + Row(r).tokens,
                                        !.images = @ + Row(r).images]
  IN  IF merged.tokens > MaxTokens
      THEN stage' = "failed" /\ buffers' = rest /\ UNCHANGED full
      ELSE /\ stage' = "pack"
           /\ IF merged.tokens = MaxTokens
              THEN full' = Append(full, merged) /\ buffers' = rest
              ELSE buffers' = Insert(rest, merged) /\ UNCHANGED full

-----------------------------------------------------------------------------
(* Handing over a pack, which is what delivers its rows. *)

HandOver(b) ==
  /\ last' = [tokens |-> b.tokens, images |-> b.images]
  /\ delivered' = [r \in Rows |-> IF r \in b.rows /\ ~cfg.replacement
                                  THEN delivered[r] + 1 ELSE delivered[r]]

\* The end of an iteration: every buffer is one iteration older.  Ages past
\* the threshold are all alike.
Older(bs) == [i \in DOMAIN bs |-> [bs[i] EXCEPT !.age = IF @ > Stale THEN @ ELSE @ + 1]]

-----------------------------------------------------------------------------
(* Drawing a row. *)

\* Weights shrink with what was consumed of the estimate; they are kept if
\* none would be left.
Adjusted ==
  LET left == {d \in positive : consumed[d] < cfg.estimate[d]}
  IN  IF clock = 0 /\ left # {} THEN left ELSE positive

Tick == clock' = (clock + 1) % Interval

\* The index of the row a dataset hands out next, 0 if it is exhausted;
\* replacement restarts it.
NextDataRestarting(d) ==    \* mutant: an exhausted dataset starts again in a finite epoch
  IF read[d] < Held(d) THEN read[d] + 1 ELSE IF Held(d) > 0 THEN 1 ELSE 0
NextData(d) ==
  IF read[d] < Held(d) THEN read[d] + 1
  ELSE IF cfg.replacement /\ Held(d) > 0 THEN 1 ELSE 0

\* A dataset with no row loses its weight; with replacement all regain theirs,
\* where they stand, when none is left.
WeightsKept(d) == Adjusted      \* mutant: an exhausted dataset keeps its weight
WeightsAfter(d) ==
  IF cfg.replacement /\ Adjusted = {d} THEN Datasets ELSE Adjusted \ {d}

Take(d) ==
  /\ NextData(d) # 0
  /\ read' = [read EXCEPT ![d] = NextData(d)]
  /\ consumed' = [consumed EXCEPT ![d] = IF @ < cfg.estimate[d] THEN @ + 1 ELSE @]
  /\ positive' = Adjusted

Choose ==
  /\ stage = "choose"
  /\ \E d \in Adjusted \ cfg.packed : Take(d) /\ Merge(<<d, NextData(d)>>)
  /\ Tick
  /\ UNCHANGED <<cfg, epoch, last, delivered>>

\* A packed row goes straight to the trainer; no buffer is looked at.
PassOn ==
  /\ stage = "choose"
  /\ \E d \in Adjusted \intersect cfg.packed :
       LET r == <<d, NextData(d)>>
       IN  Take(d) /\ HandOver([rows |-> {r}, tokens |-> Row(r).tokens, images |-> Row(r).images])
  /\ buffers' = Older(buffers)
  /\ Tick
  /\ UNCHANGED <<cfg, stage, epoch, full>>

\* Nothing was drawn: no iteration is counted.
Exhaust ==
  /\ stage = "choose"
  /\ \E d \in Adjusted : NextData(d) = 0 /\ positive' = WeightsAfter(d)
  /\ Tick
  /\ UNCHANGED <<cfg, stage, epoch, read, consumed, buffers, full, last, delivered>>

-----------------------------------------------------------------------------
(* Yielding packs. *)

Yield(b) == HandOver(b) /\ UNCHANGED <<cfg, epoch, read, positive, consumed, clock>>

YieldFull ==
  /\ stage = "pack" /\ full # <<>>
  /\ Yield(Head(full)) /\ full' = Tail(full) /\ UNCHANGED <<stage, buffers>>

Crowded(i) == buffers[i].images = MaxImages
NearlyFull(i) == buffers[i].tokens >= (MaxTokens * 96) \div 100
IsStale(i) == buffers[i].age >= Stale
Largest(S) == {i \in S : \A j \in S : buffers[i].tokens >= buffers[j].tokens}

\* Which buffer is yielded next: the first if it has every image, the largest
\* if nearly full, then the stale ones, then the largest of too many.
Due ==
  LET near == {i \in DOMAIN buffers : NearlyFull(i)}
      stale == {i \in DOMAIN buffers : IsStale(i)}
  IN  IF buffers = <<>> THEN 0
      ELSE IF Crowded(1) THEN 1
      ELSE IF near # {} THEN Lowest(Largest(near))
      ELSE IF stale # {} THEN Highest(Largest(stale))
      ELSE IF Len(buffers) > MaxBuffers THEN Lowest(Largest(DOMAIN buffers)) ELSE 0

YieldBuffer ==
  /\ stage = "pack" /\ full = <<>> /\ Due # 0
  /\ Yield(buffers[Due]) /\ buffers' = RemoveAt(buffers, Due) /\ UNCHANGED <<stage, full>>

NextIteration ==
  /\ stage = "pack" /\ full = <<>> /\ Due = 0
  /\ stage' = "choose" /\ buffers' = Older(buffers)
  /\ UNCHANGED <<cfg, epoch, read, positive, consumed, clock, full, last, delivered>>

\* No dataset of a finite epoch has weight: what is buffered is yielded.
Drain ==
  /\ stage = "choose" /\ positive = {} /\ buffers # <<>>
  /\ Yield(Head(buffers)) /\ buffers' = Tail(buffers) /\ UNCHANGED <<stage, full>>

EndEpoch ==
  /\ stage = "choose" /\ positive = {} /\ buffers = <<>>
  /\ stage' = "end"
  /\ UNCHANGED <<cfg, epoch, read, positive, consumed, clock, buffers, full, last, delivered>>

\* A process that keeps its dataset iterates it again.  The datasets of a finite
\* stream start anew; those that keep their position (BaseDataset) are used with
\* replacement, which never comes here.
Iterate ==
  /\ stage = "end" /\ epoch < Epochs
  /\ epoch' = epoch + 1 /\ stage' = "choose" /\ positive' = Datasets /\ clock' = 0
  /\ read' = [d \in Datasets |-> 0] /\ delivered' = [r \in Rows |-> 0]
  /\ UNCHANGED <<cfg, consumed, buffers, full, last>>

Init ==
  /\ cfg \in Configurations
  /\ stage = "choose" /\ epoch = 1 /\ positive = Datasets /\ clock = 0
  /\ read = [d \in Datasets |-> 0] /\ consumed = [d \in Datasets |-> 0]
  /\ buffers = <<>> /\ full = <<>> /\ last = [tokens |-> 0, images |-> 0] /\ delivered = [r \in Rows |-> 0]

Next ==
  \/ Choose \/ PassOn \/ Exhaust \/ YieldFull \/ YieldBuffer \/ NextIteration
  \/ Drain \/ EndEpoch \/ Iterate

Spec == Init /\ [][Next]_vars
FairSpec == Spec /\ WF_vars(Next)

-----------------------------------------------------------------------------
Within(b) == b.tokens <= MaxTokens /\ b.images <= MaxImages

(* Every pack handed to the trainer, and every buffer that may become one,  *)
(* is within the token and image budgets; when the packer asks for the next *)
(* row, no buffer waits that has all its images, none too many, and none    *)
(* that is stale, unless packed rows go by: their iterations age the        *)
(* buffers and look at none (1498-1508).                                    *)
WithinBudget ==
  /\ Within(last)
  /\ \A i \in DOMAIN buffers : Within(buffers[i])
  /\ stage = "choose" =>
       /\ Len(buffers) <= MaxBuffers /\ full = <<>>
       /\ \A i \in DOMAIN buffers : ~Crowded(i) /\ (cfg.packed = {} => buffers[i].age <= Stale)

Copies(r) == Cardinality({i \in DOMAIN buffers : r \in buffers[i].rows})
             + Cardinality({i \in DOMAIN full : r \in full[i].rows})

(* A finite epoch yields the rows it reads, each exactly once, whatever the *)
(* weights, merges and evictions in between, and stops reading a dataset    *)
(* only when its shard is exhausted or its estimate is consumed.  The       *)
(* estimate is one epoch's and the count outlives it, so only the first     *)
(* epoch is sure to yield as many rows as estimated: a shard's further rows *)
(* may be left out of it, and any of its rows of a later epoch.             *)
EpochExact ==
  (~cfg.replacement /\ stage # "failed") =>
     /\ \A r \in Rows : delivered[r] + Copies(r) = IF r[2] <= read[r[1]] THEN 1 ELSE 0
     /\ stage = "end" =>
          /\ \A d \in Datasets : read[d] = Held(d) \/ consumed[d] = cfg.estimate[d]
          /\ epoch = 1 => \A r \in Rows : r[2] <= cfg.estimate[r[1]] => delivered[r] = 1

(* Packs keep their budget, and merging, evicting and yielding them neither *)
(* drops nor repeats a row that a finite epoch reads.                       *)
PacksExact == WithinBudget /\ EpochExact

(* A finite stream ends; one with replacement goes on yielding as long as   *)
(* its worker has a row at all and no merge overflows.                      *)
StreamFlows ==
  \/ <>(stage = "failed")
  \/ ~cfg.replacement /\ <>(stage = "end" /\ epoch = Epochs)
  \/ cfg.replacement /\ (Rows = {} \/ []<><<YieldFull \/ YieldBuffer \/ PassOn>>_vars)
=============================================================================
