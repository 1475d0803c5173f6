------------------------------ MODULE MCRlBatch ------------------------------
(***************************************************************************)
(* Three ranks, two rollouts each, two clients.                            *)
(***************************************************************************)
EXTENDS RlBatch, SequencesExt

\* Rollouts with as many images share waves; an odd one is padded.
MCWaves(images) ==
  LET bucket(n) == SetToSortSeq({x \in Rollouts : images[x] = n}, <)
      wave(n, w) == [r \in Ranks |-> LET i == w * W + r + 1 IN
                       IF i <= Len(bucket(n)) THEN [rollout |-> bucket(n)[i], real |-> TRUE]
                       ELSE [rollout |-> bucket(n)[1], real |-> FALSE]]
      waves(n) == [w \in 1 .. (Len(bucket(n)) + W - 1) \div W |-> wave(n, w - 1)]
  IN  waves(0) \o waves(1) \o waves(2)

\* Up to two images; after the first two rollouts, in descending number.
MCBatches ==
  {[images |-> images, schedule |-> MCWaves(images)] :
     images \in {f \in [Rollouts -> 0 .. 2] : \A x \in Rollouts : x >= 2 => f[x] <= f[x - 1]}}
=============================================================================
