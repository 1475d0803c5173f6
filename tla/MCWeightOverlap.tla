--------------------------- MODULE MCWeightOverlap ---------------------------
(***************************************************************************)
(* Two processes, four blocks of two modules, three owners.                *)
(***************************************************************************)
EXTENDS WeightOverlap, TLC

\* Owners are allotted block after block; a block may straddle two.
MCOwners ==
  {0 :> {0} @@ 3 :> {2} @@ middle :
     middle \in {1 :> {0} @@ 2 :> {1, 2}, 1 :> {1} @@ 2 :> {1}, 1 :> {0, 1} @@ 2 :> {1, 2}}}

\* Layer granularity in any order of execution, whole spans only if every
\* block is recomputed; module granularity for modules that run as listed.
MCConfigurations ==
  {c \in [grain : {"layer", "module"}, order : {<<1, 2>>, <<2, 1>>}, ckpt : 0 .. Blocks,
          span : {1, 2}, owners : MCOwners] :
     /\ c.span > 1 => c.ckpt = Blocks /\ c.grain = "layer"
     /\ c.grain = "module" => c.order = <<1, 2>>}
=============================================================================
