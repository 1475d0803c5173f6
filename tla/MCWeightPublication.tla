------------------------- MODULE MCWeightPublication -------------------------
(***************************************************************************)
(* TLC instance of WeightPublication.                                      *)
(***************************************************************************)
EXTENDS WeightPublication
=============================================================================
