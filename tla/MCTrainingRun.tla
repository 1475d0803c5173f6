---------------------------- MODULE MCTrainingRun ----------------------------
(***************************************************************************)
(* TLC instance of TrainingRun.                                            *)
(***************************************************************************)
EXTENDS TrainingRun
=============================================================================
