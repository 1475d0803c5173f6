--------------------------- MODULE MCRingAttention ---------------------------
(***************************************************************************)
(* Context groups of two to four ranks: one window, windows of one rank,   *)
(* and two windows of two.                                                 *)
(***************************************************************************)
EXTENDS RingAttention, TLC

Groupings ==
  {[context |-> s[1], window |-> s[2], interleaved |-> FALSE] :
     s \in {<<2, 1>>, <<2, 2>>, <<3, 3>>, <<3, 1>>, <<4, 2>>}}
=============================================================================
