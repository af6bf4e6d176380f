----------------------------- MODULE MCBoardFarm -----------------------------
(***************************************************************************)
(* Instances of BoardFarm for TLC: the holders of one process share a       *)
(* board.                                                                   *)
(***************************************************************************)
EXTENDS BoardFarm

CONSTANTS h1, h2, p1

OneProcess == [h \in Holders |-> p1]
=============================================================================
