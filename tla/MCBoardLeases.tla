---------------------------- MODULE MCBoardLeases ----------------------------
(***************************************************************************)
(* Instances of BoardLeases for TLC: all holders in one process, or one     *)
(* holder per process.                                                      *)
(***************************************************************************)
EXTENDS BoardLeases

CONSTANTS h1, h2, h3, p1, p2, p3

OneProcess == [h \in Holders |-> p1]
OwnProcess == [h \in Holders |-> CASE h = h1 -> p1 [] h = h2 -> p2 [] OTHER -> p3]
=============================================================================
