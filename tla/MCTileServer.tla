---------------------------- MODULE MCTileServer ----------------------------
(* Instances of TileServer for TLC. *)
EXTENDS TileServer, TLC

CONSTANTS r1, r2

Symmetry == Permutations(Requests)
=============================================================================
