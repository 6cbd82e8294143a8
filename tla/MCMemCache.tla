----------------------------- MODULE MCMemCache -----------------------------
(* Instances of MemCache for TLC. *)
EXTENDS MemCache

CONSTANTS k1, k2, k3, r1, r2

\* The second revision of a tile is longer than the first.
Lengths == (r1 :> 1) @@ (r2 :> 2)
=============================================================================
