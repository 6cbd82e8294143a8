---------------------------- MODULE MCDiskCache ----------------------------
(* Instances of DiskCache for TLC. *)
EXTENDS DiskCache, TLC

CONSTANTS k1, k2, r1, r2, c1, c2, t1, t2

\* Two revisions of one length.
Lengths == [rev \in Revs |-> 5]

Symmetry == Permutations(Clients) \cup Permutations(Temps)
=============================================================================
