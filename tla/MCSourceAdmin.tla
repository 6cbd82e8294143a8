--------------------------- MODULE MCSourceAdmin ---------------------------
(* Instances of SourceAdmin for TLC. *)
EXTENDS SourceAdmin, TLC

CONSTANTS n1, n2, d1, a1, a2, p1, p2, r1

\* A database and a file source to begin with.
MixedFile == <<[name |-> n1, type |-> "postgis", dsn |-> d1],
               [name |-> n2, type |-> "file", dsn |-> Blank]>>
\* One file source to begin with.
PlainFile == <<[name |-> n1, type |-> "file", dsn |-> Blank]>>

Symmetry == Permutations(Admins)
=============================================================================
