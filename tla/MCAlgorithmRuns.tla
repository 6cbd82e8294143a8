-------------------------- MODULE MCAlgorithmRuns --------------------------
(* Instances of AlgorithmRuns for TLC. *)
EXTENDS AlgorithmRuns

CONSTANTS q1, q2, q3, n1, n2
=============================================================================
