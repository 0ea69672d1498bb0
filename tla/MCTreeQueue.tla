----------------------------- MODULE MCTreeQueue -----------------------------
(* TreeQueue on small trees, for TLC.                                      *)
EXTENDS TreeQueue, TLC

CONSTANTS n1, n2, n3, n4

MCSymmetry == Permutations(Nodes \ {Root})

=============================================================================
