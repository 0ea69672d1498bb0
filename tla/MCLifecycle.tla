----------------------------- MODULE MCLifecycle -----------------------------
(* Model checking of Lifecycle: a few messages, restarts up to MaxStarts. *)
EXTENDS Lifecycle, TLC

CONSTANTS n1, n2, n3

MCSymmetry == Permutations(Nodes)
=============================================================================
