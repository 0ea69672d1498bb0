--------------------------- MODULE MCRouterStream ---------------------------
(* Model checking of RouterStream.  The number of blocks bounds the message. *)
EXTENDS RouterStream, TLC

MCSymmetry == Permutations(Blocks)
=============================================================================
