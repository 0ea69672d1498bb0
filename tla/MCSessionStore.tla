--------------------------- MODULE MCSessionStore ---------------------------
(* SessionStore with few ids, for TLC.                                     *)
EXTENDS SessionStore, TLC

CONSTANTS r1, n1, m1, m2, m3, t1, t2

MCSymmetry == Permutations(Messages) \cup Permutations(Timers)

=============================================================================
