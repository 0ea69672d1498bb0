---------------------------- MODULE MCCliSessions ----------------------------
(* Model checking of CliSessions.  A task is started once, so the number of   *)
(* tasks bounds the runs of the CLI; stop_all may be called again and again.  *)
EXTENDS CliSessions, TLC

MCSymmetry == Permutations(Tasks)
=============================================================================
