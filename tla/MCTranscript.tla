---------------------------- MODULE MCTranscript ----------------------------
(* Model checking of Transcript.  MaxEvents bounds what the CLI sends and      *)
(* MaxTasks the Tasks of a run. *)
EXTENDS Transcript
=============================================================================
