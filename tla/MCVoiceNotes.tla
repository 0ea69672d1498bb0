---------------------------- MODULE MCVoiceNotes ----------------------------
(* Model checking of VoiceNotes on a few notes. *)
EXTENDS VoiceNotes

CONSTANTS n1, n2
=============================================================================
