---------------------------- MODULE ClientEvents ----------------------------
(***************************************************************************)
(* The events of a message, as the client receives them.  What builds an   *)
(* answer and what passes one on send it the same events.                  *)
(*                                                                         *)
(* Source: SSEBuilder of core/anthropic/sse.py.  OpenAIStream and          *)
(* RouterStream extend this module; what they send is a message only if    *)
(* they send it in the order of ClientStream.                              *)
(***************************************************************************)
EXTENDS Integers

VARIABLES phase, started, opened, last      \* what the client has received, as in ClientStream

clientVars == <<phase, started, opened, last>>

Event(kind, i) == last' = <<kind, i, ~last[3]>>

message_start ==
    /\ phase' = "open" /\ Event("message_start", 0)
    /\ UNCHANGED <<started, opened>>

content_block_start(i) ==
    /\ started' = started + 1 /\ opened' = opened \cup {i} /\ Event("start", i)
    /\ UNCHANGED phase

content_block_delta(i) == Event("delta", i) /\ UNCHANGED <<phase, started, opened>>

content_block_stop(i) ==
    /\ opened' = opened \ {i} /\ Event("stop", i)
    /\ UNCHANGED <<phase, started>>

message_stop ==
    /\ phase' = "ended" /\ Event("message_stop", 0)
    /\ UNCHANGED <<started, opened>>

-----------------------------------------------------------------------------
(* Properties.                                                             *)

\* Whatever a provider sends in whatever order and whatever is hidden of it, the events form
\* a message: no block is continued or stopped that is not open, indexes are given out in
\* order, and nothing is open at the end (sse.py ContentBlockManager, open_router
\* _close_open_blocks_before).  OpenAIStream shows it wherever the provider breaks off,
\* RouterStream only where OpenRouter does not.
Client == INSTANCE ClientStream
ImplementsClientStream == Client!Spec
=============================================================================
