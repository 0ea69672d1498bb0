---------------------------- MODULE ClientStream ----------------------------
(***************************************************************************)
(* What a client of the proxy may receive: one message of content blocks.  *)
(* Blocks are numbered in the order they start, each is started once,      *)
(* continued only while it is open and stopped once, several may be open   *)
(* at a time, and when the message ends none is.                           *)
(*                                                                         *)
(* This is what core/anthropic/sse.py builds and providers/open_router     *)
(* normalizes: both are shown to implement it.                             *)
(***************************************************************************)
EXTENDS Naturals

VARIABLES
    phase,      \* none, open or ended: message_start, message_stop
    started,    \* how many blocks were started
    opened,     \* indexes of those not stopped yet
    last        \* the event received last, with its index and a bit that tells it from
                \* the one before

clientVars == <<phase, started, opened, last>>

Init == phase = "none" /\ started = 0 /\ opened = {} /\ last = <<"none", 0, FALSE>>

\* Even an event that changes nothing else, or comes twice, is a step.
Event(kind, i) == last' = <<kind, i, ~last[3]>>

MessageStart ==
    /\ phase = "none"
    /\ phase' = "open" /\ Event("message_start", 0)
    /\ UNCHANGED <<started, opened>>

BlockStart ==
    /\ phase = "open"
    /\ started' = started + 1 /\ opened' = opened \cup {started}
    /\ Event("start", started)
    /\ UNCHANGED phase

BlockDelta(i) ==
    /\ phase = "open" /\ i \in opened
    /\ Event("delta", i)
    /\ UNCHANGED <<phase, started, opened>>

BlockStop(i) ==
    /\ phase = "open" /\ i \in opened
    /\ opened' = opened \ {i} /\ Event("stop", i)
    /\ UNCHANGED <<phase, started>>

MessageStop ==
    /\ phase = "open" /\ opened = {}
    /\ phase' = "ended" /\ Event("message_stop", 0)
    /\ UNCHANGED <<started, opened>>

Next ==
    \/ MessageStart \/ BlockStart \/ MessageStop
    \/ \E i \in opened : BlockDelta(i) \/ BlockStop(i)

Spec == Init /\ [][Next]_clientVars
=============================================================================
