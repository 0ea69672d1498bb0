---------------------------- MODULE RouterStream ----------------------------
(***************************************************************************)
(* The stream of one message through OpenRouter, which already speaks the  *)
(* client's protocol: its events are passed on with hidden thinking taken  *)
(* out, blocks renumbered and overlapping blocks closed early.             *)
(*                                                                         *)
(* Sources: providers/open_router/client.py, and stream_response of        *)
(* providers/anthropic_messages.py that drives it.                         *)
(*                                                                         *)
(* Granularity.  An event of the provider is one action, but that stops    *)
(* and a start that are yielded together reach the client one by one.      *)
(* Bodies that are not JSON or lack a block or an index are left out.      *)
(* That the events form a message is ImplementsClientStream.               *)
(***************************************************************************)
EXTENDS ClientEvents, FiniteSets

CONSTANTS
    Blocks,     \* the provider's indexes of blocks
    NoBlock,    \* Python's None where an index is expected
    Faults      \* what may go wrong: the request is refused before anything was sent, or
                \* the stream breaks; blocks that were closed early go on late

ASSUME BlocksAssumption == IsFiniteSet(Blocks) /\ NoBlock \notin Blocks
ASSUME FaultsAssumption == Faults \subseteq {"refused", "broken", "late"}

VARIABLES
    pc,                 \* where the transport is
    thinkingEnabled,    \* of the request
    begun, running,     \* the provider's blocks: all, those it has not stopped
    starting,           \* the block whose start waits for others to be closed
    sentAnyEvent,       \* sent_any_event
    nextIndex,          \* next_index
    indexMap,           \* index_map, -1 for None
    dropped,            \* dropped_indexes
    openBlocks,         \* open_block_types: keys
    closedIndexes,      \* closed_indexes
    messageStopped      \* message_stopped

providerVars == <<begun, running>>
filterVars == <<nextIndex, indexMap, dropped, openBlocks, closedIndexes, messageStopped>>
vars == <<pc, thinkingEnabled, providerVars, starting, sentAnyEvent, filterVars,
          clientVars>>

\* The classes of content blocks that the filter tells apart.
Types == {"thinking", "redacted_thinking", "other"}

TypeOK ==
    /\ pc \in {"stream", "closing", "error", "errorStart", "errorDelta", "errorStop",
               "errorEnd", "done"}
    /\ thinkingEnabled \in BOOLEAN
    /\ begun \subseteq Blocks /\ running \subseteq begun
    /\ starting \in Blocks \cup {NoBlock}
    /\ sentAnyEvent \in BOOLEAN
    /\ nextIndex \in Nat
    /\ indexMap \in [Blocks -> Nat \cup {-1}]
    /\ dropped \subseteq begun
    /\ openBlocks \subseteq running /\ closedIndexes \subseteq running
    /\ messageStopped \in BOOLEAN
    /\ phase \in {"none", "open", "ended"}
    /\ started \in Nat /\ opened \subseteq Nat

Init ==
    /\ pc = "stream" /\ thinkingEnabled \in BOOLEAN
    /\ begun = {} /\ running = {} /\ starting = NoBlock
    /\ sentAnyEvent = FALSE
    /\ nextIndex = 0 /\ indexMap = [b \in Blocks |-> -1]
    /\ dropped = {} /\ openBlocks = {} /\ closedIndexes = {} /\ messageStopped = FALSE
    /\ phase = "none" /\ started = 0 /\ opened = {} /\ last = <<"none", 0, FALSE>>

-----------------------------------------------------------------------------
(* Events of the provider.  It sends a message, whose blocks may overlap.  *)

MessageStart ==
    /\ pc = "stream" /\ phase = "none"
    /\ sentAnyEvent' = TRUE
    /\ message_start
    /\ UNCHANGED <<pc, thinkingEnabled, providerVars, starting, filterVars>>

_should_drop_block_type(type) ==
    type = "redacted_thinking" \/ (~thinkingEnabled /\ type = "thinking")

Streaming == pc = "stream" /\ phase # "none" /\ ~messageStopped

\* Mutant: the next index is not counted on.
MutantBlockStart(b, type) ==
    /\ Streaming /\ b \notin begun
    /\ begun' = begun \cup {b} /\ running' = running \cup {b}
    /\ IF _should_drop_block_type(type)
         THEN /\ dropped' = dropped \cup {b}
              /\ UNCHANGED <<pc, starting, indexMap>>
         ELSE /\ indexMap' = [indexMap EXCEPT ![b] = nextIndex]
              /\ pc' = "closing" /\ starting' = b
              /\ UNCHANGED dropped
    /\ UNCHANGED <<thinkingEnabled, sentAnyEvent, nextIndex, openBlocks, closedIndexes,
                   messageStopped, clientVars>>

\* A block starts: it is hidden, or gets the next index.
BlockStart(b, type) ==
    /\ Streaming /\ b \notin begun
    /\ begun' = begun \cup {b} /\ running' = running \cup {b}
    /\ IF _should_drop_block_type(type)
         THEN /\ dropped' = dropped \cup {b}
              /\ UNCHANGED <<pc, starting, nextIndex, indexMap>>
         ELSE /\ indexMap' = [indexMap EXCEPT ![b] = nextIndex]
              /\ nextIndex' = nextIndex + 1
              /\ pc' = "closing" /\ starting' = b
              /\ UNCHANGED dropped
    /\ UNCHANGED <<thinkingEnabled, sentAnyEvent, openBlocks, closedIndexes,
                   messageStopped, clientVars>>

\* _close_open_blocks_before: what overlaps it is closed first, ...
CloseOverlapping(b) ==
    /\ pc = "closing" /\ b \in openBlocks \ {starting}
    /\ openBlocks' = openBlocks \ {b} /\ closedIndexes' = closedIndexes \cup {b}
    /\ content_block_stop(indexMap[b])
    /\ UNCHANGED <<pc, thinkingEnabled, providerVars, starting, sentAnyEvent, nextIndex,
                   indexMap, dropped, messageStopped>>

\* ... and then it is passed on.
PassStart ==
    /\ pc = "closing" /\ openBlocks \subseteq {starting}
    /\ openBlocks' = openBlocks \cup {starting}
    /\ pc' = "stream" /\ starting' = NoBlock /\ sentAnyEvent' = TRUE
    /\ content_block_start(indexMap[starting])
    /\ UNCHANGED <<thinkingEnabled, providerVars, nextIndex, indexMap, dropped,
                   closedIndexes, messageStopped>>

\* A block goes on: passed on with its index, or hidden.
BlockDelta(b) ==
    /\ Streaming /\ b \in running
    /\ b \in closedIndexes => "late" \in Faults
    /\ IF indexMap[b] # -1
         THEN content_block_delta(indexMap[b])
         ELSE UNCHANGED clientVars
    /\ UNCHANGED <<pc, thinkingEnabled, providerVars, starting, sentAnyEvent, filterVars>>

\* A block stops: dropped if it was closed early, passed on, or hidden.
BlockStop(b) ==
    /\ Streaming /\ b \in running
    /\ running' = running \ {b}
    /\ IF b \in closedIndexes
         THEN closedIndexes' = closedIndexes \ {b} /\ UNCHANGED <<clientVars, openBlocks>>
         ELSE IF indexMap[b] # -1
                THEN /\ content_block_stop(indexMap[b]) /\ openBlocks' = openBlocks \ {b}
                     /\ UNCHANGED closedIndexes
                ELSE UNCHANGED <<clientVars, openBlocks, closedIndexes>>
    /\ UNCHANGED <<pc, thinkingEnabled, begun, starting, sentAnyEvent, nextIndex, indexMap,
                   dropped, messageStopped>>

\* The message ends; of what follows nothing is passed on.
MessageStop ==
    /\ Streaming /\ running = {}
    /\ messageStopped' = TRUE
    /\ message_stop
    /\ UNCHANGED <<pc, thinkingEnabled, providerVars, starting, sentAnyEvent, nextIndex,
                   indexMap, dropped, openBlocks, closedIndexes>>

\* The provider closes the connection, after the message or before.
StreamEnds ==
    /\ pc = "stream" /\ pc' = "done"
    /\ UNCHANGED <<thinkingEnabled, providerVars, starting, sentAnyEvent, filterVars,
                   clientVars>>

-----------------------------------------------------------------------------
(* _emit_error_events: a block with the error, numbered from 0, and the end *)
(* of the message, whatever the client has received.                        *)

StreamFails ==
    /\ pc = "stream"
    /\ (IF sentAnyEvent THEN "broken" ELSE "refused") \in Faults
    /\ pc' = IF sentAnyEvent THEN "errorStart" ELSE "error"
    /\ UNCHANGED <<thinkingEnabled, providerVars, starting, sentAnyEvent, filterVars,
                   clientVars>>

ErrorEvent ==
    /\ \/ pc = "error" /\ pc' = "errorStart" /\ message_start
       \/ pc = "errorStart" /\ pc' = "errorDelta" /\ content_block_start(0)
       \/ pc = "errorDelta" /\ pc' = "errorStop" /\ content_block_delta(0)
       \/ pc = "errorStop" /\ pc' = "errorEnd" /\ content_block_stop(0)
       \/ pc = "errorEnd" /\ pc' = "done" /\ message_stop
    /\ UNCHANGED <<thinkingEnabled, providerVars, starting, sentAnyEvent, filterVars>>

-----------------------------------------------------------------------------

Next ==
    \/ MessageStart \/ PassStart \/ MessageStop \/ StreamEnds \/ StreamFails \/ ErrorEvent
    \/ \E b \in Blocks :
        \/ CloseOverlapping(b) \/ BlockDelta(b) \/ BlockStop(b)
        \/ \E type \in Types : BlockStart(b, type)

Spec == Init /\ [][Next]_vars
=============================================================================
