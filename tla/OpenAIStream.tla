---------------------------- MODULE OpenAIStream ----------------------------
(***************************************************************************)
(* The stream of one message through an OpenAI-style provider: chunks with *)
(* reasoning, text and tool calls in any order become content blocks.      *)
(*                                                                         *)
(* Sources: _stream_response_impl and _process_tool_call of                *)
(* providers/openai_compat.py, SSEBuilder and ContentBlockManager of       *)
(* core/anthropic/sse.py.                                                  *)
(*                                                                         *)
(* Granularity.  The transport is a generator: each event it yields is one *)
(* action, and so is each part of a chunk it takes up.  A part is one      *)
(* piece of reasoning, text or thinking that the parsers return, one tool  *)
(* call they detect, or one entry of delta.tool_calls; a chunk of several  *)
(* is several chunks of one.  With thinking disabled its pieces are        *)
(* dropped, which is a stream without them.  A client that goes away ends  *)
(* the generator at a yield; nothing it has seen changes.                  *)
(* That the events form a message is ImplementsClientStream.               *)
(***************************************************************************)
EXTENDS ClientEvents, Sequences

CONSTANTS
    Tools,      \* indexes of the provider's tool calls; a negative one is replaced by
                \* the number of known calls, which is one of these
    NoName,     \* Python's None where a name is expected
    MaxChunks   \* bound: parts the provider sends

\* What arrives as the name of a tool: whole, or as a beginning and an end.
Pieces == {"", "Ta", "sk", "Task", "Other"}
\* What register_tool_name makes of them: mixed is any other concatenation.
ToolNames == Pieces \cup {"tool_call", "mixed"}

ASSUME NoNameAssumption == NoName \notin ToolNames
ASSUME ChunksAssumption == MaxChunks \in Nat

VARIABLES
    pc,                 \* where the generator is
    resume,             \* where it goes on after the part it emits
    chunks,             \* parts received
    errorOccurred,      \* error_occurred
    nextIndex,          \* next_index
    thinkingIndex,      \* thinking_index ...
    thinkingStarted,    \* ... and whether its block is open
    textIndex,          \* text_index ...
    textStarted,        \* ... and whether its block is open
    single,             \* the block of a detected tool call or of an error
    call,               \* the entry of delta.tool_calls being processed
    known,              \* tool_states: keys,
    toolStarted,        \* started,
    name,               \* name,
    block,              \* block_index,
    buffered,           \* task_arg_buffer is not empty,
    emitted,            \* task_args_emitted,
    contents,           \* contents, as what each delta is
    stopped,            \* tools that the loop of close_all_blocks has passed
    announced           \* history: the name with which a tool's block was started

controlVars == <<pc, resume, chunks, errorOccurred>>
contentVars == <<thinkingIndex, thinkingStarted, textIndex, textStarted>>
toolVars == <<known, toolStarted, name, block, buffered, emitted, contents, stopped,
              announced>>
vars == <<controlVars, nextIndex, contentVars, single, call, toolVars, clientVars>>

\* Parts of a chunk, and of what follows the last one.
Parts == {"thinking", "text", "tool", "heuristic", "error"}
Stages == {"stream", "flush", "flushTools", "fallback", "taskArgs"}
Calls == [tool : Tools, id : BOOLEAN, args : BOOLEAN]
NoCall == [id |-> FALSE, args |-> FALSE]
Indexes == Nat \cup {-1}

TypeOK ==
    /\ pc \in Parts \cup Stages \cup {"begin", "single", "singleDone", "close", "done"}
    /\ resume \in Stages
    /\ chunks \in Nat
    /\ errorOccurred \in BOOLEAN
    /\ nextIndex \in Nat
    /\ thinkingIndex \in Indexes /\ thinkingStarted \in BOOLEAN
    /\ textIndex \in Indexes /\ textStarted \in BOOLEAN
    /\ single \in Indexes
    /\ call \in Calls \cup {NoCall} /\ (pc = "tool" => call \in Calls)
    /\ known \subseteq Tools /\ toolStarted \subseteq known
    /\ name \in [Tools -> ToolNames]
    /\ block \in [Tools -> Indexes]
    /\ buffered \subseteq toolStarted
    /\ emitted \subseteq toolStarted
    /\ contents \in [Tools -> Seq({"raw", "foreground", "empty"})]
    /\ stopped \subseteq toolStarted
    /\ announced \in [Tools -> ToolNames]
    /\ phase \in {"none", "open", "ended"}
    /\ started \in Nat /\ opened \subseteq Nat

Init ==
    /\ pc = "begin" /\ resume = "stream" /\ chunks = 0 /\ errorOccurred = FALSE
    /\ nextIndex = 0 /\ single = -1 /\ call = NoCall
    /\ thinkingIndex = -1 /\ thinkingStarted = FALSE
    /\ textIndex = -1 /\ textStarted = FALSE
    /\ known = {} /\ toolStarted = {} /\ buffered = {} /\ emitted = {} /\ stopped = {}
    /\ name = [t \in Tools |-> ""] /\ announced = [t \in Tools |-> ""]
    /\ block = [t \in Tools |-> -1]
    /\ contents = [t \in Tools |-> <<>>]
    /\ phase = "none" /\ started = 0 /\ opened = {} /\ last = <<"none", 0, FALSE>>

-----------------------------------------------------------------------------
(* Chunks.                                                                 *)

Begin ==
    /\ pc = "begin" /\ pc' = "stream"
    /\ message_start
    /\ UNCHANGED <<resume, chunks, errorOccurred, nextIndex, contentVars, single, call,
                   toolVars>>

\* Take up a part, and where to go on after it.
Emit(part, then) == pc' = part /\ resume' = then

\* A piece of reasoning, of thinking or of text, or a tool call found in the text.
ReceiveContent ==
    /\ pc = "stream" /\ chunks < MaxChunks
    /\ \E part \in {"thinking", "text", "heuristic"} : Emit(part, "stream")
    /\ chunks' = chunks + 1
    /\ UNCHANGED <<errorOccurred, nextIndex, contentVars, single, call, toolVars,
                   clientVars>>

\* new.startswith(old), for what arrives as names.
Extends(new, old) == old = "" \/ new = old \/ (old = "Ta" /\ new = "Task")

register_tool_name(prev, piece) ==
    IF Extends(piece, prev) THEN piece
    ELSE IF Extends(prev, piece) THEN prev
    ELSE IF prev = "Ta" /\ piece = "sk" THEN "Task" ELSE "mixed"

ReceiveToolCall(t, piece) ==
    /\ pc = "stream" /\ chunks < MaxChunks
    /\ chunks' = chunks + 1
    /\ IF piece = NoName
         THEN UNCHANGED <<known, name>>
         ELSE /\ known' = known \cup {t}
              /\ name' = [name EXCEPT ![t] = register_tool_name(@, piece)]
    /\ \E id, args \in BOOLEAN : call' = [tool |-> t, id |-> id, args |-> args]
    /\ Emit("tool", "stream")
    /\ UNCHANGED <<errorOccurred, nextIndex, contentVars, single, toolStarted, block,
                   buffered, emitted, contents, stopped, announced, clientVars>>

StreamEnds ==
    /\ pc = "stream" /\ pc' = "flush"
    /\ UNCHANGED <<resume, chunks, errorOccurred, nextIndex, contentVars, single, call,
                   toolVars, clientVars>>

\* The request is refused or the connection breaks.
StreamFails ==
    /\ pc = "stream" /\ Emit("error", "flush") /\ errorOccurred' = TRUE
    /\ UNCHANGED <<chunks, nextIndex, contentVars, single, call, toolVars, clientVars>>

-----------------------------------------------------------------------------
(* Blocks of thinking and text.                                            *)

\* Where close_content_blocks or close_all_blocks runs.
Closing == pc \in {"tool", "heuristic", "error", "close"}
ContentClosed == ~thinkingStarted /\ ~textStarted

StopThinking ==
    /\ thinkingStarted /\ (pc = "text" \/ Closing)
    /\ thinkingStarted' = FALSE
    /\ content_block_stop(thinkingIndex)
    /\ UNCHANGED <<controlVars, nextIndex, thinkingIndex, textIndex, textStarted, single,
                   call, toolVars>>

\* Mutant: the flag stays set.
MutantStopText ==
    /\ textStarted /\ (pc = "thinking" \/ (Closing /\ ~thinkingStarted))
    /\ content_block_stop(textIndex)
    /\ UNCHANGED <<controlVars, nextIndex, contentVars, single, call, toolVars>>

StopText ==
    /\ textStarted /\ (pc = "thinking" \/ (Closing /\ ~thinkingStarted))
    /\ textStarted' = FALSE
    /\ content_block_stop(textIndex)
    /\ UNCHANGED <<controlVars, nextIndex, thinkingIndex, thinkingStarted, textIndex,
                   single, call, toolVars>>

StartThinking ==
    /\ pc = "thinking" /\ ContentClosed
    /\ thinkingIndex' = nextIndex /\ thinkingStarted' = TRUE /\ nextIndex' = nextIndex + 1
    /\ content_block_start(nextIndex)
    /\ UNCHANGED <<controlVars, textIndex, textStarted, single, call, toolVars>>

StartText ==
    /\ pc = "text" /\ ContentClosed
    /\ textIndex' = nextIndex /\ textStarted' = TRUE /\ nextIndex' = nextIndex + 1
    /\ content_block_start(nextIndex)
    /\ UNCHANGED <<controlVars, thinkingIndex, thinkingStarted, single, call, toolVars>>

ContentDelta ==
    /\ \/ pc = "thinking" /\ ~textStarted /\ thinkingStarted
          /\ content_block_delta(thinkingIndex)
       \/ pc = "text" /\ ~thinkingStarted /\ textStarted
          /\ content_block_delta(textIndex)
    /\ pc' = resume
    /\ UNCHANGED <<resume, chunks, errorOccurred, nextIndex, contentVars, single, call,
                   toolVars>>

-----------------------------------------------------------------------------
(* Blocks that are written at once: a detected tool call, an error.        *)

StartSingle ==
    /\ pc \in {"heuristic", "error"} /\ ContentClosed /\ pc' = "single"
    /\ single' = nextIndex /\ nextIndex' = nextIndex + 1
    /\ content_block_start(nextIndex)
    /\ UNCHANGED <<resume, chunks, errorOccurred, contentVars, call, toolVars>>

SingleDelta ==
    /\ pc = "single" /\ pc' = "singleDone"
    /\ content_block_delta(single)
    /\ UNCHANGED <<resume, chunks, errorOccurred, nextIndex, contentVars, single, call,
                   toolVars>>

StopSingle ==
    /\ pc = "singleDone" /\ pc' = resume
    /\ content_block_stop(single)
    /\ UNCHANGED <<resume, chunks, errorOccurred, nextIndex, contentVars, single, call,
                   toolVars>>

-----------------------------------------------------------------------------
(* _process_tool_call, once the content blocks are closed.                 *)

ToolTurn == pc = "tool" /\ ContentClosed
MustStart(t) == t \notin toolStarted /\ (name[t] # "" \/ call.id \/ call.args)

\* A name, an id or arguments start the block, under the name that is known by then.
StartTool(t) ==
    /\ ToolTurn /\ call.tool = t /\ MustStart(t)
    /\ announced' = [announced EXCEPT ![t] =
                         IF name[t] = "" /\ ~call.id THEN "tool_call" ELSE name[t]]
    /\ name' = [name EXCEPT ![t] = IF t \in known THEN @ ELSE announced'[t]]
    /\ known' = known \cup {t} /\ toolStarted' = toolStarted \cup {t}
    /\ block' = [block EXCEPT ![t] = nextIndex] /\ nextIndex' = nextIndex + 1
    /\ content_block_start(nextIndex)
    /\ UNCHANGED <<controlVars, contentVars, single, call, buffered, emitted, contents,
                   stopped>>

\* emit_tool_delta.
emit_tool_delta(t, json) ==
    /\ contents' = [contents EXCEPT ![t] = Append(@, json)]
    /\ content_block_delta(block[t])

\* Arguments of any tool but Task are passed on as they come.
PassArgs(t) ==
    /\ ToolTurn /\ call.tool = t /\ t \in toolStarted /\ call.args /\ name[t] # "Task"
    /\ emit_tool_delta(t, "raw")
    /\ pc' = "stream"
    /\ UNCHANGED <<resume, chunks, errorOccurred, nextIndex, contentVars, single, call,
                   known, toolStarted, name, block, buffered, emitted, stopped, announced>>

\* Mutant: arguments are collected again after they were emitted.
MutantTaskTurn(t) ==
    ToolTurn /\ call.tool = t /\ t \in toolStarted /\ call.args /\ name[t] = "Task"

TaskTurn(t) ==
    /\ ToolTurn /\ call.tool = t /\ t \in toolStarted /\ call.args /\ name[t] = "Task"
    /\ t \notin emitted

\* buffer_task_args: what has come so far is not JSON yet, ...
BufferArgs(t) ==
    /\ TaskTurn(t)
    /\ buffered' = buffered \cup {t}
    /\ pc' = "stream"
    /\ UNCHANGED <<resume, chunks, errorOccurred, nextIndex, contentVars, single, call,
                   known, toolStarted, name, block, emitted, contents, stopped, announced,
                   clientVars>>

\* ... is an object, emitted at once with run_in_background set to false, ...
EmitTaskArgs(t) ==
    /\ TaskTurn(t)
    /\ buffered' = buffered \ {t} /\ emitted' = emitted \cup {t}
    /\ emit_tool_delta(t, "foreground")
    /\ pc' = "stream"
    /\ UNCHANGED <<resume, chunks, errorOccurred, nextIndex, contentVars, single, call,
                   known, toolStarted, name, block, stopped, announced>>

\* ... or is JSON without get(): the exception ends the stream.
TaskArgsRaise(t) ==
    /\ TaskTurn(t)
    /\ buffered' = buffered \cup {t}
    /\ Emit("error", "flush") /\ errorOccurred' = TRUE
    /\ UNCHANGED <<chunks, nextIndex, contentVars, single, call, known, toolStarted, name,
                   block, emitted, contents, stopped, announced, clientVars>>

\* Nothing to start, and no arguments or those of a Task that was emitted.
ToolDone(t) ==
    /\ ToolTurn /\ call.tool = t /\ ~MustStart(t)
    /\ ~call.args \/ (name[t] = "Task" /\ t \in emitted)
    /\ pc' = "stream"
    /\ UNCHANGED <<resume, chunks, errorOccurred, nextIndex, contentVars, single, call,
                   toolVars, clientVars>>

-----------------------------------------------------------------------------
(* After the last chunk or an error.                                       *)

\* What the parser of thinking tags has left.
FlushThinking ==
    /\ pc = "flush"
    /\ \/ \E part \in {"thinking", "text"} : Emit(part, "flushTools")
       \/ pc' = "flushTools" /\ UNCHANGED resume
    /\ UNCHANGED <<chunks, errorOccurred, nextIndex, contentVars, single, call, toolVars,
                   clientVars>>

\* The tool call that the parser of text has left.
FlushHeuristic ==
    /\ pc = "flushTools"
    /\ \/ Emit("heuristic", "fallback")
       \/ pc' = "fallback" /\ UNCHANGED resume
    /\ UNCHANGED <<chunks, errorOccurred, nextIndex, contentVars, single, call, toolVars,
                   clientVars>>

\* Mutant: a stream of nothing but thinking counts as an answer.
MutantFallback ==
    /\ pc = "fallback"
    /\ IF ~errorOccurred /\ textIndex = -1 /\ thinkingIndex # -1 /\ known = {}
         THEN Emit("text", "taskArgs")
         ELSE pc' = "taskArgs" /\ UNCHANGED resume
    /\ UNCHANGED <<chunks, errorOccurred, nextIndex, contentVars, single, call, toolVars,
                   clientVars>>

\* An answer without text and tools gets a blank.
Fallback ==
    /\ pc = "fallback"
    /\ IF ~errorOccurred /\ textIndex = -1 /\ known = {}
         THEN Emit("text", "taskArgs")
         ELSE pc' = "taskArgs" /\ UNCHANGED resume
    /\ UNCHANGED <<chunks, errorOccurred, nextIndex, contentVars, single, call, toolVars,
                   clientVars>>

\* flush_task_arg_buffers: what never became an object is replaced by an empty one.
FlushTaskArgs(t) ==
    /\ pc = "taskArgs" /\ t \in buffered \ emitted
    /\ buffered' = buffered \ {t} /\ emitted' = emitted \cup {t}
    /\ emit_tool_delta(t, "empty")
    /\ UNCHANGED <<controlVars, nextIndex, contentVars, single, call, known, toolStarted,
                   name, block, stopped, announced>>

TaskArgsFlushed ==
    /\ pc = "taskArgs" /\ buffered \ emitted = {}
    /\ pc' = "close"
    /\ UNCHANGED <<resume, chunks, errorOccurred, nextIndex, contentVars, single, call,
                   toolVars, clientVars>>

\* close_all_blocks, after thinking and text: tools in any order.
StopTool(t) ==
    /\ pc = "close" /\ ContentClosed /\ t \in toolStarted \ stopped
    /\ stopped' = stopped \cup {t}
    /\ content_block_stop(block[t])
    /\ UNCHANGED <<controlVars, nextIndex, contentVars, single, call, known, toolStarted,
                   name, block, buffered, emitted, contents, announced>>

\* message_delta and message_stop.
End ==
    /\ pc = "close" /\ ContentClosed /\ stopped = toolStarted
    /\ pc' = "done"
    /\ message_stop
    /\ UNCHANGED <<resume, chunks, errorOccurred, nextIndex, contentVars, single, call,
                   toolVars>>

-----------------------------------------------------------------------------

Content == StopThinking \/ StopText \/ StartThinking \/ StartText \/ ContentDelta
Single == StartSingle \/ SingleDelta \/ StopSingle
Tool(t) ==
    \/ StartTool(t) \/ PassArgs(t) \/ BufferArgs(t) \/ EmitTaskArgs(t)
    \/ TaskArgsRaise(t) \/ ToolDone(t) \/ FlushTaskArgs(t) \/ StopTool(t)
Flush == FlushThinking \/ FlushHeuristic \/ Fallback \/ TaskArgsFlushed

Next ==
    \/ Begin \/ ReceiveContent \/ StreamEnds \/ StreamFails
    \/ Content \/ Single \/ Flush \/ End
    \/ \E t \in Tools : Tool(t) \/ \E piece \in Pieces \cup {NoName} : ReceiveToolCall(t, piece)

Spec == Init /\ [][Next]_vars

-----------------------------------------------------------------------------
(* Properties.                                                             *)

\* The arguments of a tool announced as Task reach the client in one delta, that keeps
\* it in the foreground or is empty, however they were cut up; when the message ends
\* no tool's arguments are held back.  This needs a name that stays what it was: if it
\* goes on after the block was announced (Task, then Output), register_tool_name makes
\* it a longer one, and _process_tool_call passes what comes then on as it is.
TaskInOnePiece ==
    /\ \A t \in toolStarted : announced[t] = "Task" /\ name[t] = "Task" =>
        contents[t] \in {<<>>, <<"foreground">>, <<"empty">>}
    /\ pc = "done" => buffered = {}

\* A message that ended has a block, although thinking was dropped, text held back or
\* the provider sent nothing; except after a tool call without name, id and arguments,
\* which counts as an answer and starts no block.
NeverEmpty == pc = "done" /\ known \subseteq toolStarted => started > 0
=============================================================================
