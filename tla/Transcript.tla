----------------------------- MODULE Transcript -----------------------------
(***************************************************************************)
(* What the chat is shown of one CLI run (messaging/transcript.py), from   *)
(* the events the CLI prints (messaging/event_parser.py), as the loop of   *)
(* messaging/handler.py applies them.  A run that calls the tool "Task"    *)
(* starts a subagent, whose own text is to be hidden until the Task's      *)
(* result arrives; subagents nest and run in parallel.                     *)
(*                                                                         *)
(* The CLI is external.  One CLI either prints whole messages or streams   *)
(* their blocks, and names its Task calls in one of three ways.  An id is  *)
(* a sequence of tokens, of which the code's startswith is IsPrefix.       *)
(***************************************************************************)
EXTENDS Integers, FiniteSets, SequencesExt

CONSTANTS
    Index,          \* the content block indices of a streamed message
    ToolIds,        \* ids of calls of ordinary tools
    TaskLikeTools,  \* those of them that contain "task"
    MaxEvents,      \* bound: events and blocks the CLI sends
    MaxTasks,       \* bound: Tasks it starts
    Limit,          \* limit_chars, in some unit of length
    MarkerLen,      \* length of "... (truncated)\n"
    StatusLen,      \* length of "\n\n" and the status
    MinBudget,      \* what is left of the last segment must be longer than this
    TailMax         \* text_tail_max and thinking_tail_max

ASSUME TranscriptAssumption ==
    /\ TaskLikeTools \subseteq ToolIds
    /\ {"task", "__task_"} \cap ToolIds = {}     \* they are no beginnings of a Task's id
    /\ {MaxEvents, MaxTasks, Limit, MarkerLen, StatusLen, MinBudget, TailMax} \subseteq Nat
    /\ MarkerLen + StatusLen <= Limit

VARIABLES
    style,      \* how this CLI reports: are blocks streamed, are Tasks named
    blocks,     \* of the message being streamed: the number and kind of each block
    started,    \* Tasks started so far; they are numbered
    waiting,    \* those that wait for their result, in the order they started
    overtaken,  \* since Tasks wait, one was answered that started before one that waits
    sent,       \* events and blocks so far
    phase,      \* of the run: "running", "exited", "over"
    parsed,     \* events the handler has yet to process, of the line it read
    had,        \* had_transcript_events
    segments,   \* _segments
    open,       \* _open_thinking/text/tools_by_index
    unclosed,   \* the ToolCallSegments that are not closed, by their blocks
    names,      \* _tool_name_by_id
    subagents   \* _subagent_stack and _subagent_segments

cliVars == <<style, blocks, started, waiting, overtaken, sent>>
bufferVars == <<segments, open, unclosed, names, subagents>>
vars == <<cliVars, phase, parsed, had, bufferVars>>

NoBlock == [n |-> 0, kind |-> "none"]
Ended == [n |-> 0, kind |-> "ended"]
NothingOpen == [tool |-> 0, thinking |-> 0, text |-> 0]
Blank == <<>>
TaskId(k) == <<"task", k>>
Ids == {<<t>> : t \in ToolIds} \cup {TaskId(k) : k \in 1..MaxTasks}

Init ==
    /\ style \in [stream : BOOLEAN, ids : {"given", "omitted", "absent"}]
    /\ blocks = [i \in Index |-> NoBlock]
    /\ started = 0 /\ waiting = <<>> /\ overtaken = FALSE /\ sent = 0
    /\ phase = "running" /\ parsed = <<>> /\ had = FALSE
    /\ segments = <<>> /\ subagents = <<>> /\ unclosed = {}
    /\ open = [i \in Index |-> NothingOpen]
    /\ names = [id \in Ids |-> "none"]

-----------------------------------------------------------------------------
(* The lines the CLI prints and what parse_cli_event makes of them *)

\* A block of kind "task" is a tool call whose name is Task: its id may be
\* missing.  The event keeps the block's number and who speaks.
Parsed(type, i, kind, id, n) ==
    [type |-> type, index |-> i, kind |-> IF kind = "task" THEN "tool" ELSE kind,
     name |-> IF kind = "task" THEN "Task" ELSE "tool",
     id |-> id, block |-> n, inTask |-> waiting # <<>>]

CallId(kind, tool, k) ==
    CASE kind = "tool" -> <<tool>>
      [] kind = "task" /\ style.ids = "given" -> TaskId(k)
      [] OTHER -> Blank

TasksIn(content) == Cardinality({j \in DOMAIN content : content[j] = "task"})

StartTasks(content) ==
    /\ started' = started + TasksIn(content)
    /\ started' <= MaxTasks
    /\ waiting' = waiting \o [j \in 1..TasksIn(content) |-> started + j]

Line(cost) ==
    /\ phase = "running" /\ parsed = <<>>
    /\ sent' = sent + cost /\ sent' <= MaxEvents
    /\ UNCHANGED <<style, had, bufferVars>>

MessageOver == \A i \in Index : blocks[i] = NoBlock

\* A whole assistant message: its blocks in their order.
AssistantMessage(content, tool) ==
    /\ ~style.stream
    /\ Line(Len(content)) /\ StartTasks(content)
    /\ parsed' = [j \in DOMAIN content |->
                    Parsed("chunk", -1, content[j],
                           CallId(content[j], tool, started + TasksIn(SubSeq(content, 1, j))),
                           sent + j)]
    /\ UNCHANGED <<blocks, overtaken, phase>>

\* A block of a streamed message: they are numbered in turn.
BlockStart(i, kind, tool) ==
    /\ style.stream
    /\ \A j \in Index : blocks[j] = NoBlock <=> j >= i
    /\ Line(1) /\ StartTasks(<<kind>>)
    /\ blocks' = [blocks EXCEPT ![i] = [n |-> sent + 1, kind |-> kind]]
    /\ parsed' = <<Parsed("start", i, kind, CallId(kind, tool, started + 1), sent + 1)>>
    /\ UNCHANGED <<overtaken, phase>>

BlockDelta(i) ==
    /\ blocks[i].n # 0
    /\ Line(1)
    /\ parsed' = <<Parsed("delta", i, blocks[i].kind, Blank, blocks[i].n)>>
    /\ UNCHANGED <<blocks, started, waiting, overtaken, phase>>

BlockStop(i) ==
    /\ blocks[i].n # 0
    /\ Line(1)
    /\ blocks' = [blocks EXCEPT ![i] = Ended]
    /\ parsed' = <<Parsed("stop", i, "none", Blank, 0)>>
    /\ UNCHANGED <<started, waiting, overtaken, phase>>

\* The end of a streamed message, a line the parser does not know: blocks whose
\* stop was not printed end with it.
MessageStop ==
    /\ ~MessageOver
    /\ Line(0)
    /\ blocks' = [i \in Index |-> NoBlock]
    /\ UNCHANGED <<started, waiting, overtaken, phase, parsed>>

ResultIds(k) ==
    CASE style.ids = "given" -> {TaskId(k), Append(TaskId(k), "result")}
      [] style.ids = "omitted" -> {TaskId(k)}
      [] OTHER -> {Blank}

\* The result of a Task, of any of those that wait.
TaskResult(w, id) ==
    /\ MessageOver /\ Line(1)
    /\ id \in ResultIds(waiting[w])
    /\ waiting' = RemoveAt(waiting, w)
    /\ overtaken' = (waiting' # <<>> /\ (overtaken \/ w < Len(waiting)))
    /\ parsed' = <<Parsed("result", -1, "tool", id, 0)>>
    /\ UNCHANGED <<blocks, started, phase>>

ToolResult(tool) ==
    /\ MessageOver /\ Line(1)
    /\ names[<<tool>>] # "none"
    /\ parsed' = <<Parsed("result", -1, "tool", <<tool>>, 0)>>
    /\ UNCHANGED <<blocks, started, waiting, overtaken, phase>>

ErrorLine ==
    /\ Line(1)
    /\ parsed' = <<Parsed("error", -1, "none", Blank, 0)>>
    /\ UNCHANGED <<blocks, started, waiting, overtaken, phase>>

Exit(failed) ==
    /\ Line(0)
    /\ phase' = "exited"
    /\ parsed' = (IF failed THEN <<Parsed("error", -1, "none", Blank, 0)>> ELSE <<>>)
                 \o <<Parsed("complete", -1, "none", Blank, 0)>>
    /\ UNCHANGED <<blocks, started, waiting, overtaken>>

-----------------------------------------------------------------------------
(* TranscriptBuffer *)

NewSegment(kind, size, fed) == [kind |-> kind, size |-> size, fed |-> fed]

\* Mutant: text is left open.
MutantStopped(o) == IF o.tool # 0 THEN [o EXCEPT !.tool = 0] ELSE [o EXCEPT !.thinking = 0]

\* block_stop closes what is open at its index: the tool, or else the thinking,
\* or else the text.
Stopped(o) ==
    CASE o.tool # 0 -> [o EXCEPT !.tool = 0]
      [] o.tool = 0 /\ o.thinking # 0 -> [o EXCEPT !.thinking = 0]
      [] OTHER -> [o EXCEPT !.text = 0]

\* An open index whose reuse, or stop, closes what was there.
Reuse(i, o) ==
    /\ open' = [open EXCEPT ![i] = o]
    /\ unclosed' = unclosed \ {open[i].tool}

\* Inside a Task only tool calls and results are shown.
Hide(ev) ==
    /\ subagents # <<>>
    /\ ev.kind \in {"thinking", "text"}
    /\ UNCHANGED bufferVars

StartText(ev) ==
    /\ subagents = <<>>
    /\ ev.type = "start" /\ ev.kind \in {"thinking", "text"}
    /\ segments' = Append(segments, NewSegment(ev.kind, 0, {}))
    /\ Reuse(ev.index, [Stopped(open[ev.index]) EXCEPT ![ev.kind] = Len(segments')])
    /\ UNCHANGED <<names, subagents>>

OpenAt(ev) == IF ev.type = "delta" THEN open[ev.index][ev.kind] ELSE 0

AppendText(ev) ==
    /\ subagents = <<>>
    /\ ev.type \in {"delta", "chunk"} /\ ev.kind \in {"thinking", "text"}
    /\ \/ /\ OpenAt(ev) # 0
          /\ segments' = [segments EXCEPT ![OpenAt(ev)] =
                            NewSegment(ev.kind, @.size + 1, @.fed \cup {ev.block})]
          /\ UNCHANGED open
       \/ /\ OpenAt(ev) = 0
          /\ segments' = Append(segments, NewSegment(ev.kind, 1, {ev.block}))
          /\ open' = IF ev.type = "delta" THEN [open EXCEPT ![ev.index][ev.kind] = Len(segments')]
                                          ELSE open
    /\ UNCHANGED <<unclosed, names, subagents>>

IsCall(ev) == ev.kind = "tool" /\ ev.type \in {"start", "chunk"}

Remember(ev) == names' = [id \in Ids |-> IF id = ev.id THEN ev.name ELSE names[id]]

\* An entry of the stack, under a made-up id if the call has none.
Entry(id, segment) ==
    [id |-> IF id # Blank THEN id ELSE <<"__task_", Len(subagents) + 1>>, segment |-> segment]

\* A Task call: its subagent is put on the stack.
StartTask(ev) ==
    /\ IsCall(ev) /\ ev.name = "Task"
    /\ Remember(ev)
    /\ segments' = Append(segments, NewSegment("subagent", 0, {}))
    /\ subagents' = Append(subagents, Entry(ev.id, Len(segments')))
    /\ IF ev.type = "start" THEN Reuse(ev.index, Stopped(open[ev.index]))
                            ELSE UNCHANGED <<open, unclosed>>

Counted == [segments EXCEPT ![Last(subagents).segment].size = @ + 1]

\* Any other call: counted by the innermost subagent, or a segment of its own.
CallTool(ev) ==
    /\ IsCall(ev) /\ ev.name # "Task"
    /\ Remember(ev)
    /\ segments' = IF subagents # <<>> THEN Counted
                                       ELSE Append(segments, NewSegment("tool_call", 0, {}))
    /\ IF ev.type = "start"
         THEN /\ open' = [open EXCEPT ![ev.index] = [Stopped(@) EXCEPT !.tool = ev.block]]
              /\ unclosed' = (unclosed \ {open[ev.index].tool}) \cup {ev.block}
         ELSE UNCHANGED <<open, unclosed>>
    /\ UNCHANGED subagents

DeltaTool(ev) ==
    /\ ev.type = "delta" /\ ev.kind = "tool"
    /\ UNCHANGED bufferVars

StopBlock(ev) ==
    /\ ev.type = "stop"
    /\ Reuse(ev.index, Stopped(open[ev.index]))
    /\ UNCHANGED <<segments, names, subagents>>

RoughlyMatch(a, b) == a # Blank /\ b # Blank /\ (IsPrefix(a, b) \/ IsPrefix(b, a))
Synthetic(id) == Head(id) = "__task_"
LooksLikeTask(id) == id # Blank /\ Head(id) \in {"task"} \cup TaskLikeTools
NameOf(id) == IF id \in Ids THEN names[id] ELSE "none"

\* Mutant: a result closes the innermost subagent.
MutantPopped(id) == Front(subagents)

\* _subagent_pop: down to the last entry that matches; a result without an id
\* closes a made-up top.
Popped(id) ==
    LET matching == {k \in DOMAIN subagents : RoughlyMatch(subagents[k].id, id)}
    IN  IF id = Blank
          THEN IF Synthetic(Last(subagents).id) THEN Front(subagents) ELSE subagents
          ELSE IF matching = {} THEN subagents
                                ELSE SubSeq(subagents, 1, Max(matching) - 1)

\* Mutant: the name of the call is not looked at.
MutantReconcile(id) ==
    CASE subagents = <<>> -> subagents
      [] subagents # <<>> /\ Popped(id) # subagents -> Popped(id)
      [] OTHER -> IF Synthetic(Last(subagents).id) /\ LooksLikeTask(id)
                    THEN Front(subagents) ELSE subagents

\* What a result leaves of the stack: a made-up top is also closed by an
\* unknown id that looks like a Task's.
AfterResult(id) ==
    CASE subagents = <<>> -> subagents
      [] subagents # <<>> /\ Popped(id) # subagents -> Popped(id)
      [] OTHER -> IF /\ Synthetic(Last(subagents).id)
                     /\ NameOf(id) \in {"none", "Task"}
                     /\ LooksLikeTask(id)
                    THEN Front(subagents) ELSE subagents

\* The handler asks for no results to be shown.
Result(ev) ==
    /\ ev.type = "result"
    /\ subagents' = AfterResult(ev.id)
    /\ UNCHANGED <<segments, open, unclosed, names>>

AppendError(ev) ==
    /\ ev.type = "error"
    /\ segments' = Append(segments, NewSegment("error", 0, {}))
    /\ UNCHANGED <<open, unclosed, names, subagents>>

\* A run of which there is nothing to show says "Done.".
Complete(ev) ==
    /\ ev.type = "complete"
    /\ segments' = IF ~had /\ subagents = <<>> THEN Append(segments, NewSegment("text", 1, {sent + 1}))
                                               ELSE segments
    /\ UNCHANGED <<open, unclosed, names, subagents>>

\* One turn of the handler's loop over the events of a line.
Process ==
    /\ phase \in {"running", "exited"} /\ parsed # <<>>
    /\ LET ev == Head(parsed)
       IN  \/ Hide(ev) \/ StartText(ev) \/ AppendText(ev) \/ StartTask(ev) \/ CallTool(ev)
           \/ DeltaTool(ev) \/ StopBlock(ev) \/ Result(ev) \/ AppendError(ev) \/ Complete(ev)
    /\ parsed' = Tail(parsed)
    /\ had' = (had \/ Head(parsed).type # "complete")
    /\ phase' = IF phase = "exited" /\ parsed' = <<>> THEN "over" ELSE phase
    /\ UNCHANGED cliVars

\* The task is cancelled, or fails, between two events.  Only /stop adds nothing.
Abort(stopped) ==
    /\ phase \in {"running", "exited"}
    /\ phase' = "over" /\ parsed' = <<>>
    /\ segments' = IF stopped THEN segments ELSE Append(segments, NewSegment("error", 0, {}))
    /\ UNCHANGED <<cliVars, had, open, unclosed, names, subagents>>

Kinds == {"text", "thinking", "tool", "task"}

CliLine ==
    \/ \E content \in SeqOf(Kinds, 2) \ {<<>>}, tool \in ToolIds : AssistantMessage(content, tool)
    \/ \E i \in Index, kind \in Kinds, tool \in ToolIds : BlockStart(i, kind, tool)
    \/ \E i \in Index : BlockDelta(i) \/ BlockStop(i)
    \/ MessageStop
    \/ \E w \in DOMAIN waiting : \E id \in ResultIds(waiting[w]) : TaskResult(w, id)
    \/ \E tool \in ToolIds : ToolResult(tool)
    \/ ErrorLine
    \/ \E failed \in BOOLEAN : Exit(failed)

Next == CliLine \/ Process \/ \E stopped \in BOOLEAN : Abort(stopped)

Spec == Init /\ [][Next]_vars

-----------------------------------------------------------------------------
(* TranscriptBuffer.render, in lengths *)

Shorter(a, b) == IF a < b THEN a ELSE b

\* Text without content is not shown; the other kinds have a header.
RenderedLen(segment) ==
    CASE segment.kind = "text" -> Shorter(segment.size, TailMax)
      [] segment.kind = "thinking" -> 1 + Shorter(segment.size, TailMax)
      [] segment.kind = "subagent" -> 2
      [] OTHER -> 1

Parts ==
    LET shown(parts, segment) ==
          IF RenderedLen(segment) > 0 THEN Append(parts, RenderedLen(segment)) ELSE parts
    IN  FoldLeft(shown, <<>>, segments)

\* The length of the newest k parts, a line each, with the marker if some are missing.
Joined(parts, k) ==
    LET newest == SubSeq(parts, Len(parts) - k + 1, Len(parts))
        body == FoldLeft(+, k - 1, newest)
    IN  StatusLen + (IF k = 0 THEN 0 ELSE body + IF k < Len(parts) THEN MarkerLen ELSE 0)

\* Mutant: the status is forgotten.
MutantBudget == Limit - MarkerLen

Budget == Limit - MarkerLen - StatusLen

\* How many parts are shown, how much of the newest one if none fits, and the length of all.
Rendered ==
    LET parts == Parts
        fitting == {k \in 1..Len(parts) : Joined(parts, k) <= Limit}
    IN  CASE parts = <<>> -> [full |-> 0, tail |-> 0, len |-> StatusLen]
          [] parts # <<>> /\ fitting # {} ->
               [full |-> Max(fitting), tail |-> 0, len |-> Joined(parts, Max(fitting))]
          [] parts # <<>> /\ fitting = {} /\ Budget > MinBudget ->
               LET tail == Shorter(Last(parts), Budget)
               IN  [full |-> 0, tail |-> tail, len |-> MarkerLen + tail + StatusLen]
          [] OTHER -> [full |-> 0, tail |-> 0, len |-> MarkerLen + StatusLen]

-----------------------------------------------------------------------------
(* Properties *)

\* Types: indices refer to segments that exist and to blocks that were sent.
TypeOK ==
    /\ style \in [stream : BOOLEAN, ids : {"given", "omitted", "absent"}]
    /\ blocks \in [Index -> [n : 0..MaxEvents, kind : Kinds \cup {"none", "ended"}]]
    /\ started \in 0..MaxTasks /\ sent \in 0..MaxEvents
    /\ waiting \in Seq(1..started)
    /\ {overtaken, had} \subseteq BOOLEAN
    /\ phase \in {"running", "exited", "over"}
    /\ \A j \in DOMAIN segments :
          segments[j] \in [kind : {"text", "thinking", "tool_call", "subagent", "error"},
                          size : Nat, fed : SUBSET (1..(MaxEvents + 1))]
    /\ open \in [Index -> [tool : 0..MaxEvents, thinking : 0..Len(segments), text : 0..Len(segments)]]
    /\ unclosed \subseteq 1..MaxEvents
    /\ names \in [Ids -> {"none", "tool", "Task"}]
    /\ \A k \in DOMAIN subagents :
          /\ subagents[k].segment \in DOMAIN segments
          /\ segments[subagents[k].segment].kind = "subagent"

Quiet == parsed = <<>> /\ phase = "running"

\* No answered Task is waited for: with ids, the stack holds Tasks that wait, the older
\* ones below; with made-up ids, as many as wait.  So once all Tasks are answered, in any
\* order, nothing stays on the stack and the run's text is shown again (_subagent_pop
\* and the reconciliation of made-up ids).
StackWaits ==
    Quiet =>
      IF style.ids = "given"
        THEN /\ \A k \in DOMAIN subagents :
                   \E w \in DOMAIN waiting : subagents[k].id = TaskId(waiting[w])
             /\ \A j, k \in DOMAIN subagents : j < k => subagents[j].id[2] < subagents[k].id[2]
        ELSE Len(subagents) = Len(waiting)

\* What is streamed into one block is shown in one segment, and no segment
\* mixes two, though indices are used again in every message and a stop may be
\* missing: an index is open for one block at a time, and a call of which the
\* index was used again is closed.
BlocksKeptApart ==
    /\ \A j \in DOMAIN segments : Cardinality(segments[j].fed) <= 1
    /\ \A j, k \in DOMAIN segments : segments[j].fed \cap segments[k].fed # {} => j = k
    /\ \A i \in Index : Cardinality({f \in DOMAIN NothingOpen : open[i][f] # 0}) <= 1
    /\ unclosed = {open[i].tool : i \in Index} \ {0}

\* "Inside a Task/subagent, we only show tool calls/results": a subagent's text
\* is never shown, but for one case: the CLI gives ids, and a Task was answered
\* while one that started after it still waits, which the pop then forgets.
HiddenUnlessOvertaken ==
    [][Process /\ Head(parsed).inTask /\ Head(parsed).kind \in {"text", "thinking"}
         => segments' = segments \/ (overtaken /\ style.ids = "given")]_vars

\* The message fits the platform's limit, and what is newest is on it, at least
\* in part, whenever the marker and the status leave enough room.
RenderFits ==
    LET parts == Parts
        shown == Rendered
    IN  /\ shown.len <= Limit
        /\ parts # <<>> /\ Budget > MinBudget => shown.full > 0 \/ shown.tail > 0
        /\ shown.full < Len(parts) => Joined(parts, shown.full + 1) > Limit
=============================================================================
