----------------------------- MODULE TextStream -----------------------------
(***************************************************************************)
(* The text of one answer on its way through the two parsers: deltas of    *)
(* any size come in, thinking, text and tool calls go out.                 *)
(*                                                                         *)
(* Source: _stream_response_impl of providers/openai_compat.py, where it   *)
(* feeds delta.content to the parsers and flushes them in the end.  What   *)
(* becomes of the pieces on the wire is in OpenAIStream.                   *)
(*                                                                         *)
(* What the model writes is a sequence of parts; a part has the kind of    *)
(* what is meant, and the characters in which it is written.  The parsers  *)
(* see only the characters, in deltas that end anywhere.                   *)
(***************************************************************************)
EXTENDS HeuristicToolParser

CONSTANTS
    Answers     \* what the model may write

ASSUME AnswersAssumption ==
    \A a \in Answers :
        /\ Len(a) \in Nat /\ DOMAIN a = 1..Len(a)
        /\ \A i \in DOMAIN a : /\ a[i].kind \in {"raw", "text", "thinking", "call"}
                                /\ a[i].written \in Texts

VARIABLES
    answer,             \* what the model writes, part by part,
    rest,               \* what of it has not come yet, as characters,
    fed,                \* and what has
    thinking_enabled,
    think_parser, heuristic_parser,
    parsed,             \* history: what the first parser has yielded, as characters
    crowded,            \* history: a call came whole while another was open
    items,              \* what has gone out
    ended               \* the stream is over, and the parsers are flushed

textVars == <<answer, rest, fed, thinking_enabled, think_parser, heuristic_parser, parsed,
          crowded, items, ended>>

\* The name of the tool that starts a subagent, and its parameter that may not be set.
TASK == <<"K">>
RUN_IN_BACKGROUND == <<"run_in_background">>

TextInit ==
    /\ answer \in Answers
    /\ rest = FlattenSeq([i \in DOMAIN answer |-> answer[i].written])
    /\ fed = <<>>
    /\ thinking_enabled \in BOOLEAN
    /\ think_parser = NewThinkTagParser
    /\ heuristic_parser = NewHeuristicToolParser
    /\ parsed = <<>>
    /\ crowded = FALSE
    /\ items = <<>>
    /\ ended = FALSE

Chunks(yielded) ==
    FlattenSeq([i \in DOMAIN yielded |-> OfKind(yielded[i].type, yielded[i].content)])

\* What a dict has become by assignments: of two to a key the later one counts.
Dict(assignments) ==
    [key \in {assignments[i][1] : i \in DOMAIN assignments} |->
        assignments[SelectLastInSeq(assignments, LAMBDA a : a[1] = key)][2]]

\* A tool call goes out; a Task is kept in the foreground.
Foreground(tool) ==
    IF tool.name = TASK THEN Append(tool.parameters, <<RUN_IN_BACKGROUND, <<FALSE>>>>)
                        ELSE tool.parameters

OfTools(tools) ==
    [i \in DOMAIN tools |->
        <<"call", [name |-> tools[i].name, input |-> Dict(Foreground(tools[i]))]>>]

\* What is emitted of the characters of a kind.
EmitText(kind, s) == IF kind = "thinking" /\ ~thinking_enabled THEN <<>> ELSE OfKind(kind, s)

\* A chunk that the first parser yields goes out, text through the second one.
Route(out, chunk) ==
    LET h == feedTools(out.parser, chunk.content)
    IN  IF chunk.type = "thinking"
          THEN [out EXCEPT !.items = @ \o EmitText("thinking", chunk.content)]
          ELSE [parser |-> h,
                items |-> out.items \o EmitText("text", h.shown) \o OfTools(h.tools)]

\* The piece has a call up to the end of a parameter, and begins in another one or has
\* the beginning of another one before it.
Crowds(content) ==
    \E i \in DOMAIN content :
        /\ content[i] = BULLET /\ Occurs(PARAM_END, From(content, i))
        /\ heuristic_parser.state # "TEXT" \/ Occurs(<<BULLET>>, Before(content, i))

\* A chunk with a piece of the text.
Receive ==
    /\ ~ended /\ rest # <<>>
    /\ \E n \in 1..Len(rest) :
         LET content == SubSeq(rest, 1, n)
             p == feed(think_parser, content)
             out == FoldLeft(Route, [parser |-> heuristic_parser, items |-> items],
                             p.yielded)
         IN  /\ fed' = fed \o content
             /\ rest' = From(rest, n + 1)
             /\ think_parser' = p
             /\ parsed' = parsed \o Chunks(p.yielded)
             /\ crowded' = (crowded \/ Crowds(content))
             /\ heuristic_parser' = out.parser
             /\ items' = out.items
    /\ UNCHANGED <<answer, thinking_enabled, ended>>

\* The stream ends, where it should or before: what the parsers hold is flushed, that of
\* the first one past the second one.
EndText ==
    /\ ~ended /\ ended' = TRUE
    /\ LET p == flush(think_parser)
           h == flushTools(heuristic_parser)
       IN  /\ think_parser' = p
           /\ parsed' = parsed \o Chunks(p.yielded)
           /\ heuristic_parser' = h
           /\ items' = items \o EmitText(Mode(p.inside), think_parser.buffer)
                             \o OfTools(h.tools)
    /\ UNCHANGED <<answer, rest, fed, crowded, thinking_enabled>>

TextNext == Receive \/ EndText

TextSpec == TextInit /\ [][TextNext]_textVars

-----------------------------------------------------------------------------
(* Properties.                                                             *)

\* The parts of a kind, as they are meant.
Meant(kind) == SelectSeq(answer, LAMBDA part : part.kind = kind)

Characters(kind) ==
    FlattenSeq([i \in DOMAIN Meant(kind) |-> OfKind(kind, Meant(kind)[i].meant)])

ToolCalls == [i \in DOMAIN Meant("call") |-> <<"call", Meant("call")[i].meant>>]

Received(kind) == SelectSeq(items, LAMBDA item : item[1] = kind)

\* However the text is cut into deltas, what ThinkTagParser has yielded so far, followed by
\* what it would make of its buffer, is what a reader makes of the text who sees it whole:
\* no tag is missed or shown and no character is lost, doubled or of the wrong kind.
ThinkingSeparated ==
    parsed \o Separated(think_parser.buffer, think_parser.inside) = Separated(fed, FALSE)

\* Between two deltas the parsers hold back the beginning of a think tag; outside of calls
\* the beginning of a control token, or of a call up to a limit; and in a call what may be
\* the beginning of a parameter, which is all text that begins with "<", without a limit.
\* Any other text has gone out.
NothingElseIsHeld ==
    ~ended =>
        LET s == heuristic_parser.buffer
        IN  /\ \E tag \in {OPEN_TAG, CLOSE_TAG} : IsStrictPrefix(think_parser.buffer, tag)
            /\ heuristic_parser.state = "TEXT" =>
                 s = <<>> \/ IsPrefix(CONTROL_TOKEN_START, s)
            /\ heuristic_parser.state = "MATCHING_FUNCTION" =>
                 Head(s) = BULLET /\ Len(s) <= MaxHeld
            /\ heuristic_parser.state = "PARSING_PARAMETERS" =>
                 s = <<>> \/ Head(Trim(s)) = "<" \/ Occurs(PARAM_START, s)

\* An answer that came whole has been received as it was meant, however it was cut: the
\* text, the thinking if it is shown, and the calls with their parameters, a Task's changed
\* to run in the foreground; none is lost, split, or found where none was meant.  Only a call
\* that comes with a parameter in one piece while another call is open may be taken for a
\* part of that one (tools.py feed searches its whole buffer for parameters).
ReceivedAsMeant ==
    (ended /\ rest = <<>> /\ Meant("raw") = <<>> /\ ~crowded) =>
        /\ Received("text") = Characters("text")
        /\ Received("thinking") = IF thinking_enabled THEN Characters("thinking") ELSE <<>>
        /\ Received("call") = ToolCalls
=============================================================================
