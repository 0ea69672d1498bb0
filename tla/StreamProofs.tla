---------------------------- MODULE StreamProofs ----------------------------
(***************************************************************************)
(* What holds of the stream of one message, through an OpenAI-style        *)
(* provider for every number of tools and chunks, and through OpenRouter   *)
(* for every number of blocks; and of its text, on the way through the two *)
(* parsers, however it is cut into deltas.                                 *)
(*                                                                         *)
(* OpenAI-style.  None of the properties is inductive.  Built says which   *)
(* indexes the client has open, by the flags and maps of the builder, and  *)
(* that they are apart, so that stopping one leaves the others open; Tasks *)
(* what has become of the arguments of a Task; Said why a message cannot   *)
(* come to its end without a block.                                        *)
(*                                                                         *)
(* OpenRouter.  Its bookkeeping holds whatever fails; it implements        *)
(* ClientStream as long as a request fails before anything was passed on   *)
(* and a block that was closed early is quiet until it stops.  The type    *)
(* alone does not say that the index a delta is sent with is open for the  *)
(* client: Book says what the filter's maps and sets have to do with one   *)
(* another, Mirror that openBlocks, through indexMap, is what the client   *)
(* has open.                                                               *)
(*                                                                         *)
(* The text.  ReadSoFar says of every text that may come yet that what has *)
(* been yielded, with what a reader makes of the buffer and that text, is  *)
(* what a reader makes of the whole.  Every turn of a loop keeps it and    *)
(* leaves less to do: Recursion turns such a measure into a solution of    *)
(* the recursive definition, MeasureInduction into what holds of its       *)
(* result.  HeldSoFar says what the second parser keeps between deltas.    *)
(***************************************************************************)
EXTENDS OpenAIStream, TextStream, SequenceTheorems, WellFoundedInduction, TLAPS

InSingle == pc \in {"single", "singleDone"}
Live == toolStarted \ stopped
Given == 0..(nextIndex - 1)

\* Blocks that are open by the builder's own account.
IsOpen(i) ==
    \/ thinkingStarted /\ i = thinkingIndex
    \/ textStarted /\ i = textIndex
    \/ InSingle /\ i = single
    \/ \E t \in Live : i = block[t]

Apart ==
    /\ ~(thinkingStarted /\ textStarted)
    /\ InSingle => ContentClosed
    /\ \A t \in Live :
        /\ thinkingStarted => block[t] # thinkingIndex
        /\ textStarted => block[t] # textIndex
        /\ InSingle => block[t] # single
    /\ \A t, u \in Live : block[t] = block[u] => t = u

Built ==
    /\ started = nextIndex
    /\ \A i : i \in opened <=> IsOpen(i)
    /\ thinkingStarted => thinkingIndex \in Given
    /\ textStarted => textIndex \in Given
    /\ InSingle => single \in Given
    /\ \A t \in Live : block[t] \in Given
    /\ Apart
    /\ stopped # {} => pc \in {"close", "done"}
    /\ pc = "begin" <=> phase = "none"
    /\ pc = "done" <=> phase = "ended"

Tasks ==
    /\ \A t \in toolStarted : announced[t] = "Task" =>
        /\ name[t] \in {"Task", "mixed"}
        /\ name[t] = "Task" =>
            contents[t] \in (IF t \in emitted THEN {<<"foreground">>, <<"empty">>}
                                             ELSE {<<>>})
    /\ \A t \in Tools \ toolStarted : contents[t] = <<>>
    /\ buffered \cap emitted = {}
    /\ pc \in {"close", "done"} => buffered = {}

Said ==
    /\ textIndex # -1 => nextIndex > 0
    /\ toolStarted # {} => nextIndex > 0
    /\ errorOccurred => nextIndex > 0 \/ pc = "error"
    /\ pc \in {"taskArgs", "close", "done"} => nextIndex > 0 \/ known # {}

Inv == TypeOK /\ Built /\ Tasks /\ Said

-----------------------------------------------------------------------------
(* Steps that reach neither the client nor the builder.                    *)

QuietVars == <<nextIndex, contentVars, single, toolStarted, block, stopped, contents,
               announced, clientVars>>

LEMMA InitInv == Init => Inv
<1> SUFFICES ASSUME Init PROVE Inv
  OBVIOUS
<1> USE DEF Init
<1>a. contents \in [Tools -> Seq({"raw", "foreground", "empty"})]
  <2>1. <<>> \in Seq({"raw", "foreground", "empty"})
    BY EmptySeq
  <2> QED BY <2>1, Zenon
<1>b. name \in [Tools -> ToolNames] /\ announced \in [Tools -> ToolNames]
  BY DEF ToolNames, Pieces
<1>c. block \in [Tools -> Indexes] /\ thinkingIndex \in Indexes /\ textIndex \in Indexes
      /\ single \in Indexes
  BY DEF Indexes
<1>1. TypeOK
  BY <1>a, <1>b, <1>c DEF TypeOK, Parts, Stages, NoCall
<1>2. Built
  BY DEF Built, Apart, IsOpen, InSingle, Live, Given, ContentClosed
<1>3. Tasks
  BY DEF Tasks
<1>4. Said
  BY DEF Said
<1> QED
  BY <1>1, <1>2, <1>3, <1>4 DEF Inv

LEMMA QuietBlocks ==
    ASSUME Built, UNCHANGED QuietVars, ~InSingle, ~InSingle',
           stopped # {} => pc' \in {"close", "done"},
           pc # "begin", pc # "done", pc' # "begin", pc' # "done"
    PROVE  Built'
<1> USE DEF QuietVars, contentVars, clientVars
<1>1. Live' = Live /\ Given' = Given
  BY DEF Live, Given
<1>2. \A i : IsOpen(i)' <=> IsOpen(i)
  BY <1>1 DEF IsOpen
<1>3. Apart'
  BY <1>1 DEF Apart, Built
<1> QED
  BY <1>1, <1>2, <1>3 DEF Built

\* Everything the type says but of the client, the builder and a call.
RestOK ==
    /\ pc \in Parts \cup Stages \cup {"begin", "single", "singleDone", "close", "done"}
    /\ resume \in Stages
    /\ chunks \in Nat
    /\ errorOccurred \in BOOLEAN
    /\ call \in Calls \cup {NoCall} /\ (pc = "tool" => call \in Calls)
    /\ known \subseteq Tools /\ toolStarted \subseteq known
    /\ name \in [Tools -> ToolNames]
    /\ buffered \subseteq toolStarted
    /\ emitted \subseteq toolStarted

BuilderOK ==
    /\ nextIndex \in Nat
    /\ thinkingIndex \in Indexes /\ thinkingStarted \in BOOLEAN
    /\ textIndex \in Indexes /\ textStarted \in BOOLEAN
    /\ single \in Indexes
    /\ block \in [Tools -> Indexes]
    /\ contents \in [Tools -> Seq({"raw", "foreground", "empty"})]
    /\ stopped \subseteq toolStarted
    /\ announced \in [Tools -> ToolNames]
    /\ phase \in {"none", "open", "ended"}
    /\ started \in Nat /\ opened \subseteq Nat

LEMMA TypeParts == TypeOK <=> RestOK /\ BuilderOK
  BY DEF TypeOK, RestOK, BuilderOK

LEMMA TypePartsNext == TypeOK' <=> RestOK' /\ BuilderOK'
  BY DEF TypeOK, RestOK, BuilderOK

LEMMA QuietBuilder == BuilderOK /\ UNCHANGED QuietVars => BuilderOK'
  BY DEF BuilderOK, QuietVars, contentVars, clientVars

\* What of the rest a step of the builder may change: only where the generator is.
LEMMA SamePlace ==
    ASSUME RestOK, UNCHANGED <<chunks, errorOccurred, resume, call, known, toolStarted,
                               name, buffered, emitted>>,
           pc' \in {pc, resume, "stream", "single", "singleDone", "close", "done"}
    PROVE  RestOK'
  BY DEF RestOK, Parts, Stages

LEMMA NameOK ==
    ASSUME NEW prev \in ToolNames, NEW piece \in Pieces
    PROVE  /\ register_tool_name(prev, piece) \in ToolNames
           /\ prev = "Task" => register_tool_name(prev, piece) \in {"Task", "mixed"}
           /\ prev = "mixed" => register_tool_name(prev, piece) = "mixed"
  BY DEF register_tool_name, Extends, ToolNames, Pieces

-----------------------------------------------------------------------------
(* Steps that start, continue or stop a block.                             *)

\* Whatever changes in the builder and its flags, the client's view follows if the same
\* blocks count as open.
LEMMA DeltaBlocks ==
    ASSUME Built,
           UNCHANGED <<nextIndex, contentVars, single, toolStarted, block, stopped, phase,
                       started, opened>>,
           ~InSingle, ~InSingle', pc # "begin", pc # "done", pc' # "begin", pc' # "done",
           stopped # {} => pc' \in {"close", "done"}
    PROVE  Built'
<1> USE DEF contentVars
<1>1. Live' = Live /\ Given' = Given
  BY DEF Live, Given
<1>2. \A i : IsOpen(i)' <=> IsOpen(i)
  BY <1>1 DEF IsOpen
<1>3. Apart'
  BY <1>1 DEF Apart, Built
<1> QED
  BY <1>1, <1>2, <1>3 DEF Built

LEMMA StopThinkingBlocks == TypeOK /\ Built /\ StopThinking => Built'
<1> SUFFICES ASSUME TypeOK, Built, StopThinking PROVE Built'
  OBVIOUS
<1> USE DEF StopThinking, Closing, content_block_stop, controlVars, toolVars
<1>1. Live' = Live /\ Given' = Given /\ (InSingle' <=> InSingle) /\ ~InSingle
  BY DEF Live, Given, InSingle
<1>2. \A i : IsOpen(i)' <=> IsOpen(i) /\ i # thinkingIndex
  BY <1>1 DEF IsOpen, Built, Apart
<1>3. Apart'
  BY <1>1 DEF Apart, Built
<1>4. \A i : i \in opened' <=> IsOpen(i)'
  BY <1>2 DEF Built
<1> QED
  BY <1>1, <1>3, <1>4 DEF Built

LEMMA StopTextBlocks == TypeOK /\ Built /\ StopText => Built'
<1> SUFFICES ASSUME TypeOK, Built, StopText PROVE Built'
  OBVIOUS
<1> USE DEF StopText, Closing, content_block_stop, controlVars, toolVars
<1>1. Live' = Live /\ Given' = Given /\ (InSingle' <=> InSingle) /\ ~InSingle
  BY DEF Live, Given, InSingle
<1>2. \A i : IsOpen(i)' <=> IsOpen(i) /\ i # textIndex
  BY <1>1 DEF IsOpen, Built, Apart
<1>3. Apart'
  BY <1>1 DEF Apart, Built
<1>4. \A i : i \in opened' <=> IsOpen(i)'
  BY <1>2 DEF Built
<1> QED
  BY <1>1, <1>3, <1>4 DEF Built

LEMMA StartThinkingBlocks == TypeOK /\ Built /\ StartThinking => Built'
<1> SUFFICES ASSUME TypeOK, Built, StartThinking PROVE Built'
  OBVIOUS
<1> USE DEF StartThinking, ContentClosed, content_block_start, controlVars, toolVars
<1>0. nextIndex \in Nat
  BY DEF TypeOK
<1>1. Live' = Live /\ ~InSingle' /\ ~InSingle /\ Given \subseteq Given'
      /\ nextIndex \in Given' /\ nextIndex \notin Given
  BY <1>0 DEF Live, Given, InSingle
<1>2. \A i : IsOpen(i)' <=> IsOpen(i) \/ i = nextIndex
  BY <1>1 DEF IsOpen
<1>3. Apart'
  BY <1>1 DEF Apart, Built
<1>4. \A i : i \in opened' <=> IsOpen(i)'
  BY <1>2 DEF Built
<1> QED
  BY <1>0, <1>1, <1>3, <1>4 DEF Built

LEMMA StartTextBlocks == TypeOK /\ Built /\ StartText => Built'
<1> SUFFICES ASSUME TypeOK, Built, StartText PROVE Built'
  OBVIOUS
<1> USE DEF StartText, ContentClosed, content_block_start, controlVars, toolVars
<1>0. nextIndex \in Nat
  BY DEF TypeOK
<1>1. Live' = Live /\ ~InSingle' /\ ~InSingle /\ Given \subseteq Given'
      /\ nextIndex \in Given' /\ nextIndex \notin Given
  BY <1>0 DEF Live, Given, InSingle
<1>2. \A i : IsOpen(i)' <=> IsOpen(i) \/ i = nextIndex
  BY <1>1 DEF IsOpen
<1>3. Apart'
  BY <1>1 DEF Apart, Built
<1>4. \A i : i \in opened' <=> IsOpen(i)'
  BY <1>2 DEF Built
<1> QED
  BY <1>0, <1>1, <1>3, <1>4 DEF Built

LEMMA StartSingleBlocks == TypeOK /\ Built /\ StartSingle => Built'
<1> SUFFICES ASSUME TypeOK, Built, StartSingle PROVE Built'
  OBVIOUS
<1> USE DEF StartSingle, ContentClosed, content_block_start, contentVars, toolVars
<1>0. nextIndex \in Nat
  BY DEF TypeOK
<1>1. Live' = Live /\ InSingle' /\ ~InSingle /\ Given \subseteq Given'
      /\ nextIndex \in Given' /\ nextIndex \notin Given
  BY <1>0 DEF Live, Given, InSingle
<1>2. \A i : IsOpen(i)' <=> IsOpen(i) \/ i = nextIndex
  BY <1>1 DEF IsOpen
<1>3. Apart'
  BY <1>1 DEF Apart, Built
<1>4. \A i : i \in opened' <=> IsOpen(i)'
  BY <1>2 DEF Built
<1> QED
  BY <1>0, <1>1, <1>3, <1>4 DEF Built

LEMMA SingleDeltaBlocks == TypeOK /\ Built /\ SingleDelta => Built'
<1> SUFFICES ASSUME TypeOK, Built, SingleDelta PROVE Built'
  OBVIOUS
<1> USE DEF SingleDelta, content_block_delta, contentVars, toolVars
<1>1. Live' = Live /\ Given' = Given /\ InSingle /\ InSingle'
  BY DEF Live, Given, InSingle
<1>2. \A i : IsOpen(i)' <=> IsOpen(i)
  BY <1>1 DEF IsOpen
<1>3. Apart'
  BY <1>1 DEF Apart, Built, ContentClosed
<1> QED
  BY <1>1, <1>2, <1>3 DEF Built

LEMMA StopSingleBlocks == TypeOK /\ Built /\ StopSingle => Built'
<1> SUFFICES ASSUME TypeOK, Built, StopSingle PROVE Built'
  OBVIOUS
<1> USE DEF StopSingle, content_block_stop, contentVars, toolVars
<1>1. Live' = Live /\ Given' = Given /\ InSingle /\ ~InSingle'
  BY DEF Live, Given, InSingle, TypeOK, Stages
<1>2. \A i : IsOpen(i)' <=> IsOpen(i) /\ i # single
  BY <1>1 DEF IsOpen, Built, Apart, ContentClosed
<1>3. Apart'
  BY <1>1 DEF Apart, Built, ContentClosed
<1>4. \A i : i \in opened' <=> IsOpen(i)'
  BY <1>2 DEF Built
<1>5. pc' \in Stages
  BY DEF TypeOK
<1> QED
  BY <1>1, <1>3, <1>4, <1>5 DEF Built, Stages

LEMMA StartToolBlocks ==
    ASSUME TypeOK, Built, NEW t \in Tools, StartTool(t) PROVE Built'
<1> USE DEF StartTool, MustStart, ToolTurn, ContentClosed, content_block_start, controlVars,
            contentVars
<1>p. pc = "tool" /\ pc' = "tool" /\ nextIndex' = nextIndex + 1
  OBVIOUS
<1>n. nextIndex \in Nat
  BY DEF TypeOK
<1>0. nextIndex \in Nat /\ block' = [block EXCEPT ![t] = nextIndex]
      /\ toolStarted' = toolStarted \cup {t} /\ t \notin toolStarted
      /\ toolStarted \subseteq Tools /\ stopped = {} /\ stopped' = stopped
  BY DEF TypeOK, Built
<1>1. Live' = Live \cup {t} /\ t \notin Live /\ Live = toolStarted
  BY <1>0 DEF Live
<1>b. ~InSingle' /\ ~InSingle /\ Given \subseteq Given' /\ nextIndex \in Given'
      /\ nextIndex \notin Given
  BY ONLY <1>p, <1>n DEF Given, InSingle
<1>a. block'[t] = nextIndex /\ \A u \in Live : block'[u] = block[u] /\ block[u] \in Given
  BY <1>0, <1>1 DEF TypeOK, Built
<1>2. \A i : IsOpen(i)' <=> IsOpen(i) \/ i = nextIndex
  BY <1>1, <1>b, <1>a DEF IsOpen
<1>3. Apart'
  <2>1. \A u, v \in Live' : block'[u] = block'[v] => u = v
    <3>1. \A u, v \in Live : block[u] = block[v] => u = v
      BY DEF Built, Apart
    <3> QED BY ONLY <1>1, <1>b, <1>a, <3>1
  <2> QED
    BY <1>b, <2>1 DEF Apart
<1>4. \A i : i \in opened' <=> IsOpen(i)'
  BY <1>2 DEF Built
<1>5. \A u \in Live' : block'[u] \in Given'
  BY <1>1, <1>b, <1>a
<1> QED
  BY <1>0, <1>b, <1>3, <1>4, <1>5 DEF Built

LEMMA StopToolBlocks ==
    ASSUME TypeOK, Built, NEW t \in Tools, StopTool(t) PROVE Built'
<1> USE DEF StopTool, ContentClosed, content_block_stop, controlVars, contentVars
<1>1. Live' = Live \ {t} /\ t \in Live /\ Given' = Given /\ ~InSingle /\ ~InSingle'
  BY DEF Live, Given, InSingle
<1>2. \A i : IsOpen(i)' <=> IsOpen(i) /\ i # block[t]
  BY <1>1 DEF IsOpen, Built, Apart
<1>3. Apart'
  BY <1>1 DEF Apart, Built
<1>4. \A i : i \in opened' <=> IsOpen(i)'
  BY <1>2 DEF Built
<1> QED
  BY <1>1, <1>3, <1>4 DEF Built

\* The client takes no step, or one that ClientStream allows.
ClientStep == Client!Next \/ UNCHANGED clientVars

LEMMA StepBlocks ==
    ASSUME TypeOK, Built, [Next]_vars
    PROVE  Built' /\ ClientStep
<1> USE DEF ClientStep, Event, Client!Event
<1>1. CASE Begin
  <2> USE <1>1 DEF Begin, message_start, contentVars, toolVars
  <2>1. Live' = Live /\ Given' = Given /\ ~InSingle /\ ~InSingle'
    BY DEF Live, Given, InSingle
  <2>2. \A i : IsOpen(i)' <=> IsOpen(i)
    BY <2>1 DEF IsOpen
  <2>3. Apart'
    BY <2>1 DEF Apart, Built
  <2>4. Built'
    BY <2>1, <2>2, <2>3 DEF Built
  <2>5. phase = "none"
    BY DEF Built
  <2> QED BY <2>4, <2>5 DEF Client!Next, Client!MessageStart
<1>2. CASE ReceiveContent \/ StreamEnds \/ StreamFails \/ Flush
  <2>1. ~InSingle /\ ~InSingle' /\ UNCHANGED QuietVars
    BY <1>2 DEF ReceiveContent, StreamEnds, StreamFails, Flush, FlushThinking,
       FlushHeuristic, Fallback, TaskArgsFlushed, Emit, InSingle, QuietVars, toolVars
  <2>2. pc \notin {"begin", "close", "done"} /\ pc' \notin {"begin", "done"}
    BY <1>2 DEF ReceiveContent, StreamEnds, StreamFails, Flush, FlushThinking,
       FlushHeuristic, Fallback, TaskArgsFlushed, Emit
  <2>3. stopped = {}
    BY <2>2 DEF Built
  <2> QED
    BY <2>1, <2>2, <2>3, QuietBlocks DEF QuietVars
<1>3. CASE Content
  <2>1. phase = "open"
    <3>1. pc \notin {"begin", "done"}
      BY <1>3 DEF Content, StopThinking, StopText, StartThinking, StartText, ContentDelta,
         Closing
    <3> QED BY <3>1 DEF Built, TypeOK
  <2>2. CASE StopThinking
    <3>1. thinkingIndex \in opened
      BY <2>2 DEF StopThinking, Built, IsOpen
    <3> QED
      BY <2>1, <2>2, <3>1, StopThinkingBlocks
      DEF StopThinking, content_block_stop, Client!Next, Client!BlockStop
  <2>3. CASE StopText
    <3>1. textIndex \in opened
      BY <2>3 DEF StopText, Built, IsOpen
    <3> QED
      BY <2>1, <2>3, <3>1, StopTextBlocks
      DEF StopText, content_block_stop, Client!Next, Client!BlockStop
  <2>4. CASE StartThinking
    BY <2>1, <2>4, StartThinkingBlocks
    DEF StartThinking, content_block_start, Built, Client!Next, Client!BlockStart
  <2>5. CASE StartText
    BY <2>1, <2>5, StartTextBlocks
    DEF StartText, content_block_start, Built, Client!Next, Client!BlockStart
  <2>6. CASE ContentDelta
    <3> USE <2>6 DEF ContentDelta, content_block_delta
    <3>1. Client!Next
      BY <2>1 DEF Built, IsOpen, Client!Next, Client!BlockDelta
    <3>2. pc' \in Stages /\ ~InSingle /\ ~InSingle' /\ pc \notin {"begin", "close", "done"}
      BY DEF TypeOK, Stages, InSingle
    <3>3. stopped = {}
      BY <3>2 DEF Built
    <3>4. Built'
      BY <3>2, <3>3, DeltaBlocks DEF Stages, toolVars
    <3> QED BY <3>1, <3>4
  <2> QED BY <1>3, <2>2, <2>3, <2>4, <2>5, <2>6 DEF Content
<1>4. CASE Single
  <2>1. phase = "open"
    <3>1. pc \notin {"begin", "done"}
      BY <1>4 DEF Single, StartSingle, SingleDelta, StopSingle
    <3> QED BY <3>1 DEF Built, TypeOK
  <2>2. CASE StartSingle
    BY <2>1, <2>2, StartSingleBlocks
    DEF StartSingle, content_block_start, Built, Client!Next, Client!BlockStart
  <2>3. CASE SingleDelta
    <3>1. single \in opened
      BY <2>3 DEF SingleDelta, Built, IsOpen, InSingle
    <3> QED
      BY <2>1, <2>3, <3>1, SingleDeltaBlocks
      DEF SingleDelta, content_block_delta, Client!Next, Client!BlockDelta
  <2>4. CASE StopSingle
    <3>1. single \in opened
      BY <2>4 DEF StopSingle, Built, IsOpen, InSingle
    <3> QED
      BY <2>1, <2>4, <3>1, StopSingleBlocks
      DEF StopSingle, content_block_stop, Client!Next, Client!BlockStop
  <2> QED BY <1>4, <2>2, <2>3, <2>4 DEF Single
<1>5. CASE End
  <2> USE <1>5 DEF End, message_stop, contentVars, toolVars
  <2>1. Live' = Live /\ Live = {} /\ Given' = Given /\ ~InSingle /\ ~InSingle'
    BY DEF Live, Given, InSingle
  <2>2. \A i : ~IsOpen(i) /\ ~IsOpen(i)'
    BY <2>1 DEF IsOpen, ContentClosed
  <2>3. Apart'
    BY <2>1 DEF Apart, Built
  <2>4. phase = "open" /\ opened = {}
    BY <2>2 DEF Built, TypeOK
  <2>5. Built'
    BY <2>1, <2>2, <2>3 DEF Built
  <2> QED BY <2>4, <2>5 DEF Client!Next, Client!MessageStop
<1>6. ASSUME NEW t \in Tools, Tool(t) PROVE Built' /\ ClientStep
  <2>1. phase = "open"
    <3>1. pc \in {"tool", "taskArgs", "close"}
      BY <1>6 DEF Tool, StartTool, PassArgs, BufferArgs, EmitTaskArgs, TaskArgsRaise, ToolDone,
         FlushTaskArgs, StopTool, TaskTurn, ToolTurn
    <3> QED BY <3>1 DEF Built, TypeOK
  <2>2. CASE StartTool(t)
    BY <2>1, <2>2, StartToolBlocks
    DEF StartTool, content_block_start, Built, Client!Next, Client!BlockStart
  <2>3. CASE StopTool(t)
    <3>1. block[t] \in opened
      BY <2>3 DEF StopTool, Built, IsOpen, Live
    <3> QED
      BY <2>1, <2>3, <3>1, StopToolBlocks
      DEF StopTool, content_block_stop, Client!Next, Client!BlockStop
  <2>4. CASE BufferArgs(t) \/ TaskArgsRaise(t) \/ ToolDone(t)
    <3>1. /\ pc = "tool" /\ pc' \in {"stream", "error"}
          /\ UNCHANGED QuietVars
      BY <2>4 DEF BufferArgs, TaskArgsRaise, ToolDone, TaskTurn, ToolTurn, Emit, QuietVars,
         toolVars
    <3>2. stopped = {}
      BY <3>1 DEF Built
    <3> QED
      BY <3>1, <3>2, QuietBlocks DEF QuietVars, InSingle
  <2>5. CASE PassArgs(t) \/ EmitTaskArgs(t) \/ FlushTaskArgs(t)
    <3>1. /\ pc \in {"tool", "taskArgs"} /\ pc' \in {"stream", "taskArgs"}
          /\ content_block_delta(block[t])
          /\ UNCHANGED <<nextIndex, contentVars, single, toolStarted, block, stopped>>
      BY <2>5 DEF PassArgs, EmitTaskArgs, FlushTaskArgs, TaskTurn, ToolTurn, emit_tool_delta,
         controlVars
    <3>2. stopped = {} /\ t \in toolStarted
      BY <3>1, <2>5 DEF Built, TypeOK, PassArgs, EmitTaskArgs, FlushTaskArgs, TaskTurn
    <3>3. block[t] \in opened
      BY <3>2 DEF Built, IsOpen, Live
    <3>4. Built'
      BY <3>1, <3>2, DeltaBlocks DEF content_block_delta, InSingle
    <3> QED
      BY <2>1, <3>1, <3>3, <3>4
      DEF content_block_delta, Client!Next, Client!BlockDelta
  <2> QED BY <1>6, <2>2, <2>3, <2>4, <2>5 DEF Tool
<1>7. ASSUME NEW t \in Tools, NEW piece \in Pieces \cup {NoName}, ReceiveToolCall(t, piece)
      PROVE  Built' /\ ClientStep
  <2>1. pc = "stream" /\ pc' = "tool" /\ UNCHANGED QuietVars
    BY <1>7 DEF ReceiveToolCall, Emit, QuietVars
  <2>2. stopped = {}
    BY <2>1 DEF Built
  <2> QED
    BY <2>1, <2>2, QuietBlocks DEF QuietVars, InSingle
<1>8. CASE UNCHANGED vars
  <2>1. UNCHANGED QuietVars /\ pc' = pc
    BY <1>8 DEF vars, QuietVars, controlVars, toolVars
  <2>2. Live' = Live /\ Given' = Given /\ (InSingle <=> InSingle')
    BY <2>1 DEF Live, Given, InSingle, QuietVars
  <2>3. \A i : IsOpen(i)' <=> IsOpen(i)
    BY <2>1, <2>2 DEF IsOpen, QuietVars, contentVars
  <2>4. Apart'
    BY <2>1, <2>2 DEF Apart, Built, QuietVars, contentVars, ContentClosed
  <2> QED
    BY <2>1, <2>2, <2>3, <2>4 DEF Built, QuietVars, contentVars, clientVars
<1> QED
  BY <1>1, <1>2, <1>3, <1>4, <1>5, <1>6, <1>7, <1>8 DEF Next

-----------------------------------------------------------------------------
(* The types.                                                              *)

\* A block gets the next index.
LEMMA StartOK ==
    ASSUME BuilderOK, content_block_start(nextIndex)
    PROVE  phase' \in {"none", "open", "ended"} /\ started' \in Nat /\ opened' \subseteq Nat
<1>1. opened' = opened \cup {nextIndex} /\ opened \subseteq Nat /\ nextIndex \in Nat
  BY DEF BuilderOK, content_block_start
<1> QED
  BY <1>1 DEF BuilderOK, content_block_start

LEMMA ContentsOK ==
    ASSUME BuilderOK, NEW t \in Tools, NEW json \in {"raw", "foreground", "empty"},
           emit_tool_delta(t, json),
           UNCHANGED <<nextIndex, contentVars, single, block, stopped, toolStarted, announced>>
    PROVE  BuilderOK'
<1>1. contents' = [contents EXCEPT ![t] = Append(@, json)]
      /\ contents \in [Tools -> Seq({"raw", "foreground", "empty"})]
  BY DEF emit_tool_delta, BuilderOK
<1>2. Append(contents[t], json) \in Seq({"raw", "foreground", "empty"})
  BY <1>1, AppendProperties
<1>3. contents' \in [Tools -> Seq({"raw", "foreground", "empty"})]
  BY <1>1, <1>2
<1> QED
  BY <1>3 DEF BuilderOK, emit_tool_delta, content_block_delta, contentVars

LEMMA StepType ==
    ASSUME TypeOK, Built, [Next]_vars
    PROVE  TypeOK'
<1>a. RestOK /\ BuilderOK
  BY TypeParts
<1> SUFFICES RestOK' /\ BuilderOK'
  BY TypePartsNext
<1>1. CASE Begin
  BY <1>1, <1>a, SamePlace
  DEF Begin, message_start, contentVars, toolVars, BuilderOK, RestOK, Stages
<1>2. CASE ReceiveContent \/ StreamEnds \/ StreamFails \/ Flush
  <2>1. UNCHANGED QuietVars
    BY <1>2 DEF ReceiveContent, StreamEnds, StreamFails, Flush, FlushThinking,
       FlushHeuristic, Fallback, TaskArgsFlushed, QuietVars, toolVars
  <2>2. /\ UNCHANGED <<call, known, toolStarted, name, buffered, emitted>>
        /\ chunks' \in Nat /\ errorOccurred' \in BOOLEAN
    <3>1. UNCHANGED <<call, known, toolStarted, name, buffered, emitted>>
      BY <1>2 DEF ReceiveContent, StreamEnds, StreamFails, Flush, FlushThinking,
         FlushHeuristic, Fallback, TaskArgsFlushed, toolVars
    <3>2. chunks' \in {chunks, chunks + 1}
      BY <1>2 DEF ReceiveContent, StreamEnds, StreamFails, Flush, FlushThinking,
         FlushHeuristic, Fallback, TaskArgsFlushed
    <3>3. errorOccurred' = errorOccurred \/ errorOccurred' = TRUE
      BY <1>2 DEF ReceiveContent, StreamEnds, StreamFails, Flush, FlushThinking,
         FlushHeuristic, Fallback, TaskArgsFlushed
    <3>4. chunks' \in Nat
      BY <1>a, <3>2 DEF RestOK
    <3>5. errorOccurred' \in BOOLEAN
      BY <1>a, <3>3 DEF RestOK
    <3> QED BY <3>1, <3>4, <3>5
  <2>3. pc' \in (Parts \ {"tool"}) \cup Stages \cup {"close"} /\ resume' \in Stages
    <3>1. resume \in Stages
      BY <1>a DEF RestOK
    <3>2. CASE ReceiveContent
      BY <3>2 DEF ReceiveContent, Emit, Parts, Stages
    <3>3. CASE StreamEnds \/ StreamFails
      BY <3>1, <3>3 DEF StreamEnds, StreamFails, Emit, Parts, Stages
    <3>4. CASE Flush
      BY <3>1, <3>4 DEF Flush, FlushThinking, FlushHeuristic, Fallback, TaskArgsFlushed,
         Emit, Parts, Stages
    <3> QED BY <1>2, <3>2, <3>3, <3>4
  <2>4. pc' # "tool"
    BY <2>3 DEF Stages
  <2>5. RestOK'
    BY <1>a, <2>2, <2>3, <2>4 DEF RestOK
  <2> QED
    BY <1>a, <2>1, <2>5, QuietBuilder
<1>3. CASE Content
  <2>1. CASE StopThinking \/ StopText
    BY <1>a, <2>1, SamePlace DEF StopThinking, StopText, content_block_stop, controlVars,
       toolVars, BuilderOK
  <2>2. CASE StartThinking \/ StartText
    <3>1. content_block_start(nextIndex)
      BY <2>2 DEF StartThinking, StartText
    <3>2. phase' \in {"none", "open", "ended"} /\ started' \in Nat /\ opened' \subseteq Nat
      BY <1>a, <3>1, StartOK
    <3>3. RestOK'
      BY <1>a, <2>2, SamePlace DEF StartThinking, StartText, controlVars, toolVars
    <3>4. BuilderOK'
      <4>1. CASE StartThinking
        BY <1>a, <4>1, <3>2 DEF StartThinking, toolVars, BuilderOK, Indexes
      <4>2. CASE StartText
        BY <1>a, <4>2, <3>2 DEF StartText, toolVars, BuilderOK, Indexes
      <4> QED BY <2>2, <4>1, <4>2
    <3> QED BY <3>3, <3>4
  <2>3. CASE ContentDelta
    BY <1>a, <2>3, SamePlace DEF ContentDelta, content_block_delta, contentVars, toolVars,
       BuilderOK
  <2> QED BY <1>3, <2>1, <2>2, <2>3 DEF Content
<1>4. CASE Single
  <2>1. CASE StartSingle
    BY <1>a, <2>1, SamePlace, StartOK DEF StartSingle, contentVars, toolVars, BuilderOK,
       Indexes
  <2>2. CASE SingleDelta \/ StopSingle
    BY <1>a, <2>2, SamePlace DEF SingleDelta, StopSingle, content_block_delta,
       content_block_stop, contentVars, toolVars, BuilderOK
  <2> QED BY <1>4, <2>1, <2>2 DEF Single
<1>5. CASE End
  BY <1>5, <1>a, SamePlace DEF End, message_stop, contentVars, toolVars, BuilderOK
<1>6. ASSUME NEW t \in Tools, Tool(t) PROVE RestOK' /\ BuilderOK'
  <2>1. CASE StartTool(t)
    <3> USE <2>1 DEF StartTool
    <3>1. phase' \in {"none", "open", "ended"} /\ started' \in Nat /\ opened' \subseteq Nat
      BY <1>a, StartOK
    <3>2. name[t] \in ToolNames /\ announced'[t] \in ToolNames
      BY <1>a DEF RestOK, BuilderOK, ToolNames
    <3>3. name' \in [Tools -> ToolNames] /\ announced' \in [Tools -> ToolNames]
      BY <1>a, <3>2 DEF RestOK, BuilderOK, ToolNames
    <3>6. nextIndex' \in Nat /\ block' \in [Tools -> Indexes] /\ stopped' \subseteq toolStarted'
      <4>1. nextIndex \in Nat /\ block \in [Tools -> Indexes] /\ stopped \subseteq toolStarted
        BY <1>a DEF BuilderOK
      <4>2. nextIndex' = nextIndex + 1 /\ block' = [block EXCEPT ![t] = nextIndex]
            /\ stopped' = stopped /\ toolStarted' = toolStarted \cup {t}
        OBVIOUS
      <4> QED BY ONLY <4>1, <4>2 DEF Indexes
    <3>4. BuilderOK'
      BY <1>a, <3>1, <3>3, <3>6 DEF BuilderOK, contentVars
    <3>5. RestOK'
      BY <1>a, <3>3 DEF RestOK, controlVars
    <3> QED BY <3>4, <3>5
  <2>2. CASE StopTool(t)
    BY <1>a, <2>2, SamePlace DEF StopTool, content_block_stop, controlVars, contentVars,
       BuilderOK
  <2>3. CASE BufferArgs(t) \/ TaskArgsRaise(t) \/ ToolDone(t)
    <3>1. UNCHANGED QuietVars
      BY <2>3 DEF BufferArgs, TaskArgsRaise, ToolDone, QuietVars, toolVars
    <3>2. RestOK'
      BY <1>a, <2>3 DEF BufferArgs, TaskArgsRaise, ToolDone, TaskTurn, ToolTurn, Emit,
         toolVars, RestOK, Parts, Stages
    <3> QED BY <1>a, <3>1, <3>2, QuietBuilder
  <2>4. CASE PassArgs(t)
    BY <1>a, <2>4, ContentsOK, SamePlace DEF PassArgs
  <2>5. CASE EmitTaskArgs(t)
    <3>1. BuilderOK'
      BY <1>a, <2>5, ContentsOK DEF EmitTaskArgs
    <3>2. RestOK'
      BY <1>a, <2>5 DEF EmitTaskArgs, TaskTurn, RestOK, Parts, Stages
    <3> QED BY <3>1, <3>2
  <2>6. CASE FlushTaskArgs(t)
    <3>1. BuilderOK'
      BY <1>a, <2>6, ContentsOK DEF FlushTaskArgs
    <3>2. RestOK'
      BY <1>a, <2>6 DEF FlushTaskArgs, controlVars, RestOK
    <3> QED BY <3>1, <3>2
  <2> QED BY <1>6, <2>1, <2>2, <2>3, <2>4, <2>5, <2>6 DEF Tool
<1>7. ASSUME NEW t \in Tools, NEW piece \in Pieces \cup {NoName}, ReceiveToolCall(t, piece)
      PROVE  RestOK' /\ BuilderOK'
  <2> USE <1>7 DEF ReceiveToolCall
  <2>1. UNCHANGED QuietVars
    BY DEF QuietVars
  <2>2. name' \in [Tools -> ToolNames] /\ known \subseteq known' /\ known' \subseteq Tools
    <3>1. CASE piece = NoName
      BY <1>a, <3>1 DEF RestOK
    <3>2. CASE piece # NoName
      <4>1. register_tool_name(name[t], piece) \in ToolNames
        BY <1>a, <3>2, NameOK DEF RestOK
      <4> QED BY <1>a, <3>2, <4>1 DEF RestOK
    <3> QED BY <3>1, <3>2
  <2>3. call' \in Calls
    BY DEF Calls
  <2>4. chunks' \in Nat /\ pc' = "tool" /\ resume' = "stream"
    BY <1>a DEF RestOK, Emit
  <2>5. RestOK'
    BY <1>a, <2>2, <2>3, <2>4 DEF RestOK, Parts, Stages
  <2> QED BY <1>a, <2>1, <2>5, QuietBuilder
<1>8. CASE UNCHANGED vars
  BY <1>8, <1>a DEF vars, controlVars, contentVars, toolVars, clientVars, RestOK, BuilderOK
<1> QED
  BY <1>1, <1>2, <1>3, <1>4, <1>5, <1>6, <1>7, <1>8 DEF Next

-----------------------------------------------------------------------------
(* Arguments of a Task.                                                    *)

TaskVars == <<announced, name, contents, emitted, buffered, toolStarted>>

LEMMA SameTasks ==
    ASSUME Tasks, UNCHANGED TaskVars,
           pc' \in {"close", "done"} => pc \in {"close", "done"} \/ buffered = {}
    PROVE  Tasks'
  BY DEF Tasks, TaskVars

LEMMA StepTasks ==
    ASSUME TypeOK, Tasks, [Next]_vars
    PROVE  Tasks'
<1>1. CASE Begin \/ ReceiveContent \/ StreamEnds \/ StreamFails
  BY <1>1, SameTasks DEF Begin, ReceiveContent, StreamEnds, StreamFails, Emit, TaskVars,
     toolVars
<1>2. CASE Flush
  <2>1. UNCHANGED TaskVars
    BY <1>2 DEF Flush, FlushThinking, FlushHeuristic, Fallback, TaskArgsFlushed, TaskVars,
       toolVars
  <2>2. CASE TaskArgsFlushed
    <3>1. buffered = {}
      BY <2>2 DEF TaskArgsFlushed, Tasks
    <3> QED BY <2>1, <3>1, SameTasks
  <2>3. CASE FlushThinking \/ FlushHeuristic \/ Fallback
    BY <2>1, <2>3, SameTasks DEF FlushThinking, FlushHeuristic, Fallback, Emit
  <2> QED BY <1>2, <2>2, <2>3 DEF Flush
<1>3. CASE Content
  BY <1>3, SameTasks DEF Content, StopThinking, StopText, StartThinking, StartText,
     ContentDelta, controlVars, TaskVars, toolVars, TypeOK, Stages
<1>4. CASE Single
  BY <1>4, SameTasks DEF Single, StartSingle, SingleDelta, StopSingle, TaskVars, toolVars,
     TypeOK, Stages
<1>5. CASE End
  BY <1>5, SameTasks DEF End, TaskVars, toolVars
<1>6. ASSUME NEW t \in Tools, Tool(t) PROVE Tasks'
  <2>1. CASE StartTool(t)
    <3> USE <2>1 DEF StartTool, MustStart
    <3>1. t \notin toolStarted /\ toolStarted' = toolStarted \cup {t} /\ pc' = pc
          /\ UNCHANGED <<contents, emitted, buffered>>
      BY DEF controlVars
    <3>2. announced'[t] = "Task" => name'[t] = "Task"
      BY DEF TypeOK
    <3>3. \A u \in toolStarted : announced'[u] = announced[u] /\ name'[u] = name[u]
      BY DEF TypeOK
    <3>4. t \notin emitted /\ contents[t] = <<>>
      BY DEF TypeOK, Tasks
    <3> HIDE <2>1 DEF StartTool, MustStart
    <3> QED BY <3>1, <3>2, <3>3, <3>4 DEF Tasks
  <2>2. CASE StopTool(t)
    BY <2>2, SameTasks DEF StopTool, controlVars, TaskVars
  <2>3. CASE BufferArgs(t) \/ TaskArgsRaise(t)
    <3>1. /\ t \notin emitted /\ buffered' = buffered \cup {t}
          /\ pc' \in {"stream", "error"}
          /\ UNCHANGED <<announced, name, contents, emitted, toolStarted>>
      BY <2>3 DEF BufferArgs, TaskArgsRaise, TaskTurn, Emit
    <3> QED BY <3>1 DEF Tasks
  <2>4. CASE ToolDone(t)
    BY <2>4, SameTasks DEF ToolDone, TaskVars, toolVars
  <2>5. CASE PassArgs(t)
    <3>1. /\ t \in toolStarted /\ name[t] # "Task" /\ pc' = "stream"
          /\ UNCHANGED <<announced, name, emitted, buffered, toolStarted>>
          /\ \A u \in Tools \ {t} : contents'[u] = contents[u]
      BY <2>5 DEF PassArgs, emit_tool_delta, TypeOK
    <3> QED BY <3>1 DEF Tasks, TypeOK
  <2>6. CASE EmitTaskArgs(t) \/ FlushTaskArgs(t)
    <3>1. /\ t \in toolStarted \ emitted
          /\ buffered' = buffered \ {t} /\ emitted' = emitted \cup {t}
          /\ UNCHANGED <<announced, name, toolStarted>>
          /\ pc' \in {"stream", "taskArgs"}
      BY <2>6 DEF EmitTaskArgs, FlushTaskArgs, TaskTurn, controlVars, TypeOK
    <3>2. \A u \in Tools \ {t} : contents'[u] = contents[u]
      BY <2>6 DEF EmitTaskArgs, FlushTaskArgs, emit_tool_delta, TypeOK
    <3>3. contents'[t] \in {Append(contents[t], "foreground"), Append(contents[t], "empty")}
      BY <2>6 DEF EmitTaskArgs, FlushTaskArgs, emit_tool_delta, TypeOK
    <3>4. announced[t] = "Task" /\ name[t] = "Task" => contents'[t] \in {<<"foreground">>, <<"empty">>}
      <4>1. Append(<<>>, "foreground") = <<"foreground">> /\ Append(<<>>, "empty") = <<"empty">>
        OBVIOUS
      <4> QED BY <3>1, <3>3, <4>1 DEF Tasks
    <3> QED BY <3>1, <3>2, <3>4 DEF Tasks, TypeOK
  <2> QED BY <1>6, <2>1, <2>2, <2>3, <2>4, <2>5, <2>6 DEF Tool
<1>7. ASSUME NEW t \in Tools, NEW piece \in Pieces \cup {NoName}, ReceiveToolCall(t, piece)
      PROVE  Tasks'
  <2> USE <1>7 DEF ReceiveToolCall
  <2>1. UNCHANGED <<announced, contents, emitted, buffered, toolStarted>> /\ pc' = "tool"
    BY DEF Emit
  <2>2. \A u \in Tools : /\ name[u] = "Task" => name'[u] \in {"Task", "mixed"}
                         /\ name[u] = "mixed" => name'[u] = "mixed"
    <3>1. CASE piece = NoName
      BY <3>1
    <3>2. CASE piece # NoName
      <4>1. /\ name[t] = "Task" => register_tool_name(name[t], piece) \in {"Task", "mixed"}
            /\ name[t] = "mixed" => register_tool_name(name[t], piece) = "mixed"
        BY <3>2, NameOK DEF TypeOK
      <4> QED BY <3>2, <4>1 DEF TypeOK
    <3> QED BY <3>1, <3>2
  <2> HIDE <1>7 DEF ReceiveToolCall
  <2> QED BY <2>1, <2>2 DEF Tasks, TypeOK
<1>8. CASE UNCHANGED vars
  BY <1>8, SameTasks DEF vars, TaskVars, toolVars, controlVars
<1> QED
  BY <1>1, <1>2, <1>3, <1>4, <1>5, <1>6, <1>7, <1>8 DEF Next

-----------------------------------------------------------------------------
(* Something is said.                                                      *)

LEMMA SaidOnce == ASSUME nextIndex' > 0 PROVE Said'
  BY DEF Said

LEMMA SameSaid ==
    ASSUME Said, UNCHANGED <<nextIndex, textIndex, toolStarted>>, known \subseteq known',
           errorOccurred' => errorOccurred \/ pc' = "error",
           pc = "error" => pc' = "error",
           pc' \in {"taskArgs", "close", "done"} =>
               pc \in {"taskArgs", "close", "done"} \/ known # {}
    PROVE  Said'
  BY DEF Said

LEMMA StepSaid ==
    ASSUME TypeOK, Built, Said, [Next]_vars
    PROVE  Said'
<1>a. nextIndex \in Nat
  BY DEF TypeOK
<1>b. thinkingStarted \/ textStarted \/ InSingle => nextIndex > 0
  BY <1>a DEF Built, Given
<1>1. CASE Begin \/ ReceiveContent \/ StreamEnds \/ StreamFails
  BY <1>1, SameSaid DEF Begin, ReceiveContent, StreamEnds, StreamFails, Emit, contentVars,
     toolVars
<1>2. CASE Flush
  <2>1. CASE FlushThinking \/ FlushHeuristic \/ TaskArgsFlushed
    BY <2>1, SameSaid DEF FlushThinking, FlushHeuristic, TaskArgsFlushed, Emit, contentVars,
       toolVars
  <2>2. CASE Fallback
    <3> USE <2>2 DEF Fallback, contentVars, toolVars
    <3>1. CASE ~errorOccurred /\ textIndex = -1 /\ known = {}
      BY <3>1, SameSaid DEF Emit
    <3>2. CASE errorOccurred \/ textIndex # -1
      BY <3>2, SaidOnce DEF Said
    <3>3. CASE known # {}
      BY <3>3, SameSaid
    <3> QED BY <3>1, <3>2, <3>3
  <2> QED BY <1>2, <2>1, <2>2 DEF Flush
<1>3. CASE Content
  <2>1. CASE StopThinking \/ StopText \/ ContentDelta
    <3>1. nextIndex' = nextIndex /\ nextIndex > 0
      BY <1>b, <2>1 DEF StopThinking, StopText, ContentDelta
    <3> QED BY <3>1, SaidOnce
  <2>2. CASE StartThinking \/ StartText
    <3>1. nextIndex' > 0
      BY <1>a, <2>2 DEF StartThinking, StartText
    <3> QED BY <3>1, SaidOnce
  <2> QED BY <1>3, <2>1, <2>2 DEF Content
<1>4. CASE Single
  <2>1. nextIndex' > 0
    BY <1>a, <1>b, <1>4 DEF Single, StartSingle, SingleDelta, StopSingle, InSingle
  <2> QED BY <2>1, SaidOnce
<1>5. CASE End
  BY <1>5, SameSaid DEF End, contentVars, toolVars
<1>6. ASSUME NEW t \in Tools, Tool(t) PROVE Said'
  <2>1. CASE StartTool(t)
    <3>0. nextIndex' = nextIndex + 1
      BY <2>1 DEF StartTool
    <3>1. nextIndex' > 0
      BY <1>a, <3>0
    <3> QED BY <3>1, SaidOnce
  <2>2. CASE TaskArgsRaise(t)
    BY <2>2, SameSaid DEF TaskArgsRaise, TaskTurn, ToolTurn, Emit, contentVars
  <2>3. CASE PassArgs(t) \/ BufferArgs(t) \/ EmitTaskArgs(t) \/ ToolDone(t)
    BY <2>3, SameSaid DEF PassArgs, BufferArgs, EmitTaskArgs, ToolDone, TaskTurn, ToolTurn,
       contentVars, toolVars
  <2>4. CASE FlushTaskArgs(t) \/ StopTool(t)
    BY <2>4, SameSaid DEF FlushTaskArgs, StopTool, controlVars, contentVars
  <2> QED BY <1>6, <2>1, <2>2, <2>3, <2>4 DEF Tool
<1>7. ASSUME NEW t \in Tools, NEW piece \in Pieces \cup {NoName}, ReceiveToolCall(t, piece)
      PROVE  Said'
  BY <1>7, SameSaid DEF ReceiveToolCall, Emit, contentVars
<1>8. CASE UNCHANGED vars
  BY <1>8, SameSaid DEF vars, controlVars, contentVars, toolVars
<1> QED
  BY <1>1, <1>2, <1>3, <1>4, <1>5, <1>6, <1>7, <1>8 DEF Next

-----------------------------------------------------------------------------

LEMMA StepInv == Inv /\ [Next]_vars => Inv' /\ ClientStep
  BY StepType, StepBlocks, StepTasks, StepSaid DEF Inv

LEMMA Invariance == Spec => []Inv
  BY InitInv, StepInv, PTL DEF Spec

\* Every variable keeps its type.
THEOREM TypeCorrect == Spec => []TypeOK
<1>1. Inv => TypeOK
  BY DEF Inv
<1> QED
  BY <1>1, Invariance, PTL

\* The events form a message, whatever the provider sends in whatever order.
THEOREM BuildsMessage == Spec => ImplementsClientStream
<1>1. Init => Client!Init
  BY DEF Init, Client!Init
<1>2. Inv /\ [Next]_vars => Inv' /\ [Client!Next]_<<phase, started, opened, last>>
  BY StepInv DEF ClientStep, clientVars
<1> QED
  BY <1>1, <1>2, InitInv, PTL
  DEF Spec, ImplementsClientStream, Client!Spec, Client!clientVars

\* The arguments of a Task whose name does not go on reach the client once and whole,
\* and the arguments of no tool are held back at the end.
THEOREM TaskWhole == Spec => []TaskInOnePiece
<1>1. Inv => TaskInOnePiece
  BY DEF Inv, Tasks, TaskInOnePiece
<1> QED
  BY <1>1, Invariance, PTL

\* No message comes to its end without a block.
THEOREM AlwaysSaysSomething == Spec => []NeverEmpty
<1>1. Inv => NeverEmpty
  BY DEF Inv, TypeOK, Built, Said, NeverEmpty
<1> QED
  BY <1>1, Invariance, PTL

-----------------------------------------------------------------------------
(* OpenRouter.                                                             *)

CONSTANTS Blocks, NoBlock, Faults

VARIABLES thinkingEnabled, begun, running, starting, sentAnyEvent, indexMap, dropped,
          openBlocks, closedIndexes, messageStopped

R == INSTANCE RouterStream

\* Blocks the filter has passed on, closed early or hidden are apart; indexes are given
\* to one block each.
Book ==
    /\ pc # "closing" => starting = NoBlock
    /\ pc = "closing" => /\ starting \in running \ (openBlocks \cup closedIndexes)
                         /\ indexMap[starting] # -1
    /\ openBlocks \cap closedIndexes = {}
    /\ \A b \in Blocks : indexMap[b] # -1 => b \in begun
    /\ \A b \in openBlocks : indexMap[b] # -1
    /\ \A b \in running : indexMap[b] # -1 =>
            b \in openBlocks \/ b \in closedIndexes \/ b = starting
    /\ \A b \in Blocks : indexMap[b] < nextIndex
    /\ \A b, c \in Blocks : indexMap[b] = indexMap[c] /\ indexMap[b] # -1 => b = c

\* What the client has received, before and after an error.
MirrorStream ==
    /\ sentAnyEvent <=> phase # "none"
    /\ messageStopped <=> phase = "ended"
    /\ phase = "none" => begun = {} /\ nextIndex = 0
    /\ phase = "ended" => running = {}
    /\ pc = "stream" => started = nextIndex
    /\ pc = "closing" =>
            phase = "open" /\ nextIndex = started + 1 /\ indexMap[starting] = started
    /\ opened = {indexMap[b] : b \in openBlocks}

MirrorError ==
    /\ pc = "error" => phase = "none" /\ started = 0 /\ opened = {}
    /\ pc = "errorStart" => phase = "open" /\ started = 0 /\ opened = {}
    /\ pc \in {"errorDelta", "errorStop"} => phase = "open" /\ opened = {0}
    /\ pc = "errorEnd" => phase = "open" /\ opened = {}

Mirror == (pc \in {"stream", "closing"} => MirrorStream) /\ MirrorError

-----------------------------------------------------------------------------

\* One clause per step: the provers take Init apart more easily than Book.
LEMMA InitBook == R!Init => R!TypeOK /\ Book
<1> SUFFICES ASSUME R!Init PROVE R!TypeOK /\ Book
  OBVIOUS
<1> USE DEF R!Init
<1>1. R!TypeOK
  BY DEF R!TypeOK
<1>2. /\ \A b \in Blocks : indexMap[b] = -1
      /\ nextIndex = 0
  OBVIOUS
<1>3. Book
  BY <1>2 DEF Book
<1> QED
  BY <1>1, <1>3

\* The step of the actions that change neither the filter nor the provider's blocks.
LEMMA ClientOnly ==
    ASSUME R!TypeOK, Book, UNCHANGED <<thinkingEnabled, R!providerVars, starting, R!filterVars>>,
           pc \notin {"closing"}, pc' \in {"stream", "error", "errorStart", "errorDelta",
                                       "errorStop", "errorEnd", "done"},
           sentAnyEvent' \in BOOLEAN, phase' \in {"none", "open", "ended"},
           started' \in Nat, opened' \subseteq Nat
    PROVE  R!TypeOK' /\ Book'
<1>1. R!TypeOK'
  BY DEF R!TypeOK, R!providerVars, R!filterVars
<1>2. Book'
  BY DEF Book, R!providerVars, R!filterVars
<1> QED
  BY <1>1, <1>2

LEMMA StepBook ==
    ASSUME NoBlock \notin Blocks, R!TypeOK, Book, [R!Next]_(R!vars)
    PROVE  R!TypeOK' /\ Book'
<1>1. CASE R!MessageStart
  BY <1>1, ClientOnly DEF R!MessageStart, R!message_start, R!TypeOK
<1>2. CASE R!PassStart
  <2> USE <1>2 DEF R!PassStart, R!content_block_start
  <2>a. starting \in running /\ indexMap[starting] \in Nat
    BY DEF R!TypeOK, Book
  <2>b. opened' \subseteq Nat
    <3>1. opened' = opened \cup {indexMap[starting]}
      OBVIOUS
    <3>2. opened \subseteq Nat
      BY DEF R!TypeOK
    <3> QED BY <2>a, <3>1, <3>2
  <2>c. openBlocks' \subseteq running /\ closedIndexes' \subseteq running
    BY <2>a DEF R!TypeOK
  <2>1. R!TypeOK'
    BY <2>b, <2>c DEF R!TypeOK, R!providerVars
  <2>2. Book'
    BY DEF R!TypeOK, Book, R!providerVars
  <2> QED BY <2>1, <2>2
<1>3. CASE R!MessageStop
  <2> USE <1>3 DEF R!MessageStop, R!message_stop, R!Streaming
  <2>1. R!TypeOK'
    BY DEF R!TypeOK, R!providerVars
  <2>2. Book'
    BY DEF Book, R!providerVars
  <2> QED BY <2>1, <2>2
<1>4. CASE R!StreamEnds
  BY <1>4, ClientOnly DEF R!StreamEnds, R!TypeOK, R!clientVars
<1>5. CASE R!StreamFails
  BY <1>5, ClientOnly DEF R!StreamFails, R!TypeOK, R!clientVars
<1>6. CASE R!ErrorEvent
  <2> USE <1>6 DEF R!ErrorEvent, R!message_start, R!content_block_start, R!content_block_delta,
           R!content_block_stop, R!message_stop
  <2>1. /\ pc # "closing"
        /\ pc' \in {"stream", "error", "errorStart", "errorDelta", "errorStop",
                    "errorEnd", "done"}
    OBVIOUS
  <2>2. phase' \in {"none", "open", "ended"}
    BY DEF R!TypeOK
  <2>3. started' \in Nat
    BY DEF R!TypeOK
  <2>4. opened' \subseteq Nat
    <3>1. opened' \subseteq opened \cup {0}
      OBVIOUS
    <3>2. opened \subseteq Nat
      BY DEF R!TypeOK
    <3> QED BY <3>1, <3>2
  <2> QED
    BY <2>1, <2>2, <2>3, <2>4, ClientOnly DEF R!TypeOK
<1>7. ASSUME NEW b \in Blocks, R!CloseOverlapping(b) PROVE R!TypeOK' /\ Book'
  <2> USE <1>7 DEF R!CloseOverlapping, R!content_block_stop
  <2>1. R!TypeOK'
    BY DEF R!TypeOK, R!providerVars
  <2>2. Book'
    BY DEF R!TypeOK, Book, R!providerVars
  <2> QED BY <2>1, <2>2
<1>8. ASSUME NEW b \in Blocks, R!BlockDelta(b) PROVE R!TypeOK' /\ Book'
  BY <1>8, ClientOnly DEF R!BlockDelta, R!Streaming, R!content_block_delta, R!TypeOK, R!clientVars
<1>9. ASSUME NEW b \in Blocks, R!BlockStop(b) PROVE R!TypeOK' /\ Book'
  <2> USE <1>9 DEF R!BlockStop, R!Streaming, R!content_block_stop
  <2>a. openBlocks' \subseteq running' /\ closedIndexes' \subseteq running'
    BY DEF R!TypeOK, Book, R!clientVars
  <2>b. phase' = phase /\ started' = started /\ opened' \subseteq opened
    BY DEF R!clientVars
  <2>1. R!TypeOK'
    BY <2>a, <2>b DEF R!TypeOK
  <2>2. Book'
    BY DEF R!TypeOK, Book, R!clientVars
  <2> QED BY <2>1, <2>2
<1>10. ASSUME NEW b \in Blocks, NEW type \in R!Types, R!BlockStart(b, type)
       PROVE R!TypeOK' /\ Book'
  <2> USE <1>10 DEF R!BlockStart, R!Streaming, R!clientVars
  <2>1. CASE R!_should_drop_block_type(type)
    BY <2>1 DEF R!TypeOK, Book
  <2>2. CASE ~R!_should_drop_block_type(type)
    <3>1. R!TypeOK'
      BY <2>2 DEF R!TypeOK
    <3>2. /\ indexMap[b] = -1 /\ indexMap' = [indexMap EXCEPT ![b] = nextIndex]
          /\ nextIndex' = nextIndex + 1 /\ nextIndex \in Nat
          /\ indexMap \in [Blocks -> Nat \cup {-1}]
      BY <2>2 DEF R!TypeOK, Book
    <3>3. \A c \in Blocks : indexMap'[c] = IF c = b THEN nextIndex ELSE indexMap[c]
      BY <3>2
    <3>4. Book'
      BY <2>2, <3>2, <3>3 DEF R!TypeOK, Book
    <3> QED BY <3>1, <3>4
  <2> QED BY <2>1, <2>2
<1>11. CASE UNCHANGED R!vars
  BY <1>11 DEF R!vars, R!TypeOK, Book, R!providerVars, R!filterVars, R!clientVars
<1> QED
  BY <1>1, <1>2, <1>3, <1>4, <1>5, <1>6, <1>7, <1>8, <1>9, <1>10, <1>11 DEF R!Next

\* Whatever the provider sends and whatever fails, a block that is open or was closed
\* early is one the provider has not stopped.
THEOREM RouterTypeCorrect ==
    ASSUME NoBlock \notin Blocks
    PROVE  R!Spec => []R!TypeOK
<1>1. R!Spec => [](R!TypeOK /\ Book)
  BY InitBook, StepBook, PTL DEF R!Spec
<1> QED
  BY <1>1, PTL

-----------------------------------------------------------------------------
(* The client's view.                                                      *)

LEMMA InitMirror == R!Init => Mirror
  BY DEF R!Init, Mirror, MirrorStream, MirrorError

LEMMA StepMirror ==
    ASSUME NoBlock \notin Blocks, Faults \subseteq {"refused"}, R!TypeOK, Book, Mirror, [R!Next]_(R!vars)
    PROVE  Mirror' /\ ClientStep
<1> USE DEF R!Event, Client!Event, clientVars, R!clientVars
<1>b. pc \in {"stream", "closing"} => MirrorStream
  BY DEF Mirror
<1>1. CASE R!MessageStart
  <2> USE <1>1 DEF R!MessageStart, R!message_start
  <2>1. MirrorStream'
    BY <1>b DEF MirrorStream, R!filterVars, R!providerVars
  <2>2. ClientStep
    BY DEF ClientStep, Client!Next, Client!MessageStart
  <2> QED BY <2>1, <2>2 DEF Mirror, MirrorError
<1>2. CASE R!PassStart
  <2> USE <1>2 DEF R!PassStart, R!content_block_start
  <2>1. MirrorStream
    BY <1>b
  <2>2. opened' = {indexMap[b] : b \in openBlocks'}
    BY <2>1 DEF MirrorStream
  <2>3. MirrorStream'
    BY <2>1, <2>2 DEF MirrorStream, R!TypeOK, R!providerVars
  <2>4. ClientStep
    BY <2>1 DEF MirrorStream, ClientStep, Client!Next, Client!BlockStart
  <2> QED BY <2>3, <2>4 DEF Mirror, MirrorError
<1>3. CASE R!MessageStop
  <2> USE <1>3 DEF R!MessageStop, R!message_stop, R!Streaming
  <2>1. MirrorStream /\ openBlocks = {}
    BY <1>b DEF R!TypeOK
  <2>2. opened = {} /\ phase = "open"
    BY <2>1 DEF MirrorStream, R!TypeOK
  <2>3. MirrorStream'
    BY <2>1, <2>2 DEF MirrorStream, R!providerVars
  <2>4. ClientStep
    BY <2>2 DEF ClientStep, Client!Next, Client!MessageStop
  <2> QED BY <2>3, <2>4 DEF Mirror, MirrorError
<1>4. CASE R!StreamEnds
  BY <1>4 DEF R!StreamEnds, Mirror, MirrorError, ClientStep
<1>5. CASE R!StreamFails
  <2> USE <1>5 DEF R!StreamFails
  <2>1. ~sentAnyEvent /\ pc' = "error"
    OBVIOUS
  <2>2. phase = "none" /\ begun = {} /\ nextIndex = 0 /\ started = nextIndex
    BY <1>b, <2>1 DEF MirrorStream
  <2>3. opened = {}
    BY <1>b, <2>2 DEF MirrorStream, R!TypeOK
  <2> QED
    BY <2>1, <2>2, <2>3 DEF Mirror, MirrorError, ClientStep, R!clientVars
<1>6. CASE R!ErrorEvent
  <2>1. MirrorError
    BY DEF Mirror
  <2>2. CASE pc = "error" /\ pc' = "errorStart" /\ R!message_start
    BY <2>1, <2>2 DEF R!message_start, Mirror, MirrorError, ClientStep, Client!Next,
       Client!MessageStart
  <2>3. CASE pc = "errorStart" /\ pc' = "errorDelta" /\ R!content_block_start(0)
    BY <2>1, <2>3 DEF R!content_block_start, Mirror, MirrorError, ClientStep, Client!Next,
       Client!BlockStart
  <2>4. CASE pc = "errorDelta" /\ pc' = "errorStop" /\ R!content_block_delta(0)
    BY <2>1, <2>4 DEF R!content_block_delta, Mirror, MirrorError, ClientStep, Client!Next,
       Client!BlockDelta
  <2>5. CASE pc = "errorStop" /\ pc' = "errorEnd" /\ R!content_block_stop(0)
    BY <2>1, <2>5 DEF R!content_block_stop, Mirror, MirrorError, ClientStep, Client!Next,
       Client!BlockStop
  <2>6. CASE pc = "errorEnd" /\ pc' = "done" /\ R!message_stop
    BY <2>1, <2>6 DEF R!message_stop, Mirror, MirrorError, ClientStep, Client!Next,
       Client!MessageStop
  <2> QED BY <1>6, <2>2, <2>3, <2>4, <2>5, <2>6 DEF R!ErrorEvent
<1>7. ASSUME NEW b \in Blocks, R!CloseOverlapping(b) PROVE Mirror' /\ ClientStep
  <2> USE <1>7 DEF R!CloseOverlapping, R!content_block_stop
  <2>1. MirrorStream
    BY <1>b
  <2>2. opened' = {indexMap[c] : c \in openBlocks'}
    BY <2>1 DEF MirrorStream, Book, R!TypeOK
  <2>3. MirrorStream'
    BY <2>1, <2>2 DEF MirrorStream, R!providerVars
  <2>4. ClientStep
    BY <2>1 DEF MirrorStream, ClientStep, Client!Next, Client!BlockStop
  <2> QED BY <2>3, <2>4 DEF Mirror, MirrorError
<1>8. ASSUME NEW b \in Blocks, R!BlockDelta(b) PROVE Mirror' /\ ClientStep
  <2> USE <1>8 DEF R!BlockDelta, R!Streaming
  <2>1. MirrorStream /\ b \notin closedIndexes /\ starting = NoBlock
    BY <1>b DEF Book
  <2>2. UNCHANGED <<phase, started, opened>>
    BY DEF R!content_block_delta, R!clientVars
  <2>3. MirrorStream'
    BY <2>1, <2>2 DEF MirrorStream, R!providerVars, R!filterVars
  <2>4. CASE indexMap[b] # -1
    <3>1. b \in openBlocks
      BY <2>1, <2>4 DEF Book
    <3>2. indexMap[b] \in opened /\ phase = "open"
      BY <2>1, <3>1 DEF MirrorStream, R!TypeOK
    <3> QED BY <2>3, <2>4, <3>2 DEF R!content_block_delta, Mirror, MirrorError, ClientStep,
            Client!Next, Client!BlockDelta
  <2>5. CASE indexMap[b] = -1
    BY <2>3, <2>5 DEF Mirror, MirrorError, ClientStep
  <2> QED BY <2>4, <2>5
<1>9. ASSUME NEW b \in Blocks, R!BlockStop(b) PROVE Mirror' /\ ClientStep
  <2> USE <1>9 DEF R!BlockStop, R!Streaming
  <2>1. MirrorStream /\ starting = NoBlock /\ phase = "open"
    BY <1>b DEF Book, MirrorStream, R!TypeOK
  <2>2. CASE b \in closedIndexes \/ indexMap[b] = -1
    <3>1. UNCHANGED R!clientVars /\ openBlocks' = openBlocks
      BY <2>2
    <3>2. MirrorStream'
      BY <2>1, <3>1 DEF MirrorStream, R!clientVars
    <3> QED BY <3>1, <3>2 DEF Mirror, MirrorError, ClientStep
  <2>3. CASE b \notin closedIndexes /\ indexMap[b] # -1
    <3>1. R!content_block_stop(indexMap[b]) /\ openBlocks' = openBlocks \ {b}
      BY <2>3
    <3>2. b \in openBlocks
      BY <2>1, <2>3 DEF Book
    <3>3. indexMap[b] \in opened
      BY <2>1, <3>2 DEF MirrorStream
    <3>4. opened' = {indexMap[c] : c \in openBlocks'}
      BY <2>1, <3>1, <3>2 DEF R!content_block_stop, MirrorStream, Book, R!TypeOK
    <3>5. MirrorStream'
      BY <2>1, <3>1, <3>4 DEF R!content_block_stop, MirrorStream
    <3>6. ClientStep
      BY <2>1, <3>1, <3>3 DEF R!content_block_stop, ClientStep, Client!Next, Client!BlockStop
    <3> QED BY <3>5, <3>6 DEF Mirror, MirrorError
  <2> QED BY <2>2, <2>3
<1>10. ASSUME NEW b \in Blocks, NEW type \in R!Types, R!BlockStart(b, type)
       PROVE Mirror' /\ ClientStep
  <2> USE <1>10 DEF R!BlockStart, R!Streaming, R!clientVars
  <2>1. MirrorStream /\ phase = "open" /\ b \notin openBlocks
    BY <1>b DEF MirrorStream, R!TypeOK
  <2>2. CASE R!_should_drop_block_type(type)
    <3>1. MirrorStream'
      BY <2>1, <2>2 DEF MirrorStream
    <3> QED BY <2>2, <3>1 DEF Mirror, MirrorError, ClientStep
  <2>3. CASE ~R!_should_drop_block_type(type)
    <3>1. \A c \in openBlocks : indexMap'[c] = indexMap[c]
      BY <2>1, <2>3 DEF R!TypeOK
    <3>2. indexMap'[b] = nextIndex
      BY <2>3 DEF R!TypeOK
    <3>3. opened' = {indexMap'[c] : c \in openBlocks'}
      BY <2>1, <3>1 DEF MirrorStream
    <3>4. pc' = "closing" /\ starting' = b /\ nextIndex' = nextIndex + 1
      BY <2>3
    <3>5. MirrorStream'
      BY <2>1, <3>2, <3>3, <3>4 DEF MirrorStream
    <3> QED BY <3>4, <3>5 DEF Mirror, MirrorError, ClientStep
  <2> QED BY <2>2, <2>3
<1>11. CASE UNCHANGED R!vars
  BY <1>11 DEF R!vars, Mirror, MirrorStream, MirrorError, ClientStep, R!providerVars,
     R!filterVars, R!clientVars
<1> QED
  BY <1>1, <1>2, <1>3, <1>4, <1>5, <1>6, <1>7, <1>8, <1>9, <1>10, <1>11 DEF R!Next

\* A message in which no block is continued or stopped that is not open, and in which
\* indexes are given out in order, whatever overlaps and whatever is hidden, if the stream
\* does not break after events were passed on and no delta comes late.
THEOREM Normalizes ==
    ASSUME NoBlock \notin Blocks, Faults \subseteq {"refused"}
    PROVE  R!Spec => ImplementsClientStream
<1>1. R!Init => Client!Init
  BY DEF R!Init, Client!Init
<1>2. R!TypeOK /\ Book /\ Mirror /\ [R!Next]_(R!vars)
          => R!TypeOK' /\ Book' /\ Mirror' /\ [Client!Next]_<<phase, started, opened, last>>
  BY StepBook, StepMirror DEF ClientStep, clientVars
<1> QED
  BY <1>1, <1>2, InitBook, InitMirror, PTL
  DEF R!Spec, ImplementsClientStream, Client!Spec, Client!clientVars

-----------------------------------------------------------------------------
(* The parsers of the text.  Lemmas about numbers, recursion and sequences.*)

\* The least of some numbers.
LEMMA Least ==
    ASSUME NEW S \in SUBSET Nat, S # {}
    PROVE  \E x \in S : \A y \in S : x <= y
<1>1. PICK x \in S : \A y \in S : ~(<<y, x>> \in OpToRel(<, Nat))
  BY NatLessThanWellFounded, WFMin
<1>2. \A y \in S : ~(y < x)
  BY <1>1 DEF OpToRel
<1> QED
  BY <1>2

\* The first and the last of some places.
LEMMA MinIs ==
    ASSUME NEW S \in SUBSET Nat, S # {}
    PROVE  Min(S) \in S /\ \A y \in S : Min(S) <= y
BY Least DEF Min

LEMMA MaxIs ==
    ASSUME NEW n \in Nat, NEW S \in SUBSET (1..n), S # {}
    PROVE  Max(S) \in S /\ \A y \in S : y <= Max(S)
<1> DEFINE below == {n - y : y \in S}
<1>1. below \in SUBSET Nat /\ below # {}
  <2>1. \A y \in S : n - y \in Nat
    OBVIOUS
  <2> QED
    BY <2>1
<1>2. PICK x \in below : \A y \in below : x <= y
  <2> HIDE DEF below
  <2> QED
    BY <1>1, Least
<1>3. PICK k \in S : x = n - k
  BY <1>2
<1>4. ASSUME NEW y \in S PROVE k >= y
  <2>1. n - y \in below /\ y \in Nat /\ k \in Nat
    BY <1>4
  <2>2. n - k <= n - y
    BY <1>2, <1>3, <2>1
  <2> QED
    BY <2>1, <2>2
<1> QED
  BY <1>3, <1>4 DEF Max

\* What holds of x if it holds of all that is smaller holds of all.
LEMMA MeasureInduction ==
    ASSUME NEW D, NEW size \in [D -> Nat], NEW S,
           \A x \in D : (\A y \in D : size[y] < size[x] => y \in S) => x \in S
    PROVE  \A x \in D : x \in S
<1> DEFINE Bad == {size[x] : x \in {y \in D : y \notin S}}
<1>1. SUFFICES ASSUME Bad # {} PROVE FALSE
  OBVIOUS
<1>2. Bad \in SUBSET Nat
  OBVIOUS
<1>3. PICK n \in Bad : \A k \in Bad : n <= k
  <2> HIDE DEF Bad
  <2> QED
    BY <1>1, <1>2, Least
<1>4. PICK x \in D : x \notin S /\ n = size[x]
  BY <1>3
<1>5. ASSUME NEW y \in D, size[y] < size[x] PROVE y \in S
  <2>1. size[y] \in Nat /\ size[x] \in Nat
    OBVIOUS
  <2>2. ASSUME y \notin S PROVE FALSE
    <3>1. size[y] \in Bad
      BY <2>2
    <3>2. n <= size[y]
      BY <1>3, <3>1
    <3> QED
      BY <1>4, <1>5, <2>1, <3>2
  <2> QED
    BY <2>2
<1> QED
  BY <1>4, <1>5

\* f on D ends in stop with a base, and makes elsewhere a step of what it has next.
Recurs(f, D, T, stop, base, next, step) ==
    /\ f \in [D -> T]
    /\ \A x \in D : f[x] = IF x \in stop THEN base[x] ELSE step[<<x, f[next[x]]>>]

\* A recursion that always goes on with something smaller defines a function.
LEMMA Recursion ==
    ASSUME NEW D, NEW T, NEW size \in [D -> Nat], NEW stop \in SUBSET D,
           NEW base \in [D -> T], NEW next \in [D -> D], NEW step \in [D \X T -> T],
           \A x \in D : x \notin stop => size[next[x]] < size[x]
    PROVE  \E f : Recurs(f, D, T, stop, base, next, step)
<1> DEFINE Below(n) == {x \in D : size[x] < n}
           Rule(f, x) == f[x] = IF x \in stop THEN base[x] ELSE step[<<x, f[next[x]]>>]
           Approx(f, n) == f \in [Below(n) -> T] /\ \A x \in Below(n) : Rule(f, x)
<1>0. \A x \in D : size[x] \in Nat
  OBVIOUS
\* There is one up to any size.
<1>1. ASSUME NEW n \in Nat PROVE \E f : Approx(f, n)
  <2> DEFINE Bad == {k \in Nat : ~\E f : Approx(f, k)}
  <2>1. SUFFICES ASSUME Bad # {} PROVE FALSE
    OBVIOUS
  <2>2. PICK k \in Bad : \A j \in Bad : k <= j
    <3>1. Bad \in SUBSET Nat
      OBVIOUS
    <3> HIDE DEF Bad
    <3> QED
      BY <2>1, <3>1, Least
  <2>3. 0 \notin Bad
    <3>1. Below(0) = {}
      BY <1>0
    <3>2. Approx([x \in {} |-> base[x]], 0)
      BY <3>1
    <3> HIDE DEF Approx
    <3> QED
      BY <3>2
  <2>4. k \in Nat /\ k - 1 \in Nat /\ k - 1 \notin Bad
    <3>1. k \in Nat /\ k # 0
      BY <2>2, <2>3
    <3>2. k - 1 \in Nat /\ k - 1 < k
      BY <3>1
    <3> HIDE DEF Bad
    <3> QED
      BY <2>2, <3>1, <3>2
  <2>5. PICK f : Approx(f, k - 1)
    BY <2>4
  <2> DEFINE g == [x \in Below(k) |-> IF x \in stop THEN base[x] ELSE step[<<x, f[next[x]]>>]]
  <2>6. ASSUME NEW x \in Below(k), x \notin stop
        PROVE  next[x] \in Below(k) /\ next[x] \in Below(k - 1)
    BY <1>0, <2>4, <2>6
  <2>7. \A x \in Below(k) : x \notin stop => f[next[x]] \in T
    BY <2>5, <2>6
  <2>8. g \in [Below(k) -> T]
    BY <2>7
  <2>9. \A x \in Below(k - 1) : x \in Below(k) /\ g[x] = f[x]
    <3>1. \A x \in Below(k - 1) : x \in Below(k)
      BY <1>0, <2>4
    <3>2. \A x \in Below(k - 1) : Rule(f, x)
      BY <2>5
    <3> QED
      BY <3>1, <3>2
  <2>10. \A x \in Below(k) : Rule(g, x)
    BY <2>6, <2>9
  <2> QED
    BY <2>2, <2>8, <2>10
\* Where two are defined they agree.
<1>2. ASSUME NEW n \in Nat, NEW k \in Nat, NEW f, NEW g, Approx(f, n), Approx(g, k),
             NEW x \in Below(n), x \in Below(k)
      PROVE  f[x] = g[x]
  <2> DEFINE Same == {y \in D : y \in Below(n) /\ y \in Below(k) => f[y] = g[y]}
  <2>1. ASSUME NEW y \in D, \A z \in D : size[z] < size[y] => z \in Same PROVE y \in Same
    <3>1. SUFFICES ASSUME y \in Below(n), y \in Below(k) PROVE f[y] = g[y]
      OBVIOUS
    <3>2. Rule(f, y) /\ Rule(g, y)
      BY <1>2, <3>1
    <3>3. CASE y \notin stop
      <4>1. next[y] \in Below(n) /\ next[y] \in Below(k)
        BY <3>1, <3>3
      <4>2. f[next[y]] = g[next[y]]
        BY <2>1, <3>3, <4>1
      <4> QED
        BY <3>2, <3>3, <4>2
    <3> QED
      BY <3>2, <3>3
  <2>2. \A y \in D : y \in Same
    <3> HIDE DEF Same
    <3> QED
      BY <2>1, MeasureInduction
  <2> QED
    BY <1>2, <2>2
<1> DEFINE F(x) == CHOOSE f : Approx(f, size[x] + 1)
           h == [x \in D |-> F(x)[x]]
<1>3. ASSUME NEW x \in D
      PROVE  size[x] + 1 \in Nat /\ Approx(F(x), size[x] + 1) /\ x \in Below(size[x] + 1)
  <2>1. size[x] + 1 \in Nat /\ size[x] < size[x] + 1
    OBVIOUS
  <2>2. \E f : Approx(f, size[x] + 1)
    BY <1>1, <2>1
  <2> HIDE DEF Approx
  <2> QED
    BY <2>1, <2>2
<1> HIDE DEF F
<1>4. h \in [D -> T]
  BY <1>3
<1>5. ASSUME NEW x \in D PROVE Rule(h, x)
  <2>1. Rule(F(x), x)
    BY <1>3
  <2>2. CASE x \notin stop
    <3>1. next[x] \in D /\ next[x] \in Below(size[x] + 1)
      <4>1. size[next[x]] \in Nat /\ size[x] \in Nat /\ next[x] \in D /\ size[next[x]] < size[x]
        BY <2>2
      <4> QED
        BY <4>1
    <3>2. F(x)[next[x]] = F(next[x])[next[x]]
      <4>1. Approx(F(next[x]), size[next[x]] + 1) /\ next[x] \in Below(size[next[x]] + 1)
            /\ size[next[x]] + 1 \in Nat
        BY <1>3, <3>1
      <4>2. Approx(F(x), size[x] + 1) /\ size[x] + 1 \in Nat
        BY <1>3
      <4> HIDE DEF Approx, Below
      <4> QED
        BY <1>2, <3>1, <4>1, <4>2
    <3> QED
      BY <2>1, <2>2, <3>1, <3>2
  <2> QED
    BY <2>1, <2>2
<1> QED
  BY <1>4, <1>5 DEF Recurs

\* f joins the sequences from the first one on.
Joins(f, seqs) ==
    f = [i \in 1..Len(seqs) |-> IF i = 1 THEN seqs[i] ELSE f[i - 1] \o seqs[i]]

\* What it is at a place.
LEMMA JoinsAt ==
    ASSUME NEW f, NEW seqs, Joins(f, seqs), NEW i \in 1..Len(seqs)
    PROVE  f[i] = IF i = 1 THEN seqs[i] ELSE f[i - 1] \o seqs[i]
BY DEF Joins

\* FlattenSeq joins, and what it joins at every place is a sequence.
LEMMA FlattenIs ==
    ASSUME NEW S, NEW seqs \in Seq(Seq(S)), seqs # <<>>
    PROVE  \E f \in [1..Len(seqs) -> Seq(S)] :
              Joins(f, seqs) /\ FlattenSeq(seqs) = f[Len(seqs)]
<1> DEFINE n == Len(seqs)
           D == 1..n
           T == Seq(S)
           size == [i \in D |-> i]
           stop == {1}
           base == [i \in D |-> seqs[i]]
           next == [i \in D |-> IF i = 1 THEN i ELSE i - 1]
           step == [z \in D \X T |-> z[2] \o seqs[z[1]]]
<1>1. n \in Nat \ {0} /\ \A i \in D : seqs[i] \in T /\ i \in Nat
  OBVIOUS
<1>2. size \in [D -> Nat] /\ base \in [D -> T]
  BY <1>1
<1>3. step \in [D \X T -> T]
  <2>1. ASSUME NEW z \in D \X T PROVE z[2] \o seqs[z[1]] \in T
    <3>1. z[2] \in T /\ seqs[z[1]] \in T
      BY <1>1
    <3> QED
      BY <3>1, ConcatProperties
  <2> QED
    BY <2>1
<1>4. /\ stop \in SUBSET D /\ next \in [D -> D]
      /\ \A x \in D : x \notin stop => size[next[x]] < size[x]
  BY <1>1
<1>5. PICK f : Recurs(f, D, T, stop, base, next, step)
  <2> HIDE DEF D, T, size, stop, base, next, step
  <2> QED
    BY <1>2, <1>3, <1>4, Recursion
<1>6. \A x \in D : f[x] = IF x = 1 THEN seqs[x] ELSE f[x - 1] \o seqs[x]
  <2>1. ASSUME NEW x \in D, x # 1 PROVE f[x] = f[x - 1] \o seqs[x]
    <3>1. x - 1 \in D /\ next[x] = x - 1
      BY <1>1, <2>1
    <3>2. <<x, f[x - 1]>> \in D \X T
      BY <1>5, <3>1 DEF Recurs
    <3> QED
      BY <1>5, <2>1, <3>1, <3>2 DEF Recurs
  <2> QED
    BY <1>5, <2>1 DEF Recurs
<1>7. Joins(f, seqs)
  BY <1>5, <1>6 DEF Joins, Recurs
<1> DEFINE g == CHOOSE g : Joins(g, seqs)
<1>8. Joins(g, seqs)
  BY <1>7
<1>9. FlattenSeq(seqs) = g[n]
  BY <1>1 DEF FlattenSeq, Joins
<1>10. g \in [D -> T]
  <2> DEFINE Good == {x \in D : g[x] \in T}
  <2> HIDE DEF g
  <2>1. \A x \in D : g[x] = IF x = 1 THEN seqs[x] ELSE g[x - 1] \o seqs[x]
    BY <1>8 DEF Joins
  <2>2. ASSUME NEW x \in D, \A y \in D : size[y] < size[x] => y \in Good PROVE x \in Good
    <3>1. CASE x = 1
      BY <1>1, <2>1, <3>1
    <3>2. CASE x # 1
      <4>1. x - 1 \in D /\ size[x - 1] < size[x]
        BY <1>1, <3>2
      <4>2. g[x - 1] \in T /\ seqs[x] \in T
        BY <1>1, <2>2, <4>1
      <4>3. g[x - 1] \o seqs[x] \in T
        BY <4>2, ConcatProperties
      <4> QED
        BY <2>1, <3>2, <4>3
    <3> QED
      BY <3>1, <3>2
  <2>3. \A x \in D : x \in Good
    <3> HIDE DEF Good, size, D
    <3> QED
      BY <1>2, <2>2, MeasureInduction
  <2>4. g = [x \in D |-> g[x]]
    BY <1>8 DEF Joins
  <2> QED
    BY <2>3, <2>4
<1> QED
  <2> HIDE DEF g
  <2> QED
    BY <1>8, <1>9, <1>10

\* What is joined from one sequence more ends with that one.
LEMMA FlattenAppend ==
    ASSUME NEW S, NEW seqs \in Seq(Seq(S)), NEW s \in Seq(S)
    PROVE  /\ FlattenSeq(Append(seqs, s)) = FlattenSeq(seqs) \o s
           /\ FlattenSeq(seqs) \in Seq(S)
<1> DEFINE more == Append(seqs, s)
<1>1. /\ Len(seqs) \in Nat /\ more \in Seq(Seq(S)) /\ more # <<>> /\ Len(more) = Len(seqs) + 1
      /\ more[Len(seqs) + 1] = s /\ \A i \in 1..Len(seqs) : more[i] = seqs[i]
  BY AppendProperties
<1> HIDE DEF more
<1>2. PICK g \in [1..Len(more) -> Seq(S)] : Joins(g, more) /\ FlattenSeq(more) = g[Len(more)]
  BY <1>1, FlattenIs
<1>3. CASE seqs = <<>>
  <2>1. Len(seqs) = 0 /\ FlattenSeq(seqs) = <<>> /\ FlattenSeq(seqs) \o s = s
    BY <1>3 DEF FlattenSeq
  <2>2. g[1] = more[1]
    BY <1>1, <1>2, <2>1 DEF Joins
  <2> QED
    BY <1>1, <1>2, <2>1, <2>2, EmptySeq DEF more
<1>4. CASE seqs # <<>>
  <2>1. PICK f \in [1..Len(seqs) -> Seq(S)] : Joins(f, seqs) /\ FlattenSeq(seqs) = f[Len(seqs)]
    BY <1>4, FlattenIs
  <2> DEFINE D == 1..Len(seqs)
             size == [i \in D |-> i]
             Same == {i \in D : f[i] = g[i]}
  <2>2. \A i \in D : /\ f[i] = IF i = 1 THEN seqs[i] ELSE f[i - 1] \o seqs[i]
                     /\ g[i] = IF i = 1 THEN seqs[i] ELSE g[i - 1] \o seqs[i]
    <3> TAKE i \in D
    <3>1. i \in 1..Len(more)
      BY <1>1
    <3>2. f[i] = IF i = 1 THEN seqs[i] ELSE f[i - 1] \o seqs[i]
      BY <2>1, JoinsAt
    <3>3. g[i] = IF i = 1 THEN more[i] ELSE g[i - 1] \o more[i]
      BY <1>2, <3>1, JoinsAt
    <3> QED
      BY <1>1, <3>2, <3>3
  <2>3. size \in [D -> Nat]
    BY <1>1
  <2>4. ASSUME NEW x \in D, \A y \in D : size[y] < size[x] => y \in Same PROVE x \in Same
    <3>1. CASE x = 1
      BY <2>2, <3>1
    <3>2. CASE x # 1
      <4>1. x - 1 \in D /\ size[x - 1] < size[x]
        BY <1>1, <3>2
      <4>2. f[x - 1] = g[x - 1]
        BY <2>4, <4>1
      <4>3. f[x] = f[x - 1] \o seqs[x] /\ g[x] = g[x - 1] \o seqs[x]
        BY <2>2, <3>2
      <4> QED
        BY <4>2, <4>3
    <3> QED
      BY <3>1, <3>2
  <2>5. \A x \in D : x \in Same
    <3> HIDE DEF D, Same, size
    <3> QED
      BY <2>3, <2>4, MeasureInduction
  <2>6. Len(seqs) \in D /\ Len(seqs) + 1 # 1
    BY <1>1, <1>4, EmptySeq
  <2>7. g[Len(seqs) + 1] = g[Len(seqs)] \o s
    <3>1. PICK k : k = Len(seqs) + 1
      OBVIOUS
    <3>2. k \in 1..Len(more) /\ k # 1 /\ k - 1 = Len(seqs) /\ more[k] = s
      BY <1>1, <2>6, <3>1
    <3>3. g[k] = g[k - 1] \o more[k]
      BY <1>2, <3>2, JoinsAt
    <3> QED
      BY <3>1, <3>2, <3>3
  <2>8. g[Len(seqs)] = f[Len(seqs)]
    BY <2>5, <2>6
  <2> QED
    BY <1>1, <1>2, <2>1, <2>6, <2>7, <2>8 DEF more
<1> QED
  BY <1>3, <1>4

-----------------------------------------------------------------------------
(* What a reader makes of a text, character by character.                  *)

\* Characters with their kinds.
Kinds == {"text", "thinking"}
Marked == Seq(Kinds \X STRING)

\* Joining is associative.
LEMMA MarkedConcat ==
    ASSUME NEW a \in Marked, NEW b \in Marked, NEW c \in Marked
    PROVE  a \o (b \o c) = (a \o b) \o c
BY ConcatAssociative DEF Marked

\* The end of a text from place i, and the beginning before it.
LEMMA FromIs ==
    ASSUME NEW s \in Texts, NEW i \in 1..(Len(s) + 1)
    PROVE  /\ From(s, i) \in Texts /\ Len(From(s, i)) = Len(s) - i + 1
           /\ \A j \in 1..(Len(s) - i + 1) : From(s, i)[j] = s[i + j - 1]
<1>1. Len(s) \in Nat /\ i \in Int /\ \A j \in 1..Len(s) : s[j] \in STRING
  BY DEF Texts
<1>2. \A j \in i..Len(s) : s[j] \in STRING
  BY <1>1
<1> QED
  BY <1>1, <1>2, SubSeqProperties DEF From, Texts

LEMMA BeforeIs ==
    ASSUME NEW s \in Texts, NEW i \in 1..(Len(s) + 1)
    PROVE  /\ Before(s, i) \in Texts /\ Len(Before(s, i)) = i - 1
           /\ \A j \in 1..(i - 1) : Before(s, i)[j] = s[j]
<1>1. Len(s) \in Nat /\ i \in Int /\ \A j \in 1..Len(s) : s[j] \in STRING
  BY DEF Texts
<1>2. \A j \in 1..(i - 1) : s[j] \in STRING
  BY <1>1
<1> QED
  BY <1>1, <1>2, SubSeqProperties DEF Before, Texts

\* Where a tag is.
LEMMA OpenAt ==
    ASSUME NEW s \in Texts, NEW i \in 1..(Len(s) + 1)
    PROVE  IsPrefix(OPEN_TAG, From(s, i)) <=>
             i + 2 <= Len(s) /\ s[i] = "<" /\ s[i + 1] = "t" /\ s[i + 2] = ">"
BY DEF From, Texts, OPEN_TAG, IsPrefix

LEMMA CloseAt ==
    ASSUME NEW s \in Texts, NEW i \in 1..(Len(s) + 1)
    PROVE  IsPrefix(CLOSE_TAG, From(s, i)) <=>
             /\ i + 3 <= Len(s)
             /\ s[i] = "<" /\ s[i + 1] = "/" /\ s[i + 2] = "t" /\ s[i + 3] = ">"
BY DEF From, Texts, CLOSE_TAG, IsPrefix

\* From its first place on a text is itself.
LEMMA FromFirst == ASSUME NEW s \in Texts PROVE From(s, 1) = s
BY SubSeqFull DEF From, Texts

\* Characters with their kind.
LEMMA OfKindIs ==
    ASSUME NEW kind \in Kinds, NEW s \in Texts
    PROVE  /\ OfKind(kind, s) \in Marked /\ Len(OfKind(kind, s)) = Len(s)
           /\ \A i \in 1..Len(s) : OfKind(kind, s)[i] = <<kind, s[i]>>
<1>1. /\ Len(s) \in Nat /\ DOMAIN s = 1..Len(s)
      /\ \A i \in 1..Len(s) : <<kind, s[i]>> \in Kinds \X STRING
  BY DEF Texts
<1>2. OfKind(kind, s) = [i \in 1..Len(s) |-> <<kind, s[i]>>]
  BY <1>1 DEF OfKind
<1> QED
  BY <1>1, <1>2 DEF Marked

LEMMA OfKindConcat ==
    ASSUME NEW kind \in Kinds, NEW s \in Texts, NEW t \in Texts
    PROVE  OfKind(kind, s \o t) = OfKind(kind, s) \o OfKind(kind, t)
<1>1. s \o t \in Texts /\ Len(s \o t) = Len(s) + Len(t) /\ Len(s) \in Nat /\ Len(t) \in Nat
  BY DEF Texts
<1>2. /\ OfKind(kind, s \o t) \in Marked /\ Len(OfKind(kind, s \o t)) = Len(s) + Len(t)
      /\ \A i \in 1..(Len(s) + Len(t)) : OfKind(kind, s \o t)[i] = <<kind, (s \o t)[i]>>
  BY <1>1, OfKindIs
<1>3. /\ OfKind(kind, s) \in Marked /\ OfKind(kind, t) \in Marked
      /\ Len(OfKind(kind, s)) = Len(s) /\ Len(OfKind(kind, t)) = Len(t)
      /\ \A i \in 1..Len(s) : OfKind(kind, s)[i] = <<kind, s[i]>>
      /\ \A i \in 1..Len(t) : OfKind(kind, t)[i] = <<kind, t[i]>>
  BY OfKindIs
<1>4. PICK a, b : a = OfKind(kind, s) /\ b = OfKind(kind, t)
  OBVIOUS
<1>4a. /\ a \in Marked /\ b \in Marked /\ Len(a) = Len(s) /\ Len(b) = Len(t)
       /\ \A i \in 1..Len(s) : a[i] = <<kind, s[i]>>
       /\ \A i \in 1..Len(t) : b[i] = <<kind, t[i]>>
  BY <1>3, <1>4
<1>4b. /\ a \o b \in Marked /\ Len(a \o b) = Len(s) + Len(t)
       /\ \A i \in 1..(Len(s) + Len(t)) :
            (a \o b)[i] = IF i <= Len(s) THEN a[i] ELSE b[i - Len(s)]
  <2>1. /\ a \o b \in Marked /\ Len(a \o b) = Len(a) + Len(b)
        /\ \A i \in 1..(Len(a) + Len(b)) :
             (a \o b)[i] = IF i <= Len(a) THEN a[i] ELSE b[i - Len(a)]
    <3>1. a \in Marked /\ b \in Marked
      BY <1>4a
    <3> QED
      BY <3>1, ConcatProperties, Zenon DEF Marked
  <2> QED
    BY <1>4a, <2>1
<1>5. \A i \in 1..(Len(s) + Len(t)) : (s \o t)[i] = IF i <= Len(s) THEN s[i] ELSE t[i - Len(s)]
  BY ConcatProperties DEF Texts
<1>6. ASSUME NEW i \in 1..(Len(s) + Len(t))
      PROVE  OfKind(kind, s \o t)[i] = (a \o b)[i]
  <2>1. CASE i <= Len(s)
    <3>1. i \in 1..Len(s)
      BY <1>1, <2>1
    <3> QED
      BY <1>2, <1>4a, <1>4b, <1>5, <2>1, <3>1
  <2>2. CASE ~(i <= Len(s))
    <3>1. i - Len(s) \in 1..Len(t)
      BY <1>1, <2>2
    <3> QED
      BY <1>2, <1>4a, <1>4b, <1>5, <2>2, <3>1
  <2> QED
    BY <2>1, <2>2
<1> QED
  BY <1>2, <1>4, <1>4b, <1>6, SeqEqual DEF Marked

\* A text begins with at most one of the tags, and then it is not empty.
LEMMA TagsAre ==
    /\ Len(OPEN_TAG) = 3 /\ Len(CLOSE_TAG) = 4
    /\ \A s \in Texts : IsPrefix(OPEN_TAG, s) => s # <<>> /\ ~IsPrefix(CLOSE_TAG, s)
    /\ \A s \in Texts : IsPrefix(CLOSE_TAG, s) => s # <<>>
<1>1. Len(OPEN_TAG) = 3 /\ Len(CLOSE_TAG) = 4
  BY DEF OPEN_TAG, CLOSE_TAG
<1>2. ASSUME NEW s \in Texts, IsPrefix(OPEN_TAG, s) PROVE s # <<>> /\ ~IsPrefix(CLOSE_TAG, s)
  <2>1. Len(s) \in Nat /\ 1 \in 1..(Len(s) + 1) /\ From(s, 1) = s
    BY FromFirst DEF Texts
  <2>2. 3 <= Len(s) /\ s[2] = "t"
    BY <1>2, <2>1, OpenAt
  <2>3. ~(s[2] = "/")
    BY <2>2
  <2> QED
    BY <2>1, <2>2, <2>3, CloseAt
<1>3. ASSUME NEW s \in Texts, IsPrefix(CLOSE_TAG, s) PROVE s # <<>>
  <2>1. Len(s) \in Nat /\ 1 \in 1..(Len(s) + 1) /\ From(s, 1) = s
    BY FromFirst DEF Texts
  <2>2. 4 <= Len(s)
    BY <1>3, <2>1, CloseAt
  <2> QED
    BY <2>2
<1> QED
  BY <1>1, <1>2, <1>3

\* What comes first is a tag for one who reads s.
TagFirst(s, inside) == IsPrefix(CLOSE_TAG, s) \/ (~inside /\ IsPrefix(OPEN_TAG, s))

\* With what the reader goes on.
ReadOn(r) ==
    IF IsPrefix(CLOSE_TAG, r.text) THEN Reader(From(r.text, Len(CLOSE_TAG) + 1), FALSE)
    ELSE IF ~r.inside /\ IsPrefix(OPEN_TAG, r.text)
      THEN Reader(From(r.text, Len(OPEN_TAG) + 1), TRUE)
    ELSE Reader(Tail(r.text), r.inside)

\* Reading goes on with less.
LEMMA ReadOnIs ==
    ASSUME NEW r \in Readers, r.text # <<>>
    PROVE  ReadOn(r) \in Readers /\ Len(ReadOn(r).text) < Len(r.text)
<1>1. r.text \in Texts /\ r.inside \in BOOLEAN /\ Len(r.text) \in Nat \ {0}
  BY EmptySeq DEF Readers, Texts
<1>2. CASE IsPrefix(CLOSE_TAG, r.text)
  <2>1. 4 <= Len(r.text)
    BY <1>1, <1>2, FromFirst, CloseAt
  <2>2. From(r.text, 5) \in Texts /\ Len(From(r.text, 5)) = Len(r.text) - 4
    BY <1>1, <2>1, FromIs
  <2> QED
    BY <1>1, <1>2, <2>1, <2>2, TagsAre DEF ReadOn, Readers, Reader
<1>3. CASE ~IsPrefix(CLOSE_TAG, r.text) /\ ~r.inside /\ IsPrefix(OPEN_TAG, r.text)
  <2>1. 3 <= Len(r.text)
    BY <1>1, <1>3, FromFirst, OpenAt
  <2>2. From(r.text, 4) \in Texts /\ Len(From(r.text, 4)) = Len(r.text) - 3
    BY <1>1, <2>1, FromIs
  <2> QED
    BY <1>1, <1>3, <2>1, <2>2, TagsAre DEF ReadOn, Readers, Reader
<1>4. CASE ~TagFirst(r.text, r.inside)
  <2>1. Tail(r.text) \in Texts /\ Len(Tail(r.text)) = Len(r.text) - 1
    BY <1>1, HeadTailProperties DEF Texts
  <2> QED
    BY <1>1, <1>4, <2>1 DEF ReadOn, Readers, Reader, TagFirst
<1> QED
  BY <1>2, <1>3, <1>4 DEF TagFirst

LEMMA HeadOfKind ==
    ASSUME NEW s \in Texts, s # <<>>, NEW b \in BOOLEAN
    PROVE  OfKind(Mode(b), <<Head(s)>>) \in Marked
<1>1. <<Head(s)>> \in Texts
  BY HeadTailProperties DEF Texts
<1>2. Mode(b) \in Kinds
  BY DEF Mode, Kinds
<1> QED
  BY <1>1, <1>2, OfKindIs

\* The recursion of Reading has a solution, and what is read are characters with kinds.
LEMMA ReadingIs ==
    /\ Reading \in [Readers -> Marked]
    /\ \A r \in Readers : Reading[r] =
         IF r.text = <<>> THEN <<>>
         ELSE IF TagFirst(r.text, r.inside) THEN Reading[ReadOn(r)]
         ELSE OfKind(Mode(r.inside), <<Head(r.text)>>) \o Reading[ReadOn(r)]
<1> DEFINE D == Readers
           T == Marked
           size == [r \in D |-> Len(r.text)]
           stop == {r \in D : r.text = <<>>}
           base == [r \in D |-> <<>>]
           next == [r \in D |-> IF r.text = <<>> THEN r ELSE ReadOn(r)]
           step == [z \in D \X T |->
                      IF z[1].text = <<>> \/ TagFirst(z[1].text, z[1].inside) THEN z[2]
                      ELSE OfKind(Mode(z[1].inside), <<Head(z[1].text)>>) \o z[2]]
<1>1. \A r \in D : r.text \in Texts /\ r.inside \in BOOLEAN /\ Len(r.text) \in Nat
  BY DEF Readers, Texts
<1>2. size \in [D -> Nat] /\ base \in [D -> T] /\ next \in [D -> D] /\ stop \in SUBSET D
  BY <1>1, ReadOnIs, EmptySeq DEF Marked
<1>3. step \in [D \X T -> T]
  <2>1. ASSUME NEW z \in D \X T, z[1].text # <<>>
        PROVE  OfKind(Mode(z[1].inside), <<Head(z[1].text)>>) \o z[2] \in T
    <3>1. z[2] \in T /\ OfKind(Mode(z[1].inside), <<Head(z[1].text)>>) \in T
      BY <1>1, <2>1, HeadOfKind
    <3> QED
      BY <3>1, ConcatProperties DEF Marked
  <2>2. \A z \in D \X T : z[2] \in T
    OBVIOUS
  <2> QED
    BY <2>1, <2>2
<1>4. \A x \in D : x \notin stop => size[next[x]] < size[x]
  BY <1>2, ReadOnIs
<1>5. PICK f : Recurs(f, D, T, stop, base, next, step)
  <2> HIDE DEF D, T, size, stop, base, next, step
  <2> QED
    BY <1>2, <1>3, <1>4, Recursion
<1>6. f \in [D -> T]
  BY <1>5 DEF Recurs
<1>7. ASSUME NEW r \in D
      PROVE  f[r] = IF r.text = <<>> THEN <<>>
                    ELSE IF TagFirst(r.text, r.inside) THEN f[ReadOn(r)]
                    ELSE OfKind(Mode(r.inside), <<Head(r.text)>>) \o f[ReadOn(r)]
  <2>1. f[r] = IF r \in stop THEN base[r] ELSE step[<<r, f[next[r]]>>]
    BY <1>5 DEF Recurs
  <2>2. CASE r.text = <<>>
    BY <2>1, <2>2
  <2>3. CASE r.text # <<>>
    <3>1. ReadOn(r) \in D /\ next[r] = ReadOn(r) /\ r \notin stop
      BY <2>3, ReadOnIs
    <3>2. <<r, f[ReadOn(r)]>> \in D \X T
      BY <1>6, <3>1
    <3> QED
      BY <2>1, <2>3, <3>1, <3>2
  <2> QED
    BY <2>2, <2>3
<1> DEFINE Eq(g) == g = [r \in Readers |->
    CASE r.text = <<>> -> <<>>
      [] IsPrefix(CLOSE_TAG, r.text) ->
           g[Reader(From(r.text, Len(CLOSE_TAG) + 1), FALSE)]
      [] ~r.inside /\ IsPrefix(OPEN_TAG, r.text) ->
           g[Reader(From(r.text, Len(OPEN_TAG) + 1), TRUE)]
      [] OTHER ->
           OfKind(Mode(r.inside), <<Head(r.text)>>) \o g[Reader(Tail(r.text), r.inside)]]
<1>8. ASSUME NEW g, NEW r \in Readers
      PROVE  (CASE r.text = <<>> -> <<>>
      [] IsPrefix(CLOSE_TAG, r.text) ->
           g[Reader(From(r.text, Len(CLOSE_TAG) + 1), FALSE)]
      [] ~r.inside /\ IsPrefix(OPEN_TAG, r.text) ->
           g[Reader(From(r.text, Len(OPEN_TAG) + 1), TRUE)]
      [] OTHER ->
           OfKind(Mode(r.inside), <<Head(r.text)>>) \o g[Reader(Tail(r.text), r.inside)])
       = IF r.text = <<>> THEN <<>>
                    ELSE IF TagFirst(r.text, r.inside) THEN g[ReadOn(r)]
                    ELSE OfKind(Mode(r.inside), <<Head(r.text)>>) \o g[ReadOn(r)]
  <2>1. r.text \in Texts /\ r.inside \in BOOLEAN
    BY <1>1
  <2> QED
    BY <2>1, TagsAre DEF TagFirst, ReadOn
<1>9. Eq(f)
  BY <1>6, <1>7, <1>8
<1>10. Eq(Reading)
  <2> HIDE DEF Eq
  <2>1. Reading = CHOOSE g : Eq(g)
    BY DEF Reading, Eq
  <2> QED
    BY <1>9, <2>1
<1>11. ASSUME NEW r \in D
      PROVE  Reading[r] = IF r.text = <<>> THEN <<>>
                    ELSE IF TagFirst(r.text, r.inside) THEN Reading[ReadOn(r)]
                    ELSE OfKind(Mode(r.inside), <<Head(r.text)>>) \o Reading[ReadOn(r)]
  <2>1. Reading[r] =
          CASE r.text = <<>> -> <<>>
            [] IsPrefix(CLOSE_TAG, r.text) ->
                 Reading[Reader(From(r.text, Len(CLOSE_TAG) + 1), FALSE)]
            [] ~r.inside /\ IsPrefix(OPEN_TAG, r.text) ->
                 Reading[Reader(From(r.text, Len(OPEN_TAG) + 1), TRUE)]
            [] OTHER ->
                 OfKind(Mode(r.inside), <<Head(r.text)>>) \o Reading[Reader(Tail(r.text), r.inside)]
    BY <1>10
  <2> QED
    BY <1>8, <2>1
<1> DEFINE Good == {r \in D : Reading[r] \in T}
<1>12. ASSUME NEW r \in D, \A q \in D : size[q] < size[r] => q \in Good
      PROVE  r \in Good
  <2>1. CASE r.text = <<>>
    BY <1>11, <2>1, EmptySeq DEF Marked
  <2>2. CASE r.text # <<>>
    <3>1. ReadOn(r) \in D /\ size[ReadOn(r)] < size[r]
      BY <2>2, ReadOnIs
    <3>2. Reading[ReadOn(r)] \in T /\ OfKind(Mode(r.inside), <<Head(r.text)>>) \in T
      BY <1>1, <1>12, <2>2, <3>1, HeadOfKind
    <3>3. OfKind(Mode(r.inside), <<Head(r.text)>>) \o Reading[ReadOn(r)] \in T
      BY <3>2, ConcatProperties DEF Marked
    <3> QED
      BY <1>11, <2>2, <3>2, <3>3
  <2> QED
    BY <2>1, <2>2
<1>13. \A r \in D : r \in Good
  <2> HIDE DEF D, Good, size
  <2> QED
    BY <1>2, <1>12, MeasureInduction
<1>14. Reading = [r \in Readers |-> Reading[r]]
  BY <1>10
<1> QED
  BY <1>11, <1>13, <1>14

\* The same, of texts.
LEMMA SeparatedIs ==
    ASSUME NEW s \in Texts, NEW b \in BOOLEAN
    PROVE  /\ Separated(s, b) \in Marked
           /\ s = <<>> => Separated(s, b) = <<>>
           /\ IsPrefix(CLOSE_TAG, s) => Separated(s, b) = Separated(From(s, 5), FALSE)
           /\ ~b /\ IsPrefix(OPEN_TAG, s) => Separated(s, b) = Separated(From(s, 4), TRUE)
           /\ s # <<>> /\ ~TagFirst(s, b) =>
                Separated(s, b) = OfKind(Mode(b), <<Head(s)>>) \o Separated(Tail(s), b)
<1> DEFINE r == Reader(s, b)
<1>1. r \in Readers /\ r.text = s /\ r.inside = b /\ Separated(s, b) = Reading[r]
  BY DEF Reader, Readers, Separated
<1> HIDE DEF r
<1>2. Reading[r] \in Marked
  BY <1>1, ReadingIs
<1>3. Reading[r] = IF r.text = <<>> THEN <<>>
                    ELSE IF TagFirst(r.text, r.inside) THEN Reading[ReadOn(r)]
                    ELSE OfKind(Mode(r.inside), <<Head(r.text)>>) \o Reading[ReadOn(r)]
  BY <1>1, ReadingIs
<1>4. ASSUME IsPrefix(CLOSE_TAG, s) PROVE Separated(s, b) = Separated(From(s, 5), FALSE)
  <2>1. s # <<>> /\ TagFirst(s, b) /\ ReadOn(r) = Reader(From(s, 5), FALSE)
    BY <1>1, <1>4, TagsAre DEF TagFirst, ReadOn
  <2> QED
    BY <1>1, <1>3, <2>1 DEF Separated
<1>5. ASSUME ~b, IsPrefix(OPEN_TAG, s) PROVE Separated(s, b) = Separated(From(s, 4), TRUE)
  <2>1. s # <<>> /\ TagFirst(s, b) /\ ReadOn(r) = Reader(From(s, 4), TRUE)
    <3>1. s # <<>> /\ ~IsPrefix(CLOSE_TAG, s) /\ TagFirst(s, b) /\ Len(OPEN_TAG) + 1 = 4
      BY <1>5, TagsAre DEF TagFirst
    <3>2. ~IsPrefix(CLOSE_TAG, r.text) /\ ~r.inside /\ IsPrefix(OPEN_TAG, r.text)
      BY <1>1, <1>5, <3>1
    <3> QED
      BY <1>1, <3>1, <3>2 DEF ReadOn
  <2> QED
    BY <1>1, <1>3, <2>1 DEF Separated
<1>6. ASSUME s # <<>>, ~TagFirst(s, b)
      PROVE  Separated(s, b) = OfKind(Mode(b), <<Head(s)>>) \o Separated(Tail(s), b)
  <2>1. ReadOn(r) = Reader(Tail(s), b)
    BY <1>1, <1>6 DEF TagFirst, ReadOn
  <2> QED
    BY <1>1, <1>3, <1>6, <2>1 DEF Separated
<1> QED
  BY <1>1, <1>2, <1>3, <1>4, <1>5, <1>6

-----------------------------------------------------------------------------
(* Finding tags.                                                           *)

\* Where Find and FindLast find something.
LEMMA FindIs ==
    ASSUME NEW s \in Texts, NEW t
    PROVE  \/ Find(s, t) = 0 /\ \A i \in 1..Len(s) : ~IsPrefix(t, From(s, i))
           \/ /\ Find(s, t) \in 1..Len(s) /\ IsPrefix(t, From(s, Find(s, t)))
              /\ \A i \in 1..(Find(s, t) - 1) : ~IsPrefix(t, From(s, i))
<1> DEFINE At == {i \in DOMAIN s : IsPrefix(t, SubSeq(s, i, Len(s)))}
<1>1. DOMAIN s = 1..Len(s) /\ Len(s) \in Nat
  BY DEF Texts
<1>2. Find(s, t) = IF At = {} THEN 0 ELSE Min(At)
  BY DEF Find
<1>3. CASE At = {}
  BY <1>1, <1>2, <1>3 DEF From
<1>4. CASE At # {}
  <2>1. At \in SUBSET Nat
    BY <1>1
  <2>2. Min(At) \in At /\ \A i \in At : Min(At) <= i
    <3> HIDE DEF At
    <3> QED
      BY <1>4, <2>1, MinIs
  <2>3. PICK k : k = Min(At)
    OBVIOUS
  <2>4. k \in 1..Len(s) /\ IsPrefix(t, From(s, k)) /\ Find(s, t) = k
    BY <1>1, <1>2, <1>4, <2>2, <2>3 DEF From
  <2>5. ASSUME NEW i \in 1..(k - 1), IsPrefix(t, From(s, i)) PROVE FALSE
    <3>1. i \in At /\ i < k
      BY <1>1, <2>4, <2>5 DEF From
    <3> QED
      BY <1>1, <2>2, <2>3, <2>4, <3>1
  <2> QED
    BY <2>4, <2>5
<1> QED
  BY <1>3, <1>4

LEMMA FindLastIs ==
    ASSUME NEW s \in Texts, NEW c
    PROVE  \/ FindLast(s, c) = 0 /\ \A i \in 1..Len(s) : s[i] # c
           \/ /\ FindLast(s, c) \in 1..Len(s) /\ s[FindLast(s, c)] = c
              /\ \A i \in 1..Len(s) : s[i] = c => i <= FindLast(s, c)
<1> DEFINE At == {i \in 1..Len(s) : s[i] = c}
<1>1. Len(s) \in Nat
  BY DEF Texts
<1>2. FindLast(s, c) = IF At # {} THEN Max(At) ELSE 0
  BY DEF FindLast, SelectLastInSeq
<1>3. At # {} => Max(At) \in At /\ \A i \in At : i <= Max(At)
  <2>1. At \in SUBSET (1..Len(s))
    OBVIOUS
  <2> HIDE DEF At
  <2> QED
    BY <1>1, <2>1, MaxIs
<1> QED
  BY <1>2, <1>3

\* Texts that are cut and joined.
LEMMA FromConcat ==
    ASSUME NEW s \in Texts, NEW c \in Texts, NEW i \in 1..(Len(s) + 1)
    PROVE  /\ s \o c \in Texts /\ Len(s \o c) = Len(s) + Len(c) /\ i \in 1..(Len(s \o c) + 1)
           /\ \A j \in 1..Len(s) : (s \o c)[j] = s[j]
           /\ From(s \o c, i) = From(s, i) \o c
           /\ Before(s \o c, i) = Before(s, i)
<1>1. Len(s) \in Nat /\ Len(c) \in Nat /\ s \o c \in Texts /\ Len(s \o c) = Len(s) + Len(c)
  BY ConcatProperties DEF Texts
<1>2. i \in 1..(Len(s \o c) + 1)
  BY <1>1
<1>3. \A j \in 1..(Len(s) + Len(c)) : (s \o c)[j] = IF j <= Len(s) THEN s[j] ELSE c[j - Len(s)]
  BY ConcatProperties DEF Texts
<1>4. \A j \in 1..Len(s) : (s \o c)[j] = s[j]
  BY <1>1, <1>3
<1>5. Before(s \o c, i) = Before(s, i)
  <2>1. /\ Before(s \o c, i) \in Texts /\ Len(Before(s \o c, i)) = i - 1
        /\ \A j \in 1..(i - 1) : Before(s \o c, i)[j] = (s \o c)[j]
    BY <1>1, <1>2, BeforeIs
  <2>2. /\ Before(s, i) \in Texts /\ Len(Before(s, i)) = i - 1
        /\ \A j \in 1..(i - 1) : Before(s, i)[j] = s[j]
    BY BeforeIs
  <2>3. \A j \in 1..(i - 1) : j \in 1..Len(s)
    BY <1>1
  <2> QED
    BY <1>4, <2>1, <2>2, <2>3, SeqEqual DEF Texts
<1>6. From(s \o c, i) = From(s, i) \o c
  <2>1. PICK u, w : u = From(s \o c, i) /\ w = From(s, i)
    OBVIOUS
  <2>2. /\ u \in Texts /\ Len(u) = Len(s) + Len(c) - i + 1
        /\ \A j \in 1..(Len(s) + Len(c) - i + 1) : u[j] = (s \o c)[i + j - 1]
    <3>1. PICK z : z = s \o c
      OBVIOUS
    <3>2. z \in Texts /\ i \in 1..(Len(z) + 1) /\ Len(z) = Len(s) + Len(c)
      BY <1>1, <1>2, <3>1
    <3>3. /\ From(z, i) \in Texts /\ Len(From(z, i)) = Len(z) - i + 1
          /\ \A j \in 1..(Len(z) - i + 1) : From(z, i)[j] = z[i + j - 1]
      BY <3>2, FromIs
    <3> QED
      BY <2>1, <3>1, <3>2, <3>3
  <2>3. /\ w \in Texts /\ Len(w) = Len(s) - i + 1
        /\ \A j \in 1..(Len(s) - i + 1) : w[j] = s[i + j - 1]
    BY <2>1, FromIs
  <2>4. /\ w \o c \in Texts /\ Len(w \o c) = Len(w) + Len(c)
        /\ \A j \in 1..(Len(w) + Len(c)) :
             (w \o c)[j] = IF j <= Len(w) THEN w[j] ELSE c[j - Len(w)]
    <3>1. w \in Seq(STRING) /\ c \in Seq(STRING)
      BY <2>3 DEF Texts
    <3> QED
      BY <3>1, ConcatProperties, Zenon DEF Texts
  <2>5. Len(u) = Len(w \o c) /\ Len(u) \in Nat
    BY <1>1, <2>2, <2>3, <2>4
  <2>6. ASSUME NEW j \in 1..Len(u) PROVE u[j] = (w \o c)[j]
    <3>1. j \in 1..(Len(s) + Len(c) - i + 1) /\ j \in 1..(Len(w) + Len(c)) /\ j \in Nat
      BY <1>1, <2>2, <2>3
    <3>2. PICK k : k = i + j - 1
      OBVIOUS
    <3>3. k \in 1..(Len(s) + Len(c)) /\ u[j] = (s \o c)[k]
      <4>1. u[j] = (s \o c)[k]
        BY <2>2, <3>1, <3>2
      <4>2. k \in 1..(Len(s) + Len(c))
        BY <1>1, <3>1, <3>2
      <4> QED
        BY <4>1, <4>2
    <3>4. CASE j <= Len(w)
      <4>1. k <= Len(s) /\ j \in 1..(Len(s) - i + 1)
        BY <1>1, <2>3, <3>1, <3>2, <3>4
      <4> QED
        BY <1>3, <2>3, <2>4, <3>1, <3>2, <3>3, <3>4, <4>1
    <3>5. CASE ~(j <= Len(w))
      <4>1. ~(k <= Len(s)) /\ k - Len(s) = j - Len(w)
        BY <1>1, <2>3, <3>1, <3>2, <3>5
      <4> QED
        BY <1>3, <2>4, <3>1, <3>3, <3>5, <4>1
    <3> QED
      BY <3>4, <3>5
  <2> QED
    BY <2>1, <2>2, <2>4, <2>5, <2>6, SeqEqual DEF Texts
<1> QED
  BY <1>1, <1>2, <1>4, <1>5, <1>6

\* The end of an end.
LEMMA FromFrom ==
    ASSUME NEW s \in Texts, NEW i \in 1..(Len(s) + 1), NEW j \in 1..(Len(s) - i + 2)
    PROVE  From(From(s, i), j) = From(s, i + j - 1)
<1>1. Len(s) \in Nat
  BY DEF Texts
<1>2. PICK w, k : w = From(s, i) /\ k = i + j - 1
  OBVIOUS
<1>3. w \in Texts /\ Len(w) = Len(s) - i + 1 /\ \A n \in 1..(Len(s) - i + 1) : w[n] = s[i + n - 1]
  BY <1>2, FromIs
<1>4. j \in 1..(Len(w) + 1) /\ k \in 1..(Len(s) + 1)
  BY <1>1, <1>2, <1>3
<1>5. /\ From(w, j) \in Texts /\ Len(From(w, j)) = Len(s) - k + 1
      /\ \A n \in 1..(Len(s) - k + 1) : From(w, j)[n] = w[j + n - 1]
  <2>1. Len(w) - j + 1 = Len(s) - k + 1
    BY <1>1, <1>2, <1>3
  <2> QED
    BY <1>3, <1>4, <2>1, FromIs
<1>6. /\ From(s, k) \in Texts /\ Len(From(s, k)) = Len(s) - k + 1
      /\ \A n \in 1..(Len(s) - k + 1) : From(s, k)[n] = s[k + n - 1]
  BY <1>4, FromIs
<1>7. ASSUME NEW n \in 1..(Len(s) - k + 1) PROVE From(w, j)[n] = From(s, k)[n]
  <2>1. PICK x : x = j + n - 1
    OBVIOUS
  <2>2. x \in 1..(Len(s) - i + 1) /\ i + x - 1 = k + n - 1
    BY <1>1, <1>2, <1>4, <2>1
  <2> QED
    BY <1>3, <1>5, <1>6, <2>1, <2>2
<1> QED
  BY <1>2, <1>5, <1>6, <1>7, SeqEqual DEF Texts

LEMMA ModeIs == ASSUME NEW b \in BOOLEAN PROVE Mode(b) \in Kinds
BY DEF Mode, Kinds

\* A text from place j on is the character there and the rest.
LEMMA CharacterAt ==
    ASSUME NEW s \in Texts, NEW j \in 1..Len(s)
    PROVE  /\ From(s, j) \in Texts /\ From(s, j) # <<>>
           /\ Head(From(s, j)) = s[j] /\ Tail(From(s, j)) = From(s, j + 1)
           /\ <<s[j]>> \in Texts /\ Before(s, j) \in Texts /\ From(s, j + 1) \in Texts
           /\ Before(s, j + 1) = Before(s, j) \o <<s[j]>>
<1>1. Len(s) \in Nat /\ j \in 1..(Len(s) + 1) /\ j + 1 \in 1..(Len(s) + 1) /\ s[j] \in STRING
      /\ Len(s) \in j..Len(s)
  BY DEF Texts
<1>2. From(s, j) \in Texts /\ Len(From(s, j)) = Len(s) - j + 1
  BY <1>1, FromIs
<1>3. From(s, j) # <<>>
  BY <1>1, <1>2
<1>4. Head(From(s, j)) = s[j] /\ Tail(From(s, j)) = From(s, j + 1)
  BY <1>1, HeadTailOfSubSeq DEF From, Texts
<1>5. Before(s, j) \in Texts /\ From(s, j + 1) \in Texts
  BY <1>1, BeforeIs, FromIs
<1>6. Before(s, j + 1) = Before(s, j) \o <<s[j]>>
  <2>1. SubSeq(s, 1, j) = SubSeq(s, 1, j - 1) \o <<s[j]>>
    BY <1>1, SubSeqRecursiveSecond DEF Texts
  <2>2. j + 1 - 1 = j
    BY <1>1
  <2> QED
    BY <2>1, <2>2 DEF Before
<1>7. <<s[j]>> \in Texts
  BY <1>1 DEF Texts
<1> QED
  BY <1>2, <1>3, <1>4, <1>5, <1>6, <1>7

\* What comes before the first tag is read as it is.
LEMMA Skip ==
    ASSUME NEW s \in Texts, NEW b \in BOOLEAN, NEW k \in 0..Len(s),
           \A i \in 1..k : ~TagFirst(From(s, i), b)
    PROVE  Separated(s, b) = OfKind(Mode(b), Before(s, k + 1)) \o Separated(From(s, k + 1), b)
<1> DEFINE D == 1..(k + 1)
           size == [j \in D |-> j]
           Good == {j \in D : Separated(s, b) =
                      OfKind(Mode(b), Before(s, j)) \o Separated(From(s, j), b)}
<1>1. Len(s) \in Nat /\ k \in Nat /\ Mode(b) \in Kinds /\ size \in [D -> Nat]
  BY ModeIs DEF Texts
<1>2. 1 \in Good
  <2>1. Before(s, 1) = <<>> /\ From(s, 1) = s
    BY FromFirst DEF Before
  <2>2. OfKind(Mode(b), <<>>) = <<>>
    BY DEF OfKind
  <2>3. <<>> \o Separated(s, b) = Separated(s, b)
    BY SeparatedIs, ConcatEmptySeq DEF Marked
  <2> QED
    <3>1. Separated(s, b) = OfKind(Mode(b), Before(s, 1)) \o Separated(From(s, 1), b)
      BY <2>1, <2>2, <2>3, Zenon
    <3>2. 1 \in D
      BY <1>1
    <3> QED
      BY <3>1, <3>2
<1>3. ASSUME NEW j \in D, \A i \in D : size[i] < size[j] => i \in Good PROVE j \in Good
  <2>1. CASE j = 1
    BY <1>2, <2>1
  <2>2. CASE j # 1
    <3>1. PICK x : x = j - 1
      OBVIOUS
    <3>2. x \in 1..Len(s) /\ x \in 1..k /\ x \in D /\ x + 1 = j /\ size[x] < size[j]
      BY <1>1, <2>2, <3>1
    <3>3. Separated(s, b) = OfKind(Mode(b), Before(s, x)) \o Separated(From(s, x), b)
      BY <1>3, <3>2
    <3> HIDE DEF Good, D, size
    <3>4. PICK t, u, w : t = Before(s, x) /\ u = <<s[x]>> /\ w = From(s, j)
      OBVIOUS
    <3>5. t \in Texts /\ u \in Texts /\ w \in Texts /\ Before(s, j) = t \o u
      BY <3>2, <3>4, CharacterAt
    <3>6. Separated(From(s, x), b) = OfKind(Mode(b), u) \o Separated(w, b)
      <4>1. From(s, x) \in Texts /\ From(s, x) # <<>> /\ ~TagFirst(From(s, x), b)
            /\ Head(From(s, x)) = s[x] /\ Tail(From(s, x)) = w
        BY <3>2, <3>4, CharacterAt
      <4> QED
        BY <3>4, <4>1, SeparatedIs
    <3>7. PICK a, d, z : a = OfKind(Mode(b), t) /\ d = OfKind(Mode(b), u) /\ z = Separated(w, b)
      OBVIOUS
    <3>8. a \in Marked /\ d \in Marked /\ z \in Marked
      BY <1>1, <3>5, <3>7, OfKindIs, SeparatedIs
    <3>9. a \o (d \o z) = (a \o d) \o z
      BY <3>8, MarkedConcat, Zenon
    <3>10. OfKind(Mode(b), t \o u) = a \o d
      BY <1>1, <3>5, <3>7, OfKindConcat
    <3>11. Separated(s, b) = OfKind(Mode(b), Before(s, j)) \o Separated(From(s, j), b)
      BY <3>3, <3>4, <3>5, <3>6, <3>7, <3>9, <3>10
    <3> QED
      BY <1>3, <3>11 DEF Good
  <2> QED
    BY <2>1, <2>2
<1>4. \A j \in D : j \in Good
  <2> HIDE DEF D, Good, size
  <2> QED
    BY <1>1, <1>3, MeasureInduction
<1> QED
  BY <1>1, <1>4

\* Tags by their characters.
LEMMA TagAt ==
    ASSUME NEW s \in Texts, NEW i \in 1..(Len(s) + 1), NEW b \in BOOLEAN
    PROVE  TagFirst(From(s, i), b) <=>
             \/ /\ i + 3 <= Len(s)
                /\ s[i] = "<" /\ s[i + 1] = "/" /\ s[i + 2] = "t" /\ s[i + 3] = ">"
             \/ ~b /\ i + 2 <= Len(s) /\ s[i] = "<" /\ s[i + 1] = "t" /\ s[i + 2] = ">"
BY OpenAt, CloseAt DEF TagFirst

\* No tag reaches into a place where another one begins.
LEMMA BeforeTag ==
    ASSUME NEW s \in Texts, NEW c \in Texts, NEW b \in BOOLEAN, NEW i \in 1..Len(s),
           i + 2 <= Len(s), \A j \in 1..(i - 1) : ~TagFirst(From(s, j), b)
    PROVE  \A j \in 1..(i - 1) : ~TagFirst(From(s \o c, j), b)
<1> SUFFICES ASSUME NEW j \in 1..(i - 1), TagFirst(From(s \o c, j), b) PROVE FALSE
  OBVIOUS
<1>1. Len(s) \in Nat /\ Len(c) \in Nat /\ j \in 1..(Len(s) + 1) /\ i \in Nat /\ j \in Nat
  BY DEF Texts
<1>2. PICK z : z = s \o c
  OBVIOUS
<1>3. z \in Texts /\ j \in 1..(Len(z) + 1) /\ \A n \in 1..Len(s) : z[n] = s[n]
  BY <1>1, <1>2, FromConcat
<1>4. \/ /\ j + 3 <= Len(z)
         /\ z[j] = "<" /\ z[j + 1] = "/" /\ z[j + 2] = "t" /\ z[j + 3] = ">"
      \/ ~b /\ j + 2 <= Len(z) /\ z[j] = "<" /\ z[j + 1] = "t" /\ z[j + 2] = ">"
  <2>1. TagFirst(From(z, j), b)
    BY <1>2
  <2> QED
    BY <1>3, <2>1, TagAt
<1>5. j \in 1..Len(s) /\ j + 1 \in 1..Len(s) /\ j + 2 \in 1..Len(s) /\ j + 3 \in 1..Len(s)
  BY <1>1
<1>6. z[j] = s[j] /\ z[j + 1] = s[j + 1] /\ z[j + 2] = s[j + 2] /\ z[j + 3] = s[j + 3]
  BY <1>3, <1>5
<1>8. \/ /\ j + 3 <= Len(s)
         /\ s[j] = "<" /\ s[j + 1] = "/" /\ s[j + 2] = "t" /\ s[j + 3] = ">"
      \/ ~b /\ j + 2 <= Len(s) /\ s[j] = "<" /\ s[j + 1] = "t" /\ s[j + 2] = ">"
  BY <1>4, <1>5, <1>6
<1>9. TagFirst(From(s, j), b)
  BY <1>1, <1>8, TagAt
<1> QED
  BY <1>1, <1>9

-----------------------------------------------------------------------------
(* What a turn of the parser does to what is yielded and to come.          *)

\* What a call of the parser yields.
ContentChunks == [type : Kinds, content : Texts]

\* The fields of a parser.
LEMMA ParsersAre ==
    /\ ThinkTagParsers = [buffer : Texts, inside : BOOLEAN, yielded : Seq(ContentChunks)]
    /\ \A p \in ThinkTagParsers : p.buffer \in Texts /\ p.inside \in BOOLEAN
                                  /\ p.yielded \in Seq(ContentChunks)
BY DEF ThinkTagParsers, ContentChunks, Kinds

\* The characters of a chunk more.
LEMMA ChunksIs ==
    ASSUME NEW y \in Seq(ContentChunks), NEW c \in ContentChunks
    PROVE  /\ Chunks(<<>>) = <<>> /\ Chunks(y) \in Marked
           /\ Chunks(Append(y, c)) = Chunks(y) \o OfKind(c.type, c.content)
<1> DEFINE seqs == [i \in DOMAIN y |-> OfKind(y[i].type, y[i].content)]
           new == OfKind(c.type, c.content)
<1>1. Len(y) \in Nat /\ DOMAIN y = 1..Len(y) /\ \A i \in 1..Len(y) : y[i] \in ContentChunks
  BY LenProperties, ElementOfSeq
<1>2. \A q \in ContentChunks : OfKind(q.type, q.content) \in Marked
  BY OfKindIs DEF ContentChunks
<1>3. seqs \in Seq(Marked) /\ Len(seqs) = Len(y) /\ new \in Marked
  BY <1>1, <1>2
<1>4. /\ Append(y, c) \in Seq(ContentChunks) /\ Len(Append(y, c)) = Len(y) + 1
      /\ DOMAIN Append(y, c) = 1..(Len(y) + 1)
      /\ \A i \in 1..Len(y) : Append(y, c)[i] = y[i]
      /\ Append(y, c)[Len(y) + 1] = c
  BY AppendProperties
<1> DEFINE more == [i \in DOMAIN Append(y, c) |->
                      OfKind(Append(y, c)[i].type, Append(y, c)[i].content)]
<1>5. more = Append(seqs, new)
  <2>1. ASSUME NEW i \in 1..(Len(y) + 1) PROVE more[i] = IF i = Len(y) + 1 THEN new ELSE seqs[i]
    BY <1>1, <1>4
  <2>2. more = [i \in 1..(Len(y) + 1) |-> IF i = Len(y) + 1 THEN new ELSE seqs[i]]
    BY <1>4, <2>1
  <2> HIDE DEF seqs, new, more
  <2>3. more \in Seq(Marked) /\ Len(more) = Len(y) + 1
    <3>1. \A i \in 1..(Len(y) + 1) : (IF i = Len(y) + 1 THEN new ELSE seqs[i]) \in Marked
      BY <1>1, <1>3
    <3> QED
      BY <1>1, <2>2, <3>1
  <2>4. /\ Append(seqs, new) \in Seq(Marked) /\ Len(Append(seqs, new)) = Len(y) + 1
        /\ \A i \in 1..Len(y) : Append(seqs, new)[i] = seqs[i]
        /\ Append(seqs, new)[Len(y) + 1] = new
    BY <1>3, AppendProperties
  <2>5. \A i \in 1..(Len(y) + 1) : more[i] = Append(seqs, new)[i]
    BY <1>1, <2>2, <2>4
  <2> QED
    BY <2>3, <2>4, <2>5, SeqEqual
<1>6. FlattenSeq(Append(seqs, new)) = FlattenSeq(seqs) \o new /\ FlattenSeq(seqs) \in Marked
  <2> HIDE DEF seqs, new
  <2> QED
    BY <1>3, FlattenAppend DEF Marked
<1>7. Chunks(<<>>) = <<>>
  <2>1. FlattenSeq(<<>>) = <<>>
    BY DEF FlattenSeq
  <2>2. Chunks(<<>>) = FlattenSeq(<<>>)
    BY DEF Chunks
  <2> QED
    BY <2>1, <2>2
<1> QED
  BY <1>5, <1>6, <1>7 DEF Chunks

\* What is yielded more, as characters.
LEMMA YieldIs ==
    ASSUME NEW p \in ThinkTagParsers, NEW s \in Texts
    PROVE  /\ Yield(p, s) \in ThinkTagParsers
           /\ Yield(p, s).buffer = p.buffer /\ Yield(p, s).inside = p.inside
           /\ Chunks(Yield(p, s).yielded) = Chunks(p.yielded) \o OfKind(Mode(p.inside), s)
<1>1. /\ p.buffer \in Texts /\ p.inside \in BOOLEAN /\ p.yielded \in Seq(ContentChunks)
      /\ Mode(p.inside) \in Kinds
  BY ParsersAre, ModeIs
<1>2. PICK c : c = ContentChunk(Mode(p.inside), s)
  OBVIOUS
<1>3. c \in ContentChunks /\ c.type = Mode(p.inside) /\ c.content = s
  BY <1>1, <1>2 DEF ContentChunk, ContentChunks
<1>4. Append(p.yielded, c) \in Seq(ContentChunks)
  BY <1>1, <1>3, AppendProperties
<1>5. /\ Chunks(Append(p.yielded, c)) = Chunks(p.yielded) \o OfKind(Mode(p.inside), s)
      /\ Chunks(p.yielded) \in Marked
  BY <1>1, <1>3, ChunksIs
<1>6. CASE s = <<>>
  <2>1. OfKind(Mode(p.inside), s) = <<>>
    BY <1>6 DEF OfKind
  <2>2. Chunks(p.yielded) \o <<>> = Chunks(p.yielded)
    BY <1>5, ConcatEmptySeq DEF Marked
  <2> QED
    BY <1>6, <2>1, <2>2 DEF Yield
<1>7. CASE s # <<>>
  <2>1. Yield(p, s) = [p EXCEPT !.yielded = Append(@, c)]
    BY <1>2, <1>7 DEF Yield
  <2> QED
    BY <1>1, <1>4, <1>5, <2>1, ParsersAre
<1> QED
  BY <1>6, <1>7

\* One turn of the parser: the text before place i is yielded, and n characters are dropped.
LEMMA ConsumeIs ==
    ASSUME NEW p \in ThinkTagParsers, NEW tag,
           NEW i \in 1..(Len(p.buffer) + 1), i + Len(tag) \in 1..(Len(p.buffer) + 1)
    PROVE  /\ Consume(p, i, tag) \in ThinkTagParsers
           /\ Consume(p, i, tag).buffer = From(p.buffer, i + Len(tag))
           /\ Consume(p, i, tag).inside = p.inside
           /\ Chunks(Consume(p, i, tag).yielded) =
                Chunks(p.yielded) \o OfKind(Mode(p.inside), Before(p.buffer, i))
<1>1. p.buffer \in Texts
  BY ParsersAre
<1>2. Before(p.buffer, i) \in Texts /\ From(p.buffer, i + Len(tag)) \in Texts
  BY <1>1, BeforeIs, FromIs
<1>3. PICK q : q = Yield(p, Before(p.buffer, i))
  OBVIOUS
<1>4. /\ q \in ThinkTagParsers /\ q.inside = p.inside
      /\ Chunks(q.yielded) = Chunks(p.yielded) \o OfKind(Mode(p.inside), Before(p.buffer, i))
  BY <1>2, <1>3, YieldIs
<1>5. Consume(p, i, tag) = [q EXCEPT !.buffer = From(p.buffer, i + Len(tag))]
  BY <1>3 DEF Consume
<1> QED
  BY <1>2, <1>4, <1>5, ParsersAre

\* A text that may be the beginning of a tag.
BeginsTag(s) == \E tag \in {OPEN_TAG, CLOSE_TAG} : IsStrictPrefix(s, tag)

\* What is a proper beginning of a tag.
LEMMA StrictClose ==
    ASSUME NEW s \in Texts
    PROVE  IsStrictPrefix(s, CLOSE_TAG) <=>
             /\ Len(s) <= 3 /\ (1 <= Len(s) => s[1] = "<") /\ (2 <= Len(s) => s[2] = "/")
             /\ (3 <= Len(s) => s[3] = "t")
<1>1. Len(s) \in Nat /\ Len(CLOSE_TAG) = 4 /\ CLOSE_TAG[1] = "<" /\ CLOSE_TAG[2] = "/"
      /\ CLOSE_TAG[3] = "t" /\ CLOSE_TAG[4] = ">"
  BY DEF CLOSE_TAG, Texts
<1>1a. Len(s) \in Nat
  BY DEF Texts
<1>2. SubSeq(s, 1, Len(s)) = s
  BY SubSeqFull DEF Texts
<1>3. ASSUME Len(s) <= 4
      PROVE  SubSeq(CLOSE_TAG, 1, Len(s)) = s <=> \A j \in 1..Len(s) : s[j] = CLOSE_TAG[j]
  BY <1>1, <1>3 DEF Texts, CLOSE_TAG
<1>4. ASSUME IsStrictPrefix(s, CLOSE_TAG)
      PROVE  /\ Len(s) <= 3 /\ (1 <= Len(s) => s[1] = "<") /\ (2 <= Len(s) => s[2] = "/")
             /\ (3 <= Len(s) => s[3] = "t")
  <2>1. Len(s) <= 4 /\ \A j \in 1..Len(s) : s[j] = CLOSE_TAG[j]
    BY <1>1, <1>2, <1>3, <1>4 DEF IsStrictPrefix, IsPrefix
  <2>0. Len(s) <= 4
    BY <2>1
  <2>2. Len(s) # 4
    <3>1. SUFFICES ASSUME Len(s) = 4 PROVE FALSE
      OBVIOUS
    <3>2. s[1] = CLOSE_TAG[1] /\ s[2] = CLOSE_TAG[2] /\ s[3] = CLOSE_TAG[3] /\ s[4] = CLOSE_TAG[4]
      BY <2>1, <3>1
    <3>3. s = CLOSE_TAG
      BY <3>1, <3>2 DEF CLOSE_TAG, Texts
    <3> QED
      BY <1>4, <3>3 DEF IsStrictPrefix
  <2>3. /\ (1 <= Len(s) => 1 \in 1..Len(s)) /\ (2 <= Len(s) => 2 \in 1..Len(s))
        /\ (3 <= Len(s) => 3 \in 1..Len(s)) /\ Len(s) <= 3
    <3>1. PICK n \in Nat : n = Len(s)
      BY <1>1a
    <3>2. n <= 4 /\ n # 4
      BY <2>0, <2>2, <3>1
    <3>3. n <= 3
      BY <3>2
    <3> QED
      BY <3>1, <3>3
  <2> QED
    BY <1>1, <2>1, <2>3
<1>5. ASSUME Len(s) <= 3, 1 <= Len(s) => s[1] = "<", 2 <= Len(s) => s[2] = "/",
             3 <= Len(s) => s[3] = "t"
      PROVE  IsStrictPrefix(s, CLOSE_TAG)
  <2>1. ASSUME NEW j \in 1..Len(s) PROVE s[j] = CLOSE_TAG[j]
    <3>0. Len(s) <= 3
      BY <1>5
    <3>1. j \in {1, 2, 3} /\ j <= Len(s)
      BY <1>1a, <3>0
    <3> QED
      BY <1>1, <1>5, <3>1
  <2>2. s # CLOSE_TAG
    <3>1. SUFFICES ASSUME s = CLOSE_TAG PROVE FALSE
      OBVIOUS
    <3>2. Len(s) = 4
      BY <1>1, <3>1
    <3> QED
      BY <1>5, <3>2
  <2> QED
    BY <1>1, <1>2, <1>3, <1>5, <2>1, <2>2 DEF IsStrictPrefix, IsPrefix
<1> QED
  BY <1>4, <1>5

LEMMA StrictOpen ==
    ASSUME NEW s \in Texts
    PROVE  IsStrictPrefix(s, OPEN_TAG) <=>
             Len(s) <= 2 /\ (1 <= Len(s) => s[1] = "<") /\ (2 <= Len(s) => s[2] = "t")
<1>1. Len(s) \in Nat /\ Len(OPEN_TAG) = 3 /\ OPEN_TAG[1] = "<" /\ OPEN_TAG[2] = "t"
      /\ OPEN_TAG[3] = ">"
  BY DEF OPEN_TAG, Texts
<1>1a. Len(s) \in Nat
  BY DEF Texts
<1>2. SubSeq(s, 1, Len(s)) = s
  BY SubSeqFull DEF Texts
<1>3. ASSUME Len(s) <= 3
      PROVE  SubSeq(OPEN_TAG, 1, Len(s)) = s <=> \A j \in 1..Len(s) : s[j] = OPEN_TAG[j]
  BY <1>1, <1>3 DEF Texts, OPEN_TAG
<1>4. ASSUME IsStrictPrefix(s, OPEN_TAG)
      PROVE  Len(s) <= 2 /\ (1 <= Len(s) => s[1] = "<") /\ (2 <= Len(s) => s[2] = "t")
  <2>1. Len(s) <= 3 /\ \A j \in 1..Len(s) : s[j] = OPEN_TAG[j]
    BY <1>1, <1>2, <1>3, <1>4 DEF IsStrictPrefix, IsPrefix
  <2>0. Len(s) <= 3
    BY <2>1
  <2>2. Len(s) # 3
    <3>1. SUFFICES ASSUME Len(s) = 3 PROVE FALSE
      OBVIOUS
    <3>2. s[1] = OPEN_TAG[1] /\ s[2] = OPEN_TAG[2] /\ s[3] = OPEN_TAG[3]
      BY <2>1, <3>1
    <3>3. s = OPEN_TAG
      BY <3>1, <3>2 DEF OPEN_TAG, Texts
    <3> QED
      BY <1>4, <3>3 DEF IsStrictPrefix
  <2>3. (1 <= Len(s) => 1 \in 1..Len(s)) /\ (2 <= Len(s) => 2 \in 1..Len(s)) /\ Len(s) <= 2
    <3>1. PICK n \in Nat : n = Len(s)
      BY <1>1a
    <3>2. n <= 3 /\ n # 3
      BY <2>0, <2>2, <3>1
    <3>3. n <= 2
      BY <3>2
    <3> QED
      BY <3>1, <3>3
  <2> QED
    BY <1>1, <2>1, <2>3
<1>5. ASSUME Len(s) <= 2, 1 <= Len(s) => s[1] = "<", 2 <= Len(s) => s[2] = "t"
      PROVE  IsStrictPrefix(s, OPEN_TAG)
  <2>1. ASSUME NEW j \in 1..Len(s) PROVE s[j] = OPEN_TAG[j]
    <3>0. Len(s) <= 2
      BY <1>5
    <3>1. j \in {1, 2} /\ j <= Len(s)
      BY <1>1a, <3>0
    <3> QED
      BY <1>1, <1>5, <3>1
  <2>2. s # OPEN_TAG
    <3>1. SUFFICES ASSUME s = OPEN_TAG PROVE FALSE
      OBVIOUS
    <3>2. Len(s) = 3
      BY <1>1, <3>1
    <3> QED
      BY <1>5, <3>2
  <2> QED
    BY <1>1, <1>2, <1>3, <1>5, <2>1, <2>2 DEF IsStrictPrefix, IsPrefix
<1> QED
  BY <1>4, <1>5

\* What Hold keeps may be a tag, and in what it passes on no tag begins, however the text goes on.
LEMMA HeldIs ==
    ASSUME NEW p \in ThinkTagParsers,
           \A j \in 1..Len(p.buffer) : ~TagFirst(From(p.buffer, j), p.inside)
    PROVE  /\ HeldFrom(p) \in 1..(Len(p.buffer) + 1)
           /\ BeginsTag(From(p.buffer, HeldFrom(p)))
           /\ \A c \in Texts : \A j \in 1..(HeldFrom(p) - 1) :
                ~TagFirst(From(p.buffer \o c, j), p.inside)
<1> DEFINE s == p.buffer
           b == p.inside
           here == FindLast(s, "<")
           tags == IF b THEN {CLOSE_TAG} ELSE {OPEN_TAG, CLOSE_TAG}
           held == HeldFrom(p)
<1>1. s \in Texts /\ b \in BOOLEAN /\ Len(s) \in Nat
  BY ParsersAre DEF Texts
<1>2. held = IF here # 0 /\ \E tag \in tags : IsStrictPrefix(From(s, here), tag)
               THEN here ELSE Len(s) + 1
  BY DEF HeldFrom
<1>3. \/ here = 0 /\ \A i \in 1..Len(s) : s[i] # "<"
      \/ here \in 1..Len(s) /\ s[here] = "<" /\ \A i \in 1..Len(s) : s[i] = "<" => i <= here
  BY <1>1, FindLastIs
<1>4. \A j \in 1..Len(s) : ~TagFirst(From(s, j), b)
  OBVIOUS
<1> HIDE DEF s, b, here, held
<1>5. held \in 1..(Len(s) + 1)
  BY <1>1, <1>2, <1>3
<1>6. BeginsTag(From(s, held))
  <2>1. CASE held = here /\ \E tag \in tags : IsStrictPrefix(From(s, here), tag)
    BY <2>1 DEF BeginsTag
  <2>2. CASE held = Len(s) + 1
    <3>1. From(s, held) \in Texts /\ Len(From(s, held)) = 0
      BY <1>1, <1>5, <2>2, FromIs
    <3>2. IsStrictPrefix(From(s, held), OPEN_TAG)
      BY <3>1, StrictOpen
    <3> QED
      BY <3>2 DEF BeginsTag
  <2> QED
    BY <1>2, <2>1, <2>2
<1>7. ASSUME NEW c \in Texts, NEW j \in 1..(held - 1), TagFirst(From(s \o c, j), b)
      PROVE  FALSE
  <2>1. j \in 1..Len(s) /\ j < held /\ j \in 1..(Len(s) + 1)
    BY <1>1, <1>5
  <2>2. PICK z : z = s \o c
    OBVIOUS
  <2>3. z \in Texts /\ j \in 1..(Len(z) + 1) /\ TagFirst(From(z, j), b)
        /\ \A n \in 1..Len(s) : z[n] = s[n]
    BY <1>1, <1>7, <2>1, <2>2, FromConcat
  <2>4. PICK w : w = From(s, j)
    OBVIOUS
  <2>5. /\ w \in Texts /\ Len(w) = Len(s) - j + 1
        /\ \A n \in 1..(Len(s) - j + 1) : w[n] = s[j + n - 1]
    BY <1>1, <2>1, <2>4, FromIs
  <2>6. \/ /\ j + 3 <= Len(z)
           /\ z[j] = "<" /\ z[j + 1] = "/" /\ z[j + 2] = "t" /\ z[j + 3] = ">"
        \/ ~b /\ j + 2 <= Len(z) /\ z[j] = "<" /\ z[j + 1] = "t" /\ z[j + 2] = ">"
    BY <1>1, <2>3, TagAt
  <2>7. s[j] = "<" /\ here \in j..Len(s) /\ s[here] = "<" /\ z[here] = "<"
    BY <1>1, <1>3, <2>1, <2>3, <2>6
  <2>8. CASE j + 3 <= Len(z)
             /\ z[j] = "<" /\ z[j + 1] = "/" /\ z[j + 2] = "t" /\ z[j + 3] = ">"
    <3>1. ~(j + 3 <= Len(s))
      <4>1. SUFFICES ASSUME j + 3 <= Len(s) PROVE FALSE
        OBVIOUS
      <4>2. j + 1 \in 1..Len(s) /\ j + 2 \in 1..Len(s) /\ j + 3 \in 1..Len(s)
        BY <1>1, <2>1, <4>1
      <4>3. TagFirst(From(s, j), b)
        BY <1>1, <2>1, <2>3, <2>8, <4>1, <4>2, TagAt
      <4> QED
        BY <1>4, <2>1, <4>3
    <3>2. here = j
      <4>1. here \in {j, j + 1, j + 2}
        BY <1>1, <2>1, <2>7, <3>1
      <4> QED
        BY <2>7, <2>8, <4>1
    <3>3. Len(w) <= 3 /\ Len(w) \in Nat
      BY <1>1, <2>1, <2>5, <3>1
    <3>4. /\ 1 <= Len(w) => w[1] = "<"
          /\ 2 <= Len(w) => w[2] = "/"
          /\ 3 <= Len(w) => w[3] = "t"
      <4>1. 1 <= Len(w) => w[1] = s[j] /\ j \in 1..Len(s)
        BY <1>1, <2>1, <2>5
      <4>2. 2 <= Len(w) => w[2] = s[j + 1] /\ j + 1 \in 1..Len(s)
        BY <1>1, <2>1, <2>5
      <4>3. 3 <= Len(w) => w[3] = s[j + 2] /\ j + 2 \in 1..Len(s)
        BY <1>1, <2>1, <2>5
      <4> QED
        BY <2>3, <2>8, <4>1, <4>2, <4>3
    <3>5. IsStrictPrefix(From(s, here), CLOSE_TAG)
      BY <2>4, <2>5, <3>2, <3>3, <3>4, StrictClose
    <3> QED
      BY <1>1, <1>2, <2>1, <3>2, <3>5
  <2>9. CASE ~b /\ j + 2 <= Len(z) /\ z[j] = "<" /\ z[j + 1] = "t" /\ z[j + 2] = ">"
    <3>1. ~(j + 2 <= Len(s))
      <4>1. SUFFICES ASSUME j + 2 <= Len(s) PROVE FALSE
        OBVIOUS
      <4>2. j + 1 \in 1..Len(s) /\ j + 2 \in 1..Len(s)
        BY <1>1, <2>1, <4>1
      <4>3. TagFirst(From(s, j), b)
        BY <1>1, <2>1, <2>3, <2>9, <4>1, <4>2, TagAt
      <4> QED
        BY <1>4, <2>1, <4>3
    <3>2. here = j
      <4>1. here \in {j, j + 1}
        BY <1>1, <2>1, <2>7, <3>1
      <4> QED
        BY <2>7, <2>9, <4>1
    <3>3. Len(w) <= 2 /\ Len(w) \in Nat
      BY <1>1, <2>1, <2>5, <3>1
    <3>4. (1 <= Len(w) => w[1] = "<") /\ (2 <= Len(w) => w[2] = "t")
      <4>1. 1 <= Len(w) => w[1] = s[j] /\ j \in 1..Len(s)
        BY <1>1, <2>1, <2>5
      <4>2. 2 <= Len(w) => w[2] = s[j + 1] /\ j + 1 \in 1..Len(s)
        BY <1>1, <2>1, <2>5
      <4> QED
        BY <2>3, <2>9, <4>1, <4>2
    <3>5. IsStrictPrefix(From(s, here), OPEN_TAG)
      BY <2>4, <2>5, <3>2, <3>3, <3>4, StrictOpen
    <3> QED
      BY <1>1, <1>2, <2>1, <2>9, <3>2, <3>5
  <2> QED
    BY <2>6, <2>8, <2>9
<1> QED
  BY <1>5, <1>6, <1>7 DEF s, b, held

\* What the parser has yielded, followed by what a reader makes of its buffer and of the
\* text that comes then.
Whole(p, c) == Chunks(p.yielded) \o Separated(p.buffer \o c, p.inside)

LEMMA ChunksMarked == ASSUME NEW p \in ThinkTagParsers PROVE Chunks(p.yielded) \in Marked
<1>1. p.yielded \in Seq(ContentChunks)
  BY ParsersAre
<1>2. [type |-> "text", content |-> <<>>] \in ContentChunks
  BY DEF ContentChunks, Kinds, Texts
<1> QED
  BY <1>1, <1>2, ChunksIs

\* A turn that yields all before place i, where no tag begins.
LEMMA ConsumeReads ==
    ASSUME NEW p \in ThinkTagParsers, NEW c \in Texts, NEW i \in 1..(Len(p.buffer) + 1),
           \A j \in 1..(i - 1) : ~TagFirst(From(p.buffer \o c, j), p.inside)
    PROVE  Whole(p, c) = (Chunks(p.yielded) \o OfKind(Mode(p.inside), Before(p.buffer, i)))
                            \o Separated(From(p.buffer, i) \o c, p.inside)
<1>1. PICK s, b, z, k : s = p.buffer /\ b = p.inside /\ z = s \o c /\ k = i - 1
  OBVIOUS
<1>2. s \in Texts /\ b \in BOOLEAN /\ Len(s) \in Nat /\ i \in 1..(Len(s) + 1)
  BY <1>1, ParsersAre DEF Texts
<1>3. /\ z \in Texts /\ Len(z) \in Nat /\ Len(s) <= Len(z) /\ i \in 1..(Len(z) + 1)
      /\ From(z, i) = From(s, i) \o c /\ Before(z, i) = Before(s, i)
  <2>1. Len(c) \in Nat
    BY DEF Texts
  <2>2. /\ z \in Texts /\ Len(z) = Len(s) + Len(c) /\ i \in 1..(Len(z) + 1)
        /\ From(z, i) = From(s, i) \o c /\ Before(z, i) = Before(s, i)
    BY <1>1, <1>2, FromConcat
  <2>3. Len(z) \in Nat /\ Len(s) <= Len(z)
    BY <1>2, <2>1, <2>2
  <2> QED
    BY <2>2, <2>3
<1>4. k \in 0..Len(z) /\ k + 1 = i /\ \A j \in 1..k : ~TagFirst(From(z, j), b)
  BY <1>1, <1>2, <1>3
<1>5. Separated(z, b) = OfKind(Mode(b), Before(z, i)) \o Separated(From(z, i), b)
  BY <1>2, <1>3, <1>4, Skip
<1>6. PICK x, y, w : /\ x = Chunks(p.yielded) /\ y = OfKind(Mode(b), Before(s, i))
                     /\ w = Separated(From(s, i) \o c, b)
  OBVIOUS
<1>7. x \in Marked /\ y \in Marked /\ w \in Marked
  <2>1. Before(s, i) \in Texts /\ From(z, i) \in Texts /\ Mode(b) \in Kinds
    BY <1>2, <1>3, BeforeIs, FromIs, ModeIs
  <2> QED
    BY <1>2, <1>3, <1>6, <2>1, ChunksMarked, OfKindIs, SeparatedIs
<1>8. x \o (y \o w) = (x \o y) \o w
  BY <1>7, MarkedConcat, Zenon
<1>9. Whole(p, c) = x \o (y \o w)
  BY <1>1, <1>3, <1>5, <1>6 DEF Whole
<1> QED
  BY <1>1, <1>6, <1>8, <1>9

\* What follows a tag.
LEMMA AfterTag ==
    ASSUME NEW s \in Texts, NEW c \in Texts, NEW b \in BOOLEAN, NEW i \in 1..Len(s)
    PROVE  /\ IsPrefix(CLOSE_TAG, From(s, i)) =>
                i + 4 \in 1..(Len(s) + 1)
                /\ Separated(From(s, i) \o c, b) = Separated(From(s, i + 4) \o c, FALSE)
           /\ ~b /\ IsPrefix(OPEN_TAG, From(s, i)) =>
                i + 3 \in 1..(Len(s) + 1)
                /\ Separated(From(s, i) \o c, b) = Separated(From(s, i + 3) \o c, TRUE)
<1>1. Len(s) \in Nat /\ i \in 1..(Len(s) + 1) /\ Len(c) \in Nat
  BY DEF Texts
<1>2. PICK z : z = s \o c
  OBVIOUS
<1>3. /\ z \in Texts /\ Len(z) = Len(s) + Len(c) /\ i \in 1..(Len(z) + 1)
      /\ \A j \in 1..Len(s) : z[j] = s[j]
      /\ \A j \in 1..(Len(s) + 1) : From(z, j) = From(s, j) \o c
  BY <1>1, <1>2, FromConcat
<1>4. From(z, i) \in Texts
  BY <1>3, FromIs
<1>5. ASSUME IsPrefix(CLOSE_TAG, From(s, i))
      PROVE  i + 4 \in 1..(Len(s) + 1)
             /\ Separated(From(s, i) \o c, b) = Separated(From(s, i + 4) \o c, FALSE)
  <2>1. /\ i + 3 <= Len(s)
        /\ s[i] = "<" /\ s[i + 1] = "/" /\ s[i + 2] = "t" /\ s[i + 3] = ">"
    BY <1>1, <1>5, CloseAt
  <2>2. i + 1 \in 1..Len(s) /\ i + 2 \in 1..Len(s) /\ i + 3 \in 1..Len(s) /\ i + 3 <= Len(z)
        /\ i + 4 \in 1..(Len(s) + 1) /\ 5 \in 1..(Len(z) - i + 2) /\ i + 5 - 1 = i + 4
    BY <1>1, <1>3, <2>1
  <2>3. IsPrefix(CLOSE_TAG, From(z, i))
    <3>1. z[i] = "<" /\ z[i + 1] = "/" /\ z[i + 2] = "t" /\ z[i + 3] = ">"
      BY <1>3, <2>1, <2>2
    <3> QED
      BY <1>3, <2>2, <3>1, CloseAt
  <2>4. Separated(From(z, i), b) = Separated(From(From(z, i), 5), FALSE)
    BY <1>4, <2>3, SeparatedIs
  <2>5. From(From(z, i), 5) = From(z, i + 4)
    BY <1>3, <2>2, FromFrom
  <2>6. From(z, i + 4) = From(s, i + 4) \o c /\ From(z, i) = From(s, i) \o c
    BY <1>1, <1>3, <2>2
  <2> QED
    BY <2>2, <2>4, <2>5, <2>6
<1>6. ASSUME ~b, IsPrefix(OPEN_TAG, From(s, i))
      PROVE  i + 3 \in 1..(Len(s) + 1)
             /\ Separated(From(s, i) \o c, b) = Separated(From(s, i + 3) \o c, TRUE)
  <2>1. i + 2 <= Len(s) /\ s[i] = "<" /\ s[i + 1] = "t" /\ s[i + 2] = ">"
    BY <1>1, <1>6, OpenAt
  <2>2. i + 1 \in 1..Len(s) /\ i + 2 \in 1..Len(s) /\ i + 2 <= Len(z)
        /\ i + 3 \in 1..(Len(s) + 1) /\ 4 \in 1..(Len(z) - i + 2) /\ i + 4 - 1 = i + 3
    BY <1>1, <1>3, <2>1
  <2>3. IsPrefix(OPEN_TAG, From(z, i))
    <3>1. z[i] = "<" /\ z[i + 1] = "t" /\ z[i + 2] = ">"
      BY <1>3, <2>1, <2>2
    <3> QED
      BY <1>3, <2>2, <3>1, OpenAt
  <2>4. Separated(From(z, i), b) = Separated(From(From(z, i), 4), TRUE)
    BY <1>4, <1>6, <2>3, SeparatedIs
  <2>5. From(From(z, i), 4) = From(z, i + 3)
    BY <1>3, <2>2, FromFrom
  <2>6. From(z, i + 3) = From(s, i + 3) \o c /\ From(z, i) = From(s, i) \o c
    BY <1>1, <1>3, <2>2
  <2> QED
    BY <2>2, <2>4, <2>5, <2>6
<1> QED
  BY <1>5, <1>6

\* What a turn of the parser makes of its buffer.
TurnOK(p, q) ==
    /\ q \in ThinkTagParsers
    /\ Len(q.buffer) < Len(p.buffer) \/ (q.buffer = p.buffer /\ BeginsTag(q.buffer))
    /\ \A c \in Texts : Whole(p, c) = Whole(q, c)

\* Turns that find no tag, in each mode, and all turns.
LEMMA HoldOK ==
    ASSUME NEW p \in ThinkTagParsers,
           \A j \in 1..Len(p.buffer) : ~TagFirst(From(p.buffer, j), p.inside)
    PROVE  TurnOK(p, Hold(p))
<1>1. p.buffer \in Texts /\ Len(p.buffer) \in Nat
  BY ParsersAre DEF Texts
<1>2. PICK i, q : i = HeldFrom(p) /\ q = Consume(p, i, <<>>)
  OBVIOUS
<1>3. /\ i \in 1..(Len(p.buffer) + 1) /\ BeginsTag(From(p.buffer, i))
      /\ \A c \in Texts : \A j \in 1..(i - 1) : ~TagFirst(From(p.buffer \o c, j), p.inside)
  BY <1>2, HeldIs
<1>4. /\ q \in ThinkTagParsers /\ q.buffer = From(p.buffer, i) /\ q.inside = p.inside
      /\ Chunks(q.yielded) = Chunks(p.yielded) \o OfKind(Mode(p.inside), Before(p.buffer, i))
  <2>1. i + Len(<<>>) = i
    BY <1>3
  <2> QED
    BY <1>2, <1>3, <2>1, ConsumeIs
<1>5. Len(q.buffer) < Len(p.buffer) \/ (q.buffer = p.buffer /\ BeginsTag(q.buffer))
  <2>1. CASE i = 1
    BY <1>1, <1>3, <1>4, <2>1, FromFirst
  <2>2. CASE i # 1
    <3>1. Len(q.buffer) = Len(p.buffer) - i + 1
      BY <1>1, <1>3, <1>4, FromIs
    <3> QED
      BY <1>1, <1>3, <2>2, <3>1
  <2> QED
    BY <2>1, <2>2
<1>6. \A c \in Texts : Whole(p, c) = Whole(q, c)
  BY <1>3, <1>4, ConsumeReads DEF Whole
<1> QED
  BY <1>2, <1>4, <1>5, <1>6 DEF TurnOK, Hold

\* A turn that finds a tag at place i.
LEMMA TagTurnOK ==
    ASSUME NEW p \in ThinkTagParsers, NEW i \in 1..Len(p.buffer),
           \A j \in 1..(i - 1) : ~TagFirst(From(p.buffer, j), p.inside)
    PROVE  /\ IsPrefix(CLOSE_TAG, From(p.buffer, i)) =>
                TurnOK(p, [Consume(p, i, CLOSE_TAG) EXCEPT !.inside = FALSE])
           /\ ~p.inside /\ IsPrefix(OPEN_TAG, From(p.buffer, i)) =>
                TurnOK(p, [Consume(p, i, OPEN_TAG) EXCEPT !.inside = TRUE])
<1>1. PICK s, b : s = p.buffer /\ b = p.inside
  OBVIOUS
<1>2. s \in Texts /\ b \in BOOLEAN /\ Len(s) \in Nat /\ i \in 1..(Len(s) + 1) /\ i \in 1..Len(s)
  BY <1>1, ParsersAre DEF Texts
<1>3. ASSUME i + 2 <= Len(s), NEW c \in Texts
      PROVE  Whole(p, c) = (Chunks(p.yielded) \o OfKind(Mode(b), Before(s, i)))
                             \o Separated(From(s, i) \o c, b)
  <2>1. \A j \in 1..(i - 1) : ~TagFirst(From(s \o c, j), b)
    BY <1>1, <1>2, <1>3, BeforeTag
  <2> QED
    BY <1>1, <1>2, <2>1, ConsumeReads
\* With a tag of n characters, after which the mode is m.
<1>4. ASSUME NEW tag, NEW n \in {3, 4}, Len(tag) = n, NEW m \in BOOLEAN, i + 2 <= Len(s),
             i + n \in 1..(Len(s) + 1),
             \A c \in Texts : Separated(From(s, i) \o c, b) = Separated(From(s, i + n) \o c, m)
      PROVE  TurnOK(p, [Consume(p, i, tag) EXCEPT !.inside = m])
  <2>1. PICK r, q : r = Consume(p, i, tag) /\ q = [r EXCEPT !.inside = m]
    OBVIOUS
  <2>2. /\ r \in ThinkTagParsers /\ r.buffer = From(s, i + n)
        /\ Chunks(r.yielded) = Chunks(p.yielded) \o OfKind(Mode(b), Before(s, i))
    BY <1>1, <1>2, <1>4, <2>1, ConsumeIs
  <2>3. q \in ThinkTagParsers /\ q.buffer = r.buffer /\ q.yielded = r.yielded /\ q.inside = m
    BY <1>4, <2>1, <2>2, ParsersAre
  <2>4. Len(q.buffer) < Len(s)
    <3>1. Len(From(s, i + n)) = Len(s) - (i + n) + 1
      BY <1>2, <1>4, FromIs
    <3> QED
      BY <1>2, <1>4, <2>2, <2>3, <3>1
  <2>5. ASSUME NEW c \in Texts PROVE Whole(p, c) = Whole(q, c)
    <3>1. Whole(q, c) = Chunks(r.yielded) \o Separated(From(s, i + n) \o c, m)
      BY <2>2, <2>3 DEF Whole
    <3>2. Separated(From(s, i) \o c, b) = Separated(From(s, i + n) \o c, m)
      BY <1>4
    <3> QED
      BY <1>3, <1>4, <2>2, <3>1, <3>2
  <2> QED
    BY <1>1, <2>1, <2>3, <2>4, <2>5 DEF TurnOK
<1>5. ASSUME IsPrefix(CLOSE_TAG, From(s, i))
      PROVE  TurnOK(p, [Consume(p, i, CLOSE_TAG) EXCEPT !.inside = FALSE])
  <2>1. i + 3 <= Len(s)
    BY <1>2, <1>5, CloseAt
  <2>2. i + 2 <= Len(s) /\ i + 4 \in 1..(Len(s) + 1)
    BY <1>2, <2>1
  <2>3. \A c \in Texts : Separated(From(s, i) \o c, b) = Separated(From(s, i + 4) \o c, FALSE)
    BY <1>2, <1>5, AfterTag
  <2> QED
    BY <1>4, <2>2, <2>3, TagsAre
<1>6. ASSUME ~b, IsPrefix(OPEN_TAG, From(s, i))
      PROVE  TurnOK(p, [Consume(p, i, OPEN_TAG) EXCEPT !.inside = TRUE])
  <2>1. i + 2 <= Len(s) /\ i + 3 \in 1..(Len(s) + 1)
    BY <1>2, <1>6, OpenAt
  <2>3. \A c \in Texts : Separated(From(s, i) \o c, b) = Separated(From(s, i + 3) \o c, TRUE)
    BY <1>2, <1>6, AfterTag
  <2> QED
    BY <1>4, <2>1, <2>3, TagsAre
<1> QED
  BY <1>1, <1>5, <1>6

LEMMA InsideOK ==
    ASSUME NEW p \in ThinkTagParsers, p.inside PROVE TurnOK(p, _parse_inside_think(p))
<1>1. p.buffer \in Texts /\ p.inside = TRUE
  BY ParsersAre
<1>2. PICK e : e = Find(p.buffer, CLOSE_TAG)
  OBVIOUS
<1>3. \A j \in 1..Len(p.buffer) :
         TagFirst(From(p.buffer, j), p.inside) <=> IsPrefix(CLOSE_TAG, From(p.buffer, j))
  BY <1>1 DEF TagFirst
<1>3a. \/ e = 0 /\ \A j \in 1..Len(p.buffer) : ~IsPrefix(CLOSE_TAG, From(p.buffer, j))
       \/ /\ e \in 1..Len(p.buffer) /\ IsPrefix(CLOSE_TAG, From(p.buffer, e))
          /\ \A j \in 1..(e - 1) : ~IsPrefix(CLOSE_TAG, From(p.buffer, j))
  BY <1>1, <1>2, FindIs
<1>4. CASE e = 0
  <2>1. \A j \in 1..Len(p.buffer) : ~IsPrefix(CLOSE_TAG, From(p.buffer, j))
    BY <1>3a, <1>4
  <2>2. \A j \in 1..Len(p.buffer) : ~TagFirst(From(p.buffer, j), p.inside)
    BY <1>3, <2>1
  <2> QED
    BY <1>2, <1>4, <2>2, HoldOK DEF _parse_inside_think
<1>5. CASE e # 0
  <2>1. /\ e \in 1..Len(p.buffer) /\ IsPrefix(CLOSE_TAG, From(p.buffer, e))
        /\ \A j \in 1..(e - 1) : ~IsPrefix(CLOSE_TAG, From(p.buffer, j))
    BY <1>3a, <1>5
  <2>2. \A j \in 1..(e - 1) : j \in 1..Len(p.buffer)
    BY <1>1, <2>1 DEF Texts
  <2>3. \A j \in 1..(e - 1) : ~TagFirst(From(p.buffer, j), p.inside)
    BY <1>3, <2>1, <2>2
  <2> QED
    BY <1>2, <1>5, <2>1, <2>3, TagTurnOK DEF _parse_inside_think
<1> QED
  BY <1>4, <1>5

LEMMA OutsideOK ==
    ASSUME NEW p \in ThinkTagParsers, ~p.inside PROVE TurnOK(p, _parse_outside_think(p))
<1>1. p.buffer \in Texts /\ p.inside = FALSE /\ Len(p.buffer) \in Nat
  BY ParsersAre DEF Texts
<1>2. PICK o, e : o = Find(p.buffer, OPEN_TAG) /\ e = Find(p.buffer, CLOSE_TAG)
  OBVIOUS
<1>3. \A j \in 1..Len(p.buffer) : TagFirst(From(p.buffer, j), p.inside) <=>
         IsPrefix(CLOSE_TAG, From(p.buffer, j)) \/ IsPrefix(OPEN_TAG, From(p.buffer, j))
  BY <1>1 DEF TagFirst
<1>4. \/ e = 0 /\ \A j \in 1..Len(p.buffer) : ~IsPrefix(CLOSE_TAG, From(p.buffer, j))
      \/ /\ e \in 1..Len(p.buffer) /\ IsPrefix(CLOSE_TAG, From(p.buffer, e))
         /\ \A j \in 1..(e - 1) : ~IsPrefix(CLOSE_TAG, From(p.buffer, j))
  BY <1>1, <1>2, FindIs
<1>5. \/ o = 0 /\ \A j \in 1..Len(p.buffer) : ~IsPrefix(OPEN_TAG, From(p.buffer, j))
      \/ /\ o \in 1..Len(p.buffer) /\ IsPrefix(OPEN_TAG, From(p.buffer, o))
         /\ \A j \in 1..(o - 1) : ~IsPrefix(OPEN_TAG, From(p.buffer, j))
  BY <1>1, <1>2, FindIs
<1>6. CASE e # 0 /\ (o = 0 \/ e < o)
  <2>1. \A j \in 1..(e - 1) : j \in 1..Len(p.buffer) /\ (o = 0 \/ j \in 1..(o - 1))
    BY <1>1, <1>4, <1>5, <1>6
  <2>2. \A j \in 1..(e - 1) : ~TagFirst(From(p.buffer, j), p.inside)
    BY <1>3, <1>4, <1>5, <1>6, <2>1
  <2>3. TurnOK(p, [Consume(p, e, CLOSE_TAG) EXCEPT !.inside = FALSE])
    BY <1>4, <1>6, <2>2, TagTurnOK
  <2>4. [Consume(p, e, CLOSE_TAG) EXCEPT !.inside = FALSE] = Consume(p, e, CLOSE_TAG)
    <3>1. PICK q : q = Consume(p, e, CLOSE_TAG)
      OBVIOUS
    <3>2. e + 3 <= Len(p.buffer)
      BY <1>1, <1>4, <1>6, CloseAt
    <3>3. q \in ThinkTagParsers /\ q.inside = FALSE
      <4>1. e \in 1..(Len(p.buffer) + 1) /\ e + Len(CLOSE_TAG) \in 1..(Len(p.buffer) + 1)
        BY <1>1, <1>4, <1>6, <3>2, TagsAre
      <4> QED
        BY <1>1, <3>1, <4>1, ConsumeIs
    <3> QED
      BY <3>1, <3>3, ParsersAre
  <2> QED
    BY <1>2, <1>6, <2>3, <2>4 DEF _parse_outside_think
<1>7. CASE ~(e # 0 /\ (o = 0 \/ e < o)) /\ o # 0
  <2>1. \A j \in 1..(o - 1) : j \in 1..Len(p.buffer) /\ (e = 0 \/ j \in 1..(e - 1))
    BY <1>1, <1>4, <1>5, <1>7
  <2>2. \A j \in 1..(o - 1) : ~TagFirst(From(p.buffer, j), p.inside)
    BY <1>3, <1>4, <1>5, <1>7, <2>1
  <2>3. TurnOK(p, [Consume(p, o, OPEN_TAG) EXCEPT !.inside = TRUE])
    BY <1>1, <1>5, <1>7, <2>2, TagTurnOK
  <2> QED
    BY <1>2, <1>7, <2>3 DEF _parse_outside_think
<1>8. CASE ~(e # 0 /\ (o = 0 \/ e < o)) /\ o = 0
  <2>1. \A j \in 1..Len(p.buffer) : ~TagFirst(From(p.buffer, j), p.inside)
    BY <1>3, <1>4, <1>5, <1>8
  <2> QED
    BY <1>2, <1>8, <2>1, HoldOK DEF _parse_outside_think
<1> QED
  BY <1>6, <1>7, <1>8

LEMMA ParseOnceOK == ASSUME NEW p \in ThinkTagParsers PROVE TurnOK(p, ParseOnce(p))
BY InsideOK, OutsideOK, ParsersAre DEF ParseOnce

-----------------------------------------------------------------------------
(* The loop of the parser.                                                 *)

\* A loop that goes on with something smaller until it stops.
Loops(f, D, stop, base, next) ==
    f = [x \in D |-> IF x \in stop THEN base[x] ELSE f[next[x]]]

\* There is one.
LEMMA Loop ==
    ASSUME NEW D, NEW T, NEW size \in [D -> Nat], NEW stop \in SUBSET D,
           NEW base \in [D -> T], NEW next \in [D -> D],
           \A x \in D : x \notin stop => size[next[x]] < size[x]
    PROVE  \E f : Loops(f, D, stop, base, next)
<1> DEFINE step == [z \in D \X T |-> z[2]]
<1>1. step \in [D \X T -> T]
  OBVIOUS
<1>2. PICK f : Recurs(f, D, T, stop, base, next, step)
  <2> HIDE DEF step
  <2> QED
    BY <1>1, Recursion
<1>3. f \in [D -> T]
  BY <1>2 DEF Recurs
<1>4. ASSUME NEW x \in D PROVE f[x] = IF x \in stop THEN base[x] ELSE f[next[x]]
  <2>1. f[x] = IF x \in stop THEN base[x] ELSE step[<<x, f[next[x]]>>]
    BY <1>2 DEF Recurs
  <2>2. <<x, f[next[x]]>> \in D \X T
    BY <1>3
  <2> QED
    BY <2>1, <2>2
<1> QED
  BY <1>3, <1>4 DEF Loops

\* The loop of ThinkTagParser.feed.
LEMMA ParseStep ==
    ASSUME NEW p \in ThinkTagParsers
    PROVE  Parse[p] = IF ParseOnce(p).buffer = p.buffer THEN ParseOnce(p) ELSE Parse[ParseOnce(p)]
<1> DEFINE D == ThinkTagParsers
           size == [q \in D |-> Len(q.buffer)]
           stop == {q \in D : ParseOnce(q).buffer = q.buffer}
           next == [q \in D |-> ParseOnce(q)]
<1>1. size \in [D -> Nat] /\ stop \in SUBSET D
  BY ParsersAre DEF Texts
<1>2. next \in [D -> D] /\ \A q \in D : q \notin stop => size[next[q]] < size[q]
  BY ParseOnceOK DEF TurnOK
<1>3. PICK f : Loops(f, D, stop, next, next)
  <2> HIDE DEF D, size, stop, next
  <2> QED
    BY <1>1, <1>2, Loop
<1> DEFINE Eq(g) == g = [q \in D |-> IF ParseOnce(q).buffer = q.buffer THEN ParseOnce(q)
                                     ELSE g[ParseOnce(q)]]
<1>4. Eq(f)
  <2>1. f = [q \in D |-> IF q \in stop THEN next[q] ELSE f[next[q]]]
    BY <1>3 DEF Loops
  <2>2. \A q \in D : f[q] = IF q \in stop THEN next[q] ELSE f[next[q]]
    BY <2>1
  <2>3. f = [q \in D |-> f[q]]
    BY <2>1
  <2> QED
    BY <2>2, <2>3
<1>5. Eq(Parse)
  <2> HIDE DEF Eq
  <2>1. Parse = CHOOSE g : Eq(g)
    BY DEF Parse, Eq
  <2> QED
    BY <1>4, <2>1
<1> QED
  BY <1>5

\* The loop of feed loses no character and holds nothing but what may be a tag.
LEMMA ParseIs ==
    ASSUME NEW p \in ThinkTagParsers
    PROVE  /\ Parse[p] \in ThinkTagParsers /\ BeginsTag(Parse[p].buffer)
           /\ \A c \in Texts : Whole(p, c) = Whole(Parse[p], c)
<1> DEFINE D == ThinkTagParsers
           size == [q \in D |-> Len(q.buffer)]
           Ok(q) == /\ Parse[q] \in ThinkTagParsers /\ BeginsTag(Parse[q].buffer)
                    /\ \A c \in Texts : Whole(q, c) = Whole(Parse[q], c)
           Good == {q \in D : Ok(q)}
<1>1. size \in [D -> Nat]
  BY ParsersAre DEF Texts
<1>2. ASSUME NEW q \in D, \A r \in D : size[r] < size[q] => r \in Good PROVE q \in Good
  <2>1. PICK r : r = ParseOnce(q)
    OBVIOUS
  <2>2. TurnOK(q, r) /\ Parse[q] = IF r.buffer = q.buffer THEN r ELSE Parse[r]
    BY <2>1, ParseOnceOK, ParseStep
  <2>3. CASE r.buffer = q.buffer
    <3>1. BeginsTag(r.buffer)
      <4>1. Len(q.buffer) \in Nat
        BY <1>1
      <4> QED
        BY <2>2, <2>3, <4>1 DEF TurnOK
    <3> QED
      BY <2>2, <2>3, <3>1 DEF TurnOK
  <2>4. CASE r.buffer # q.buffer
    <3>1. r \in D /\ size[r] < size[q]
      BY <2>2, <2>4 DEF TurnOK
    <3>2. Ok(r)
      BY <1>2, <3>1
    <3> QED
      BY <2>2, <2>4, <3>2 DEF TurnOK
  <2> QED
    BY <2>3, <2>4
<1>3. \A q \in D : q \in Good
  <2> HIDE DEF D, Good, size
  <2> QED
    BY <1>1, <1>2, MeasureInduction
<1> QED
  BY <1>3

\* feed: what the text is read as is what is yielded and what will be.
LEMMA FeedIs ==
    ASSUME NEW p \in ThinkTagParsers, NEW content \in Texts
    PROVE  /\ feed(p, content) \in ThinkTagParsers /\ BeginsTag(feed(p, content).buffer)
           /\ \A c \in Texts : Separated(p.buffer \o (content \o c), p.inside)
                                 = Whole(feed(p, content), c)
<1>1. PICK q : q = [p EXCEPT !.buffer = @ \o content, !.yielded = <<>>]
  OBVIOUS
<1>2. p.buffer \in Texts /\ p.inside \in BOOLEAN /\ p.buffer \o content \in Texts
  BY ParsersAre, ConcatProperties DEF Texts
<1>3. q \in ThinkTagParsers /\ q.buffer = p.buffer \o content /\ q.inside = p.inside
      /\ q.yielded = <<>>
  BY <1>1, <1>2, ParsersAre, EmptySeq
<1>4. feed(p, content) = Parse[q]
  BY <1>1 DEF feed
<1>5. ASSUME NEW c \in Texts PROVE Separated(p.buffer \o (content \o c), p.inside) = Whole(q, c)
  <2>1. p.buffer \o (content \o c) = (p.buffer \o content) \o c
    <3>1. PICK x : x = p.buffer
      OBVIOUS
    <3>2. x \in Seq(STRING) /\ content \in Seq(STRING) /\ c \in Seq(STRING)
      BY <1>2, <3>1 DEF Texts
    <3>3. x \o (content \o c) = (x \o content) \o c
      BY <3>2, ConcatAssociative
    <3> QED
      BY <3>1, <3>3
  <2>2. (p.buffer \o content) \o c \in Texts
    BY <1>2, ConcatProperties DEF Texts
  <2>3. Separated((p.buffer \o content) \o c, p.inside) \in Marked
    BY <1>2, <2>2, SeparatedIs
  <2>4. Chunks(<<>>) = <<>>
    <3>1. /\ [type |-> "text", content |-> <<>>] \in ContentChunks
          /\ q.yielded \in Seq(ContentChunks)
      BY <1>3, ParsersAre, EmptySeq DEF ContentChunks, Kinds, Texts
    <3> QED
      BY <3>1, ChunksIs
  <2>5. Whole(q, c) = <<>> \o Separated((p.buffer \o content) \o c, p.inside)
    BY <1>3, <2>4 DEF Whole
  <2> QED
    BY <2>1, <2>3, <2>5, ConcatEmptySeq DEF Marked
<1> QED
  BY <1>3, <1>4, <1>5, ParseIs

-----------------------------------------------------------------------------
(* The stream of text: thinking is separated.                              *)

\* In what may be a tag there is no tag yet.
LEMMA NoTagInside ==
    ASSUME NEW s \in Texts, BeginsTag(s), NEW j \in 1..Len(s), NEW b \in BOOLEAN
    PROVE  ~TagFirst(From(s, j), b)
<1>1. Len(s) \in Nat /\ j \in 1..(Len(s) + 1)
  BY DEF Texts
<1>2. \/ Len(s) <= 3 /\ (2 <= Len(s) => s[2] = "/")
      \/ Len(s) <= 2
  BY StrictClose, StrictOpen DEF BeginsTag
<1> SUFFICES ASSUME TagFirst(From(s, j), b) PROVE FALSE
  OBVIOUS
<1>3. \/ j + 3 <= Len(s)
      \/ j + 2 <= Len(s) /\ s[j + 1] = "t"
  BY <1>1, TagAt
<1>4. Len(s) = 3 /\ j = 1 /\ s[j + 1] = "t" /\ s[2] = "/"
  BY <1>1, <1>2, <1>3
<1> QED
  BY <1>4

\* flush: what was held is text, as it was read.
LEMMA FlushIs ==
    ASSUME NEW p \in ThinkTagParsers, BeginsTag(p.buffer)
    PROVE  /\ flush(p) \in ThinkTagParsers
           /\ Separated(p.buffer, p.inside) =
                Chunks(flush(p).yielded) \o Separated(flush(p).buffer, flush(p).inside)
<1>1. PICK q, k : q = [p EXCEPT !.yielded = <<>>] /\ k = Len(p.buffer) + 1
  OBVIOUS
<1>2. p.buffer \in Texts /\ p.inside \in BOOLEAN /\ Len(p.buffer) \in Nat
  BY ParsersAre DEF Texts
<1>3. q \in ThinkTagParsers /\ q.buffer = p.buffer /\ q.inside = p.inside /\ q.yielded = <<>>
  BY <1>1, ParsersAre, EmptySeq
<1>4. PICK r : r = Consume(q, k, <<>>)
  OBVIOUS
<1>5. flush(p) = r
  BY <1>1, <1>4 DEF flush
<1>6. /\ r \in ThinkTagParsers /\ r.buffer = From(q.buffer, k) /\ r.inside = q.inside
      /\ Chunks(r.yielded) = Chunks(q.yielded) \o OfKind(Mode(q.inside), Before(q.buffer, k))
  <2>1. k \in 1..(Len(q.buffer) + 1) /\ k + Len(<<>>) = k
    BY <1>1, <1>2, <1>3
  <2> QED
    BY <1>3, <1>4, <2>1, ConsumeIs
<1>7. Separated(p.buffer, p.inside) =
        OfKind(Mode(p.inside), Before(p.buffer, k)) \o Separated(From(p.buffer, k), p.inside)
  <2>1. PICK n : n = Len(p.buffer)
    OBVIOUS
  <2>2. /\ n \in 0..Len(p.buffer) /\ n + 1 = k
        /\ \A j \in 1..n : ~TagFirst(From(p.buffer, j), p.inside)
    BY <1>1, <1>2, <2>1, NoTagInside
  <2> QED
    BY <1>2, <2>2, Skip
<1>8. Chunks(r.yielded) = OfKind(Mode(p.inside), Before(p.buffer, k))
  <2>1. Chunks(q.yielded) = <<>>
    <3>1. /\ [type |-> "text", content |-> <<>>] \in ContentChunks
          /\ q.yielded \in Seq(ContentChunks)
      BY <1>3, ParsersAre, EmptySeq DEF ContentChunks, Kinds, Texts
    <3> QED
      BY <1>3, <3>1, ChunksIs
  <2>2. OfKind(Mode(p.inside), Before(p.buffer, k)) \in Marked
    <3>1. k \in 1..(Len(p.buffer) + 1)
      BY <1>1, <1>2
    <3> QED
      BY <1>2, <3>1, BeforeIs, ModeIs, OfKindIs
  <2> QED
    BY <1>3, <1>6, <2>1, <2>2, ConcatEmptySeq DEF Marked
<1> QED
  BY <1>3, <1>5, <1>6, <1>7, <1>8

\* The types of what the proofs are about.
TextTypes ==
    /\ rest \in Texts /\ fed \in Texts /\ parsed \in Marked /\ ended \in BOOLEAN
    /\ think_parser \in ThinkTagParsers

\* However the text goes on, what has been yielded and what is still held are what a reader
\* of all of it makes of it; and all that is held may be a tag.
ReadSoFar ==
    /\ ~ended => /\ BeginsTag(think_parser.buffer)
                 /\ \A c \in Texts :
                      parsed \o Separated(think_parser.buffer \o c, think_parser.inside)
                        = Separated(fed \o c, FALSE)
    /\ ThinkingSeparated

\* The invariant holds when a stream begins, through every chunk, and through its end.
LEMMA InitRead == TextInit => TextTypes /\ ReadSoFar
<1> SUFFICES ASSUME TextInit PROVE TextTypes /\ ReadSoFar
  OBVIOUS
<1>1. rest \in Texts
  <2>1. PICK a : a = [i \in DOMAIN answer |-> answer[i].written]
    OBVIOUS
  <2>2. Len(answer) \in Nat /\ DOMAIN answer = 1..Len(answer)
        /\ \A i \in DOMAIN answer : answer[i].written \in Texts
    BY AnswersAssumption DEF TextInit
  <2>3. a \in Seq(Texts)
    BY <2>1, <2>2
  <2>4. FlattenSeq(a) \in Texts
    BY <2>3, FlattenAppend, EmptySeq DEF Texts
  <2> QED
    BY <2>1, <2>4 DEF TextInit
<1>2. /\ think_parser.buffer = <<>> /\ think_parser.inside = FALSE
      /\ think_parser \in ThinkTagParsers /\ fed = <<>> /\ parsed = <<>> /\ ended = FALSE
      /\ <<>> \in Texts
  BY EmptySeq DEF TextInit, NewThinkTagParser, ThinkTagParsers, Texts
<1>3. BeginsTag(<<>>)
  BY <1>2, StrictOpen, EmptySeq DEF BeginsTag
<1>4. \A c \in Texts : <<>> \o Separated(<<>> \o c, FALSE) = Separated(<<>> \o c, FALSE)
  <2> TAKE c \in Texts
  <2>1. <<>> \o c \in Texts
    BY ConcatEmptySeq DEF Texts
  <2> QED
    BY <2>1, SeparatedIs, ConcatEmptySeq DEF Marked
<1>5. <<>> \o Separated(<<>>, FALSE) = Separated(<<>>, FALSE)
  BY <1>2, SeparatedIs, ConcatEmptySeq DEF Marked
<1> QED
  BY <1>1, <1>2, <1>3, <1>4, <1>5, EmptySeq DEF TextTypes, ReadSoFar, ThinkingSeparated, Marked

LEMMA ReceiveReads == TextTypes /\ ReadSoFar /\ Receive => TextTypes' /\ ReadSoFar'
<1> SUFFICES ASSUME TextTypes, ReadSoFar, Receive PROVE TextTypes' /\ ReadSoFar'
  OBVIOUS
<1>1. PICK n \in 1..Len(rest) :
        /\ fed' = fed \o SubSeq(rest, 1, n) /\ rest' = From(rest, n + 1)
        /\ think_parser' = feed(think_parser, SubSeq(rest, 1, n))
        /\ parsed' = parsed \o Chunks(feed(think_parser, SubSeq(rest, 1, n)).yielded)
  BY DEF Receive
<1>2. PICK content, p : content = SubSeq(rest, 1, n) /\ p = feed(think_parser, content)
  OBVIOUS
<1>3. ~ended /\ ended' = ended
  BY DEF Receive
<1>4. rest \in Texts /\ fed \in Texts /\ parsed \in Marked /\ think_parser \in ThinkTagParsers
  BY DEF TextTypes
<1>5. content \in Texts /\ rest' \in Texts
  <2>1. n + 1 \in 1..(Len(rest) + 1) /\ n + 1 - 1 = n
    BY <1>4 DEF Texts
  <2> QED
    <3>1. PICK k : k = n + 1
      OBVIOUS
    <3>2. k \in 1..(Len(rest) + 1) /\ k - 1 = n
      BY <2>1, <3>1
    <3>3. Before(rest, k) \in Texts /\ From(rest, k) \in Texts
      BY <1>4, <3>2, BeforeIs, FromIs
    <3> QED
      BY <1>1, <1>2, <3>1, <3>2, <3>3 DEF Before
<1>6. /\ p \in ThinkTagParsers /\ BeginsTag(p.buffer)
      /\ \A c \in Texts : Separated(think_parser.buffer \o (content \o c), think_parser.inside)
                            = Whole(p, c)
  BY <1>2, <1>4, <1>5, FeedIs
<1>7. PICK x : x = Chunks(p.yielded)
  OBVIOUS
<1>8. x \in Marked /\ parsed' = parsed \o x /\ parsed' \in Marked /\ think_parser' = p
      /\ fed' = fed \o content /\ fed' \in Texts
  BY <1>1, <1>2, <1>4, <1>5, <1>6, <1>7, ChunksMarked, ConcatProperties DEF Marked, Texts
<1>9. ASSUME NEW c \in Texts
      PROVE  parsed' \o Separated(p.buffer \o c, p.inside) = Separated(fed' \o c, FALSE)
  <2>1. PICK y : y = Separated(p.buffer \o c, p.inside)
    OBVIOUS
  <2>2. y \in Marked
    <3>1. p.buffer \o c \in Texts /\ p.inside \in BOOLEAN
      BY <1>6, ParsersAre, ConcatProperties DEF Texts
    <3> QED
      BY <2>1, <3>1, SeparatedIs
  <2>3. (parsed \o x) \o y = parsed \o (x \o y)
    BY <1>4, <1>8, <2>2, MarkedConcat, Zenon
  <2>4. x \o y = Whole(p, c)
    BY <1>7, <2>1 DEF Whole
  <2>5. content \o c \in Texts /\ (fed \o content) \o c = fed \o (content \o c)
    <3>1. fed \in Seq(STRING) /\ content \in Seq(STRING) /\ c \in Seq(STRING)
      BY <1>4, <1>5 DEF Texts
    <3>2. content \o c \in Seq(STRING)
      BY <3>1, ConcatProperties
    <3>3. (fed \o content) \o c = fed \o (content \o c)
      BY <3>1, ConcatAssociative
    <3> QED
      BY <3>2, <3>3 DEF Texts
  <2>6. parsed \o Separated(think_parser.buffer \o (content \o c), think_parser.inside)
          = Separated(fed \o (content \o c), FALSE)
    BY <1>3, <2>5 DEF ReadSoFar
  <2>7. parsed \o (x \o y) = Separated(fed \o (content \o c), FALSE)
    BY <1>6, <2>4, <2>6
  <2> QED
    BY <1>8, <2>1, <2>3, <2>5, <2>7
<1>10. parsed' \o Separated(p.buffer, p.inside) = Separated(fed', FALSE)
  <2>1. <<>> \in Texts /\ p.buffer \o <<>> = p.buffer /\ fed' \o <<>> = fed'
    BY <1>6, <1>8, ParsersAre, ConcatEmptySeq, EmptySeq DEF Texts
  <2> QED
    BY <1>9, <2>1
<1> QED
  BY <1>3, <1>5, <1>6, <1>8, <1>9, <1>10 DEF TextTypes, ReadSoFar, ThinkingSeparated

LEMMA EndReads == TextTypes /\ ReadSoFar /\ EndText => TextTypes' /\ ReadSoFar'
<1> SUFFICES ASSUME TextTypes, ReadSoFar, EndText PROVE TextTypes' /\ ReadSoFar'
  OBVIOUS
<1>1. PICK p : p = flush(think_parser)
  OBVIOUS
<1>2. /\ ~ended /\ ended' = TRUE /\ think_parser' = p /\ parsed' = parsed \o Chunks(p.yielded)
      /\ rest' = rest /\ fed' = fed
  BY <1>1 DEF EndText
<1>3. /\ think_parser \in ThinkTagParsers /\ BeginsTag(think_parser.buffer)
      /\ parsed \in Marked /\ fed \in Texts /\ rest \in Texts
  BY <1>2 DEF TextTypes, ReadSoFar
<1>4. /\ p \in ThinkTagParsers
      /\ Separated(think_parser.buffer, think_parser.inside) =
           Chunks(p.yielded) \o Separated(p.buffer, p.inside)
  BY <1>1, <1>3, FlushIs
<1>5. PICK x, y : x = Chunks(p.yielded) /\ y = Separated(p.buffer, p.inside)
  OBVIOUS
<1>6. x \in Marked /\ y \in Marked
  BY <1>4, <1>5, ChunksMarked, SeparatedIs, ParsersAre
<1>7. parsed \o x \in Marked /\ (parsed \o x) \o y = parsed \o (x \o y)
  BY <1>3, <1>6, ConcatProperties, MarkedConcat DEF Marked
<1>8. parsed \o (x \o y) = Separated(fed, FALSE)
  BY <1>4, <1>5 DEF ReadSoFar, ThinkingSeparated
<1> QED
  BY <1>2, <1>3, <1>4, <1>5, <1>7, <1>8 DEF TextTypes, ReadSoFar, ThinkingSeparated

LEMMA ReadInvariance == TextSpec => [](TextTypes /\ ReadSoFar)
<1>1. TextTypes /\ ReadSoFar /\ [TextNext]_textVars => (TextTypes /\ ReadSoFar)'
  <2> SUFFICES ASSUME TextTypes, ReadSoFar, [TextNext]_textVars PROVE (TextTypes /\ ReadSoFar)'
    OBVIOUS
  <2>1. CASE Receive
    BY <2>1, ReceiveReads
  <2>2. CASE EndText
    BY <2>2, EndReads
  <2>3. CASE UNCHANGED textVars
    BY <2>3 DEF textVars, TextTypes, ReadSoFar, ThinkingSeparated
  <2> QED
    BY <2>1, <2>2, <2>3 DEF TextNext
<1> QED
  BY <1>1, InitRead, PTL DEF TextSpec

\* However the text is cut into deltas, ThinkTagParser.feed and flush yield what a reader makes
\* of the whole text: no tag is missed or shown, no character is lost, doubled or of the wrong
\* kind (core/anthropic/thinking.py).
THEOREM ThinkingSeparatedHolds == TextSpec => []ThinkingSeparated
<1>1. ReadSoFar => ThinkingSeparated
  BY DEF ReadSoFar
<1> QED
  BY <1>1, ReadInvariance, PTL

-----------------------------------------------------------------------------
(* The second parser: what its operators make of texts.                    *)

\* Parts of a text are texts.
LEMMA PartIs ==
    ASSUME NEW s \in Texts, NEW i \in Nat \ {0}, NEW j \in Int, j <= Len(s)
    PROVE  /\ SubSeq(s, i, j) \in Texts
           /\ Len(SubSeq(s, i, j)) = IF i <= j THEN j - i + 1 ELSE 0
           /\ \A k \in 1..(j - i + 1) : SubSeq(s, i, j)[k] = s[i + k - 1]
<1>1. Len(s) \in Nat /\ i \in Int /\ \A k \in 1..Len(s) : s[k] \in STRING
  BY DEF Texts
<1>2. \A k \in i..j : s[k] \in STRING
  BY <1>1
<1> QED
  BY <1>1, <1>2, SubSeqProperties DEF Texts

\* The rest of a text, and its beginning.
LEMMA RestIs ==
    ASSUME NEW s \in Texts, NEW i \in Nat \ {0}
    PROVE  From(s, i) \in Texts /\ Len(From(s, i)) <= Len(s)
           /\ (i > 1 /\ s # <<>> => Len(From(s, i)) < Len(s))
<1>1. Len(s) \in Nat /\ Len(s) \in Int /\ (s # <<>> => Len(s) > 0)
  BY EmptySeq DEF Texts
<1>2. From(s, i) \in Texts /\ Len(From(s, i)) = IF i <= Len(s) THEN Len(s) - i + 1 ELSE 0
  BY <1>1, PartIs DEF From
<1> QED
  BY <1>1, <1>2

LEMMA StartIs ==
    ASSUME NEW s \in Texts, NEW i \in 0..(Len(s) + 1) PROVE Before(s, i) \in Texts
<1>1. Len(s) \in Nat /\ i - 1 \in Int /\ i - 1 <= Len(s) /\ 1 \in Nat \ {0}
  BY DEF Texts
<1> QED
  BY <1>1, PartIs DEF Before

\* What is left of a text without white space, and names, are texts.
LEMMA TrimIs == ASSUME NEW s \in Texts PROVE Trim(s) \in Texts
<1> DEFINE Inked == {i \in DOMAIN s : s[i] # " "}
<1>1. Len(s) \in Nat /\ DOMAIN s = 1..Len(s)
  BY DEF Texts
<1>2. CASE Inked = {}
  BY <1>2, EmptySeq DEF Trim, Texts
<1>3. CASE Inked # {}
  <2>1. Inked \in SUBSET Nat /\ Inked \in SUBSET (1..Len(s))
    <3>1. \A i \in Inked : i \in 1..Len(s)
      BY <1>1, Zenon
    <3>2. \A i \in 1..Len(s) : i \in Nat
      BY <1>1
    <3> HIDE DEF Inked
    <3> QED
      BY <3>1, <3>2
  <2> HIDE DEF Inked
  <2>2. Min(Inked) \in 1..Len(s) /\ Max(Inked) \in 1..Len(s)
    BY <1>1, <1>3, <2>1, MinIs, MaxIs
  <2>3. PICK i, j : i = Min(Inked) /\ j = Max(Inked)
    OBVIOUS
  <2>4. i \in Nat \ {0} /\ j \in Int /\ j <= Len(s)
    BY <1>1, <2>2, <2>3
  <2>5. SubSeq(s, i, j) \in Texts
    BY <2>4, PartIs
  <2> QED
    BY <1>3, <2>3, <2>5 DEF Trim, Inked
<1> QED
  BY <1>2, <1>3

LEMMA NameIs ==
    ASSUME NEW s \in Texts, NEW start, Len(start) \in Nat
    PROVE  NameIn(s, start) \in Texts
<1>1. Len(s) \in Nat /\ Len(s) - 1 \in Int /\ Len(s) - 1 <= Len(s)
  BY DEF Texts
<1>2. Len(start) + 1 \in Nat \ {0}
  OBVIOUS
<1>3. SubSeq(s, Len(start) + 1, Len(s) - 1) \in Texts
  BY <1>1, <1>2, PartIs
<1> QED
  BY <1>3, TrimIs DEF NameIn

\* The first of some spans.
FirstSpan(Spans) ==
    CHOOSE x \in Spans : \A y \in Spans : x[1] < y[1] \/ (x[1] = y[1] /\ x[2] <= y[2])

\* There is one if there is any.
LEMMA FirstSpanIs ==
    ASSUME NEW Spans \in SUBSET (Nat \X Nat), Spans # {} PROVE FirstSpan(Spans) \in Spans
<1> DEFINE Begins == {x[1] : x \in Spans}
<1>1. Begins \in SUBSET Nat /\ Begins # {}
  OBVIOUS
<1>2. PICK i \in Begins : \A k \in Begins : i <= k
  <2> HIDE DEF Begins
  <2> QED
    BY <1>1, Least
<1> DEFINE Ends == {x[2] : x \in {y \in Spans : y[1] = i}}
<1>3. Ends \in SUBSET Nat /\ Ends # {}
  BY <1>2
<1>4. PICK j \in Ends : \A k \in Ends : j <= k
  <2> HIDE DEF Ends
  <2> QED
    BY <1>3, Least
<1>5. PICK x \in Spans : x[1] = i /\ x[2] = j
  BY <1>4
<1>6. ASSUME NEW y \in Spans PROVE x[1] < y[1] \/ (x[1] = y[1] /\ x[2] <= y[2])
  <2>1. x[1] <= y[1] /\ x[1] \in Nat /\ y[1] \in Nat
    BY <1>2, <1>5
  <2>2. y[1] = x[1] => x[2] <= y[2]
    BY <1>4, <1>5
  <2> QED
    BY <2>1, <2>2
<1> QED
  BY <1>6 DEF FirstSpan

\* What a search finds, if it finds something.
FoundIn(s, first, x) ==
    /\ x[1] \in 1..Len(s) /\ x[2] \in 1..Len(s) /\ x[1] < x[2] /\ s[x[1]] = first

\* A control token, a parameter's tag and a call that are found.
LEMMA TokenFound ==
    ASSUME NEW s \in Texts, Search(s, "<", IsControlToken)[1] # 0
    PROVE  FoundIn(s, "<", Search(s, "<", IsControlToken))
<1> DEFINE Places(c) == {i \in DOMAIN s : s[i] = c}
           Spans == {x \in Places("<") \X Places(">") :
                        x[1] < x[2] /\ IsControlToken(SubSeq(s, x[1], x[2]))}
<1>1. DOMAIN s = 1..Len(s) /\ Len(s) \in Nat
  BY DEF Texts
<1>2. Search(s, "<", IsControlToken) = IF Spans = {} THEN <<0, 0>> ELSE FirstSpan(Spans)
  BY DEF Search, FirstSpan
<1>3. Spans # {}
  <2>1. <<0, 0>>[1] = 0
    OBVIOUS
  <2> HIDE DEF Spans
  <2> QED
    BY <1>2, <2>1, Zenon
<1>4. Spans \in SUBSET (Nat \X Nat) /\ \A x \in Spans : FoundIn(s, "<", x)
  BY <1>1 DEF FoundIn
<1> HIDE DEF Spans
<1> QED
  BY <1>2, <1>3, <1>4, FirstSpanIs

LEMMA ParamFound ==
    ASSUME NEW s \in Texts, Search(s, "<", IsParamStart)[1] # 0
    PROVE  FoundIn(s, "<", Search(s, "<", IsParamStart))
<1> DEFINE Places(c) == {i \in DOMAIN s : s[i] = c}
           Spans == {x \in Places("<") \X Places(">") :
                        x[1] < x[2] /\ IsParamStart(SubSeq(s, x[1], x[2]))}
<1>1. DOMAIN s = 1..Len(s) /\ Len(s) \in Nat
  BY DEF Texts
<1>2. Search(s, "<", IsParamStart) = IF Spans = {} THEN <<0, 0>> ELSE FirstSpan(Spans)
  BY DEF Search, FirstSpan
<1>3. Spans # {}
  <2>1. <<0, 0>>[1] = 0
    OBVIOUS
  <2> HIDE DEF Spans
  <2> QED
    BY <1>2, <2>1, Zenon
<1>4. Spans \in SUBSET (Nat \X Nat) /\ \A x \in Spans : FoundIn(s, "<", x)
  BY <1>1 DEF FoundIn
<1> HIDE DEF Spans
<1> QED
  BY <1>2, <1>3, <1>4, FirstSpanIs

LEMMA FunctionFound ==
    ASSUME NEW s \in Texts, Search(s, BULLET, IsFuncStart)[1] # 0
    PROVE  LET x == Search(s, BULLET, IsFuncStart)
           IN  FoundIn(s, BULLET, x) /\ IsFuncStart(SubSeq(s, x[1], x[2]))
<1> DEFINE Places(c) == {i \in DOMAIN s : s[i] = c}
           Spans == {x \in Places(BULLET) \X Places(">") :
                        x[1] < x[2] /\ IsFuncStart(SubSeq(s, x[1], x[2]))}
<1>1. DOMAIN s = 1..Len(s) /\ Len(s) \in Nat
  BY DEF Texts
<1>2. Search(s, BULLET, IsFuncStart) = IF Spans = {} THEN <<0, 0>> ELSE FirstSpan(Spans)
  BY DEF Search, FirstSpan
<1>3. Spans # {}
  <2>1. <<0, 0>>[1] = 0
    OBVIOUS
  <2> HIDE DEF Spans
  <2> QED
    BY <1>2, <2>1, Zenon
<1>4. /\ Spans \in SUBSET (Nat \X Nat)
      /\ \A x \in Spans : FoundIn(s, BULLET, x) /\ IsFuncStart(SubSeq(s, x[1], x[2]))
  BY <1>1 DEF FoundIn
<1> HIDE DEF Spans
<1> QED
  BY <1>2, <1>3, <1>4, FirstSpanIs

\* A text that begins with a bullet.
Bulleted(s) == s # <<>> /\ Head(s) = BULLET

LEMMA BulletedIs ==
    ASSUME NEW s \in Texts PROVE Bulleted(s) <=> (Len(s) >= 1 /\ s[1] = BULLET)
BY EmptySeq DEF Bulleted, Texts

\* The recursion of _strip_control_tokens, which goes on behind the token, has a solution.
LEMMA StripStep ==
    /\ _strip_control_tokens \in [Texts -> Texts]
    /\ \A s \in Texts :
         LET token == Search(s, "<", IsControlToken)
         IN  _strip_control_tokens[s] =
               IF token[1] = 0 THEN s
               ELSE Before(s, token[1]) \o _strip_control_tokens[From(s, token[2] + 1)]
<1> DEFINE D == Texts
           token(s) == Search(s, "<", IsControlToken)
           size == [s \in D |-> Len(s)]
           stop == {s \in D : token(s)[1] = 0}
           base == [s \in D |-> s]
           next == [s \in D |-> IF token(s)[1] = 0 THEN s ELSE From(s, token(s)[2] + 1)]
           step == [z \in D \X D |-> IF token(z[1])[1] = 0 THEN z[2]
                                     ELSE Before(z[1], token(z[1])[1]) \o z[2]]
<1>1. ASSUME NEW s \in D, token(s)[1] # 0
      PROVE  /\ From(s, token(s)[2] + 1) \in D /\ Len(From(s, token(s)[2] + 1)) < Len(s)
             /\ Before(s, token(s)[1]) \in D
  <2>1. PICK x : x = token(s)
    OBVIOUS
  <2>2. x[1] \in 1..Len(s) /\ x[2] \in 1..Len(s)
    BY <1>1, <2>1, TokenFound DEF FoundIn
  <2>3. Len(s) \in Nat
    BY DEF Texts
  <2>4. x[2] + 1 \in Nat \ {0} /\ x[2] + 1 > 1 /\ s # <<>> /\ x[1] \in 0..(Len(s) + 1)
    BY <2>2, <2>3, EmptySeq
  <2>5. From(s, x[2] + 1) \in D /\ Len(From(s, x[2] + 1)) < Len(s)
    BY <2>4, RestIs
  <2>6. Before(s, x[1]) \in D
    BY <2>4, StartIs
  <2> QED
    BY <2>1, <2>5, <2>6
<1>2. size \in [D -> Nat] /\ base \in [D -> D] /\ next \in [D -> D] /\ stop \in SUBSET D
  <2>1. \A s \in D : Len(s) \in Nat
    BY DEF Texts
  <2> HIDE DEF D, token
  <2> QED
    BY <1>1, <2>1
<1>3. step \in [D \X D -> D]
  <2>1. ASSUME NEW a \in D, NEW b \in D, token(a)[1] # 0
        PROVE  Before(a, token(a)[1]) \o b \in D
    <3>1. PICK x : x = Before(a, token(a)[1])
      OBVIOUS
    <3>2. x \in D
      BY <1>1, <2>1, <3>1
    <3> QED
      BY <3>1, <3>2, ConcatProperties DEF Texts
  <2> HIDE DEF D, token
  <2>2. ASSUME NEW z \in D \X D
        PROVE  (IF token(z[1])[1] = 0 THEN z[2] ELSE Before(z[1], token(z[1])[1]) \o z[2]) \in D
    <3>1. z[1] \in D /\ z[2] \in D
      OBVIOUS
    <3> QED
      BY <2>1, <3>1
  <2> QED
    BY <2>2
<1>4. \A s \in D : s \notin stop => size[next[s]] < size[s]
  <2> HIDE DEF D, token
  <2>1. ASSUME NEW s \in D, s \notin stop PROVE size[next[s]] < size[s]
    <3>1. token(s)[1] # 0
      BY <2>1
    <3>2. next[s] = From(s, token(s)[2] + 1) /\ next[s] \in D
      BY <1>2, <3>1
    <3> QED
      BY <1>1, <3>1, <3>2
  <2> QED
    BY <2>1
<1>5. PICK f : Recurs(f, D, D, stop, base, next, step)
  <2> HIDE DEF D, size, stop, base, next, step
  <2> QED
    BY <1>2, <1>3, <1>4, Recursion
<1> DEFINE Rule(g, s) == IF token(s)[1] = 0 THEN s
                         ELSE Before(s, token(s)[1]) \o g[From(s, token(s)[2] + 1)]
           Eq(g) == g = [s \in D |-> Rule(g, s)]
<1>6. Eq(f)
  <2>1. f \in [D -> D]
    BY <1>5 DEF Recurs
  <2> HIDE DEF D, token
  <2>2. ASSUME NEW s \in D PROVE f[s] = Rule(f, s)
    <3>1. f[s] = IF s \in stop THEN base[s] ELSE step[<<s, f[next[s]]>>]
      BY <1>5 DEF Recurs
    <3>2. CASE token(s)[1] = 0
      BY <3>1, <3>2
    <3>3. CASE token(s)[1] # 0
      <4>1. next[s] = From(s, token(s)[2] + 1) /\ next[s] \in D /\ s \notin stop
        BY <1>2, <3>3
      <4>2. <<s, f[next[s]]>> \in D \X D
        BY <2>1, <4>1
      <4> QED
        BY <3>1, <3>3, <4>1, <4>2
    <3> QED
      BY <3>2, <3>3
  <2> HIDE DEF Rule
  <2> QED
    BY <2>1, <2>2
<1>7. Eq(_strip_control_tokens)
  <2>1. _strip_control_tokens = CHOOSE g : Eq(g)
    BY DEF _strip_control_tokens
  <2> HIDE DEF Eq
  <2> QED
    BY <1>6, <2>1
<1>8. \A s \in D : _strip_control_tokens[s] = Rule(_strip_control_tokens, s)
  <2> HIDE DEF Rule, D
  <2> QED
    BY <1>7
<1> DEFINE Good == {s \in D : _strip_control_tokens[s] \in D}
<1>9. ASSUME NEW s \in D, \A t \in D : size[t] < size[s] => t \in Good PROVE s \in Good
  <2>1. CASE token(s)[1] = 0
    <3>1. _strip_control_tokens[s] = s
      BY <1>8, <2>1
    <3> QED
      BY <3>1
  <2>2. CASE token(s)[1] # 0
    <3>1. PICK b, r : b = Before(s, token(s)[1]) /\ r = From(s, token(s)[2] + 1)
      OBVIOUS
    <3>2. b \in D /\ r \in D /\ size[r] < size[s]
      BY <1>1, <2>2, <3>1
    <3>3. _strip_control_tokens[r] \in D
      BY <1>9, <3>2
    <3>4. _strip_control_tokens[s] = b \o _strip_control_tokens[r]
      BY <1>8, <2>2, <3>1
    <3>5. PICK u : u = _strip_control_tokens[r]
      OBVIOUS
    <3> QED
      BY <3>2, <3>3, <3>4, <3>5, ConcatProperties DEF Texts
  <2> QED
    BY <2>1, <2>2
<1>10. \A s \in D : s \in Good
  <2> HIDE DEF D, Good, size
  <2> QED
    BY <1>2, <1>9, MeasureInduction
<1>11. _strip_control_tokens = [s \in D |-> _strip_control_tokens[s]]
  <2> HIDE DEF Rule, D
  <2> QED
    BY <1>7, <1>8
<1> QED
  BY <1>8, <1>10, <1>11, Zenon

\* What is left of a text without control tokens is a text, and begins with a bullet if the
\* text did.
LEMMA StripIs ==
    ASSUME NEW s \in Texts
    PROVE  /\ _strip_control_tokens[s] \in Texts
           /\ Bulleted(s) => Bulleted(_strip_control_tokens[s])
<1>1. _strip_control_tokens[s] \in Texts
  BY StripStep
<1>2. ASSUME Bulleted(s), Search(s, "<", IsControlToken)[1] # 0
      PROVE  Bulleted(_strip_control_tokens[s])
  <2>1. PICK x : x = Search(s, "<", IsControlToken)
    OBVIOUS
  <2>2. x[1] \in 1..Len(s) /\ x[2] \in 1..Len(s) /\ s[x[1]] = "<" /\ Len(s) \in Nat
    BY <1>2, <2>1, TokenFound DEF FoundIn, Texts
  <2>3. Len(s) >= 1 /\ s[1] = "o"
    BY <1>2, BulletedIs DEF BULLET
  <2>4. x[1] # 1 /\ x[1] \in 1..(Len(s) + 1) /\ x[2] + 1 \in Nat \ {0}
    BY <2>2, <2>3
  <2>5. PICK b, r : b = Before(s, x[1]) /\ r = _strip_control_tokens[From(s, x[2] + 1)]
    OBVIOUS
  <2>6. b \in Texts /\ Len(b) = x[1] - 1 /\ b[1] = s[1] /\ Len(b) >= 1
    <3>1. PICK k : k = x[1]
      OBVIOUS
    <3>2. k \in 1..(Len(s) + 1) /\ 1 \in 1..(k - 1) /\ k \in Nat /\ k # 0 /\ k # 1
      BY <2>2, <2>4, <3>1
    <3>3. b \in Texts /\ Len(b) = k - 1 /\ \A j \in 1..(k - 1) : b[j] = s[j]
      BY <2>5, <3>1, <3>2, BeforeIs
    <3> QED
      BY <3>1, <3>2, <3>3
  <2>7. r \in Texts
    <3>1. From(s, x[2] + 1) \in Texts
      BY <2>4, RestIs
    <3> QED
      BY <2>5, <3>1, StripStep
  <2>8. _strip_control_tokens[s] = b \o r
    BY <1>2, <2>1, <2>5, StripStep
  <2>9. b \o r \in Texts /\ Len(b \o r) >= 1 /\ (b \o r)[1] = b[1]
    <3>1. b \in Seq(STRING) /\ r \in Seq(STRING) /\ Len(b) \in Nat /\ Len(r) \in Nat
      BY <2>6, <2>7 DEF Texts
    <3>2. b \o r \in Seq(STRING) /\ Len(b \o r) = Len(b) + Len(r)
          /\ \A i \in 1..(Len(b) + Len(r)) :
               (b \o r)[i] = IF i <= Len(b) THEN b[i] ELSE r[i - Len(b)]
      BY <3>1, ConcatProperties, Zenon
    <3>3. 1 \in 1..(Len(b) + Len(r)) /\ 1 <= Len(b)
      BY <2>6, <3>1
    <3> QED
      BY <3>1, <3>2, <3>3 DEF Texts
  <2>10. (b \o r)[1] = BULLET
    BY <2>3, <2>6, <2>9 DEF BULLET
  <2> QED
    BY <2>8, <2>9, <2>10, BulletedIs
<1>3. Search(s, "<", IsControlToken)[1] = 0 => _strip_control_tokens[s] = s
  BY StripStep
<1> QED
  BY <1>1, <1>2, <1>3

-----------------------------------------------------------------------------
(* What a turn of the second parser does, and its loop.                    *)

\* The calls it returns.
DetectedTools == [name : Texts, parameters : Assignments]

\* The fields of a parser.
LEMMA ToolParsersAre ==
    \A h \in HeuristicToolParsers :
        /\ h.state \in ParserState /\ h.buffer \in Texts /\ h.name \in Texts
        /\ h.parameters \in Assignments /\ h.shown \in Texts /\ h.tools \in Seq(DetectedTools)
BY DEF HeuristicToolParsers, DetectedTools

\* Text is passed on, and the buffer goes on from place j.
LEMMA ShowIs ==
    ASSUME NEW h \in HeuristicToolParsers, NEW i \in 0..(Len(h.buffer) + 1), NEW j \in Nat \ {0}
    PROVE  /\ Show(h, i, j) \in HeuristicToolParsers
           /\ Show(h, i, j).state = h.state /\ Show(h, i, j).buffer = From(h.buffer, j)
           /\ Show(h, i, j).parameters = h.parameters
<1>1. h.buffer \in Texts /\ h.shown \in Texts
  BY ToolParsersAre
<1>2. PICK b, r : b = Before(h.buffer, i) /\ r = From(h.buffer, j)
  OBVIOUS
<1>3. b \in Texts /\ r \in Texts
  BY <1>1, <1>2, StartIs, RestIs
<1>4. h.shown \o b \in Texts
  BY <1>1, <1>3, ConcatProperties DEF Texts
<1>5. Show(h, i, j) = [h EXCEPT !.shown = h.shown \o b, !.buffer = r]
  BY <1>2 DEF Show, HeuristicToolParsers
<1> QED
  BY <1>2, <1>3, <1>4, <1>5 DEF HeuristicToolParsers

\* A call is returned: the parser reads text again.
LEMMA DetectIs ==
    ASSUME NEW h \in HeuristicToolParsers
    PROVE  Detect(h) \in HeuristicToolParsers /\ Detect(h).state = "TEXT"
           /\ Detect(h).buffer = h.buffer
<1>1. PICK t, x : t = h.tools /\ x = [name |-> h.name, parameters |-> h.parameters]
  OBVIOUS
<1>2. t \in Seq(DetectedTools) /\ x \in DetectedTools
  BY <1>1, ToolParsersAre DEF DetectedTools
<1>3. Append(t, x) \in Seq(DetectedTools)
  BY <1>2, AppendProperties
<1>4. Detect(h) = [h EXCEPT !.state = "TEXT", !.tools = Append(t, x)]
  BY <1>1 DEF Detect, HeuristicToolParsers
<1> QED
  BY <1>3, <1>4 DEF HeuristicToolParsers, ParserState, DetectedTools

\* Where a call and a bullet begin.
LEMMA FunctionAt ==
    ASSUME NEW s \in Texts, NEW i \in 1..(Len(s) + 1)
    PROVE  IsPrefix(FUNCTION_START, From(s, i)) <=>
             i + 2 <= Len(s) /\ s[i] = "<" /\ s[i + 1] = "f" /\ s[i + 2] = "="
BY DEF From, Texts, FUNCTION_START, IsPrefix

LEMMA BulletAt == ASSUME NEW s \in Texts PROVE IsPrefix(<<BULLET>>, s) <=> Bulleted(s)
<1>1. IsPrefix(<<BULLET>>, s) <=> Len(s) >= 1 /\ s[1] = BULLET
  BY DEF Texts, IsPrefix
<1> QED
  BY <1>1, BulletedIs

LEMMA OpensTag ==
    ASSUME NEW s \in Texts, IsPrefix(<<"<">>, s) PROVE s # <<>> /\ Head(s) = "<"
<1>1. IsPrefix(<<"<">>, s) <=> Len(s) >= 1 /\ s[1] = "<"
  BY DEF Texts, IsPrefix
<1> QED
  BY <1>1, EmptySeq DEF Texts

\* From a bullet that is found on the text is bulleted.
LEMMA FromBullet ==
    ASSUME NEW s \in Texts, Find(s, <<BULLET>>) # 0
    PROVE  /\ Find(s, <<BULLET>>) \in 1..Len(s)
           /\ Bulleted(From(s, Find(s, <<BULLET>>)))
<1>1. PICK i : i = Find(s, <<BULLET>>)
  OBVIOUS
<1>2. i \in 1..Len(s) /\ IsPrefix(<<BULLET>>, From(s, i))
  BY <1>1, FindIs
<1>3. From(s, i) \in Texts
  BY <1>2, RestIs DEF Texts
<1> QED
  BY <1>1, <1>2, <1>3, BulletAt

\* The tag of a call that is found.
LEMMA FunctionTagIs ==
    ASSUME NEW s \in Texts, NEW x, x = Search(s, BULLET, IsFuncStart), x[1] # 0
    PROVE  /\ x[1] \in 1..Len(s) /\ x[2] \in 1..Len(s)
           /\ SubSeq(s, Find(From(s, x[1]), FUNCTION_START) + x[1] - 1, x[2]) \in Texts
<1>1. /\ x[1] \in 1..Len(s) /\ x[2] \in 1..Len(s) /\ x[1] < x[2]
      /\ IsFuncStart(SubSeq(s, x[1], x[2]))
  BY FunctionFound DEF FoundIn
<1>2. PICK i, j : i = x[1] /\ j = x[2]
  OBVIOUS
<1>3. Len(s) \in Nat /\ i \in 1..Len(s) /\ j \in 1..Len(s) /\ i < j
  BY <1>1, <1>2 DEF Texts
<1>4. PICK sub, u : sub = SubSeq(s, i, j) /\ u = From(s, i)
  OBVIOUS
<1>5. sub \in Texts /\ Len(sub) = j - i + 1 /\ \A k \in 1..(j - i + 1) : sub[k] = s[i + k - 1]
  <2>1. i \in Nat \ {0} /\ j \in Int /\ j <= Len(s) /\ i <= j
    BY <1>3
  <2> QED
    BY <1>4, <2>1, PartIs
<1>6. u \in Texts /\ Len(u) = Len(s) - i + 1 /\ \A k \in 1..(Len(s) - i + 1) : u[k] = s[i + k - 1]
  <2>1. i \in 1..(Len(s) + 1)
    BY <1>3
  <2> QED
    BY <1>4, <2>1, FromIs
<1>7. PICK k \in DOMAIN sub : IsPrefix(FUNCTION_START, From(sub, k + 1))
  BY <1>1, <1>2, <1>4 DEF IsFuncStart, IsTag
<1>8. PICK m : m = k + 1
  OBVIOUS
<1>9. m \in 1..(Len(sub) + 1) /\ m \in 1..(Len(u) + 1) /\ Len(sub) <= Len(u) /\ m \in Nat
  BY <1>3, <1>5, <1>6, <1>7, <1>8 DEF Texts
<1>10. m + 2 <= Len(sub) /\ sub[m] = "<" /\ sub[m + 1] = "f" /\ sub[m + 2] = "="
  BY <1>5, <1>7, <1>8, <1>9, FunctionAt
<1>11. \A k1 \in 1..Len(sub) : u[k1] = sub[k1]
  BY <1>3, <1>5, <1>6
<1>12. u[m] = "<" /\ u[m + 1] = "f" /\ u[m + 2] = "=" /\ m + 2 <= Len(u) /\ m \in 1..Len(u)
  <2>1. /\ m \in 1..Len(sub) /\ m + 1 \in 1..Len(sub) /\ m + 2 \in 1..Len(sub)
        /\ Len(sub) \in Nat /\ Len(u) \in Nat
    BY <1>3, <1>5, <1>6, <1>9, <1>10
  <2> QED
    BY <1>9, <1>10, <1>11, <2>1
<1>13. IsPrefix(FUNCTION_START, From(u, m))
  BY <1>6, <1>9, <1>12, FunctionAt
<1>14. Find(u, FUNCTION_START) \in 1..Len(u)
  BY <1>6, <1>12, <1>13, FindIs
<1>15. PICK b : b = Find(u, FUNCTION_START) + i - 1
  OBVIOUS
<1>16. b \in Nat \ {0} /\ j \in Int /\ j <= Len(s)
  BY <1>3, <1>6, <1>14, <1>15
<1>17. SubSeq(s, b, j) \in Texts
  BY <1>16, PartIs
<1> QED
  BY <1>1, <1>2, <1>4, <1>15, <1>17

\* How much the parser has to do.
Rank(state) ==
    CASE state = "MATCHING_FUNCTION" -> 0
      [] state = "TEXT" -> 1
      [] state = "PARSING_PARAMETERS" -> 2
Effort(h) == 3 * Len(h.buffer) + Rank(h.state)

\* What is kept for the next chunk in a state.
Awaits(h) ==
    /\ h.state = "TEXT" => h.buffer = <<>> \/ IsPrefix(CONTROL_TOKEN_START, h.buffer)
    /\ h.state = "MATCHING_FUNCTION" => Bulleted(h.buffer) /\ Len(h.buffer) <= MaxHeld
    /\ h.state = "PARSING_PARAMETERS" =>
         h.buffer = <<>> \/ Head(Trim(h.buffer)) = "<" \/ Occurs(PARAM_START, h.buffer)

\* A call is looked for from a bullet on.
FromItsBullet(h) == h.state = "MATCHING_FUNCTION" => Bulleted(h.buffer)

\* A turn that leaves the state is followed by another one, with less to do.
Turned(h, q) ==
    /\ q \in HeuristicToolParsers
    /\ q.state = h.state /\ FromItsBullet(h) => Awaits(q)
    /\ q.state # h.state => Effort(q) < Effort(h) /\ FromItsBullet(q)

\* A turn in text, while a call is looked for, and among parameters.
LEMMA TextTurn ==
    ASSUME NEW h \in HeuristicToolParsers, h.state = "TEXT" PROVE Turned(h, Text(h))
<1>1. PICK s : s = h.buffer
  OBVIOUS
<1>2. s \in Texts /\ Len(s) \in Nat
  BY <1>1, ToolParsersAre DEF Texts
<1>3. CASE Find(s, <<BULLET>>) # 0
  <2>1. PICK i : i = Find(s, <<BULLET>>)
    OBVIOUS
  <2>2. i \in 1..Len(s) /\ Bulleted(From(s, i))
    BY <1>2, <1>3, <2>1, FromBullet
  <2>3. i \in 0..(Len(s) + 1) /\ i \in Nat \ {0}
    BY <1>2, <2>2
  <2>4. PICK q : q = Show(h, i, i)
    OBVIOUS
  <2>5. q \in HeuristicToolParsers /\ q.buffer = From(s, i)
    BY <1>1, <2>3, <2>4, ShowIs
  <2>6. Text(h) = [q EXCEPT !.state = "MATCHING_FUNCTION"]
    BY <1>1, <1>3, <2>1, <2>4 DEF Text
  <2>7. PICK r : r = Text(h)
    OBVIOUS
  <2>8. r \in HeuristicToolParsers /\ r.state = "MATCHING_FUNCTION" /\ r.buffer = From(s, i)
    BY <2>5, <2>6, <2>7 DEF HeuristicToolParsers, ParserState
  <2>9. Effort(r) < Effort(h)
    <3>1. Len(From(s, i)) \in Nat /\ Len(From(s, i)) <= Len(s)
      BY <1>2, <2>3, RestIs DEF Texts
    <3>2. PICK n : n = Len(From(s, i))
      OBVIOUS
    <3>3. Effort(r) = 3 * n + 0 /\ Effort(h) = 3 * Len(s) + 1
      BY <1>1, <2>8, <3>2 DEF Effort, Rank
    <3> QED
      BY <1>2, <3>1, <3>2, <3>3
  <2> QED
    BY <2>2, <2>7, <2>8, <2>9 DEF Turned, FromItsBullet
<1>4. CASE Find(s, <<BULLET>>) = 0
  <2> DEFINE Starts == {i \in DOMAIN s : IsPrefix(CONTROL_TOKEN_START, From(s, i))}
             keep == /\ Starts # {} /\ Max(Starts) # 1
                     /\ ~Occurs(CONTROL_TOKEN_END, From(s, Max(Starts)))
             end == IF keep THEN Max(Starts) ELSE Len(s) + 1
  <2>1. Text(h) = Show(h, end, end)
    BY <1>1, <1>4 DEF Text, SplitTail
  <2>2. /\ end \in 1..(Len(s) + 1)
        /\ From(s, end) = <<>> \/ IsPrefix(CONTROL_TOKEN_START, From(s, end))
    <3>1. CASE keep
      <4>1. Starts \in SUBSET (1..Len(s)) /\ Starts # {}
        <5>1. DOMAIN s = 1..Len(s)
          BY <1>2 DEF Texts
        <5> QED
          BY <3>1, <5>1
      <4>2. Max(Starts) \in Starts
        <5> HIDE DEF Starts
        <5> QED
          BY <1>2, <4>1, MaxIs
      <4>3. PICK k : k = Max(Starts)
        OBVIOUS
      <4>4. k \in 1..Len(s) /\ IsPrefix(CONTROL_TOKEN_START, From(s, k))
        BY <4>1, <4>2, <4>3
      <4>5. end = k
        BY <3>1, <4>3
      <4> QED
        BY <1>2, <4>4, <4>5
    <3>2. CASE ~keep
      <4>1. end = Len(s) + 1
        BY <3>2
      <4>2. Len(s) + 1 \in 1..(Len(s) + 1)
        BY <1>2
      <4>3. PICK k : k = Len(s) + 1
        OBVIOUS
      <4>4. From(s, k) \in Texts /\ Len(From(s, k)) = 0
        BY <1>2, <4>2, <4>3, FromIs
      <4>5. From(s, k) = <<>>
        BY <4>4, EmptySeq DEF Texts
      <4> HIDE DEF end
      <4> QED
        BY <4>1, <4>2, <4>3, <4>5
    <3> QED
      BY <3>1, <3>2
  <2> HIDE DEF end
  <2>3. end \in 0..(Len(s) + 1) /\ end \in Nat \ {0}
    BY <1>2, <2>2
  <2>4. PICK q : q = Text(h)
    OBVIOUS
  <2>5. q \in HeuristicToolParsers /\ q.buffer = From(s, end) /\ q.state = "TEXT"
    BY <1>1, <2>1, <2>3, <2>4, ShowIs
  <2> QED
    BY <2>2, <2>4, <2>5 DEF Turned, Awaits
<1> QED
  BY <1>3, <1>4

LEMMA MatchTurn ==
    ASSUME NEW h \in HeuristicToolParsers, h.state = "MATCHING_FUNCTION"
    PROVE  Turned(h, MatchFunction(h))
<1>1. PICK s, x : s = h.buffer /\ x = Search(s, BULLET, IsFuncStart)
  OBVIOUS
<1>2. s \in Texts /\ Len(s) \in Nat
  BY <1>1, ToolParsersAre DEF Texts
<1>3. CASE x[1] # 0
  <2>1. PICK tag : tag = SubSeq(s, Find(From(s, x[1]), FUNCTION_START) + x[1] - 1, x[2])
    OBVIOUS
  <2>2. tag \in Texts /\ x[2] \in 1..Len(s)
    BY <1>1, <1>2, <1>3, <2>1, FunctionTagIs
  <2>3. PICK n, r : n = NameIn(tag, FUNCTION_START) /\ r = From(s, x[2] + 1)
    OBVIOUS
  <2>4. n \in Texts
    <3>1. Len(FUNCTION_START) \in Nat
      BY DEF FUNCTION_START
    <3> QED
      BY <2>2, <2>3, <3>1, NameIs
  <2>5. r \in Texts /\ Len(r) < Len(s) /\ Len(r) \in Nat
    <3>1. PICK k : k = x[2] + 1
      OBVIOUS
    <3>2. k \in Nat \ {0} /\ k > 1 /\ s # <<>>
      BY <1>2, <2>2, <3>1, EmptySeq
    <3> QED
      BY <1>2, <2>3, <3>1, <3>2, RestIs DEF Texts
  <2>6. MatchFunction(h) = [h EXCEPT !.name = n, !.parameters = <<>>, !.buffer = r,
                                     !.state = "PARSING_PARAMETERS"]
    BY <1>1, <1>3, <2>1, <2>3 DEF MatchFunction
  <2>7. PICK q : q = MatchFunction(h)
    OBVIOUS
  <2>8. <<>> \in Assignments
    BY EmptySeq DEF Assignments
  <2>9. q \in HeuristicToolParsers /\ q.state = "PARSING_PARAMETERS" /\ q.buffer = r
    BY <2>4, <2>5, <2>6, <2>7, <2>8 DEF HeuristicToolParsers, ParserState
  <2>10. Effort(q) = 3 * Len(r) + 2 /\ Effort(h) = 3 * Len(s) + 0
    BY <1>1, <2>9 DEF Effort, Rank
  <2>11. Effort(q) < Effort(h)
    BY <1>2, <2>5, <2>10
  <2> QED
    BY <2>7, <2>9, <2>11 DEF Turned, FromItsBullet
<1>4. CASE x[1] = 0 /\ IsTooLong(s)
  <2>1. PICK q : q = Show(h, 2, 2)
    OBVIOUS
  <2>2. Len(s) >= 1
    BY <1>2, <1>4, LimitsAssumption DEF IsTooLong
  <2>3. 2 \in 0..(Len(s) + 1) /\ 2 \in Nat \ {0} /\ s # <<>>
    BY <1>2, <2>2, EmptySeq
  <2>4. q \in HeuristicToolParsers /\ q.buffer = From(s, 2)
    BY <1>1, <2>1, <2>3, ShowIs
  <2>5. PICK r : r = MatchFunction(h)
    OBVIOUS
  <2>6. r = [q EXCEPT !.state = "TEXT"]
    BY <1>1, <1>4, <2>1, <2>5 DEF MatchFunction
  <2>7. r \in HeuristicToolParsers /\ r.state = "TEXT" /\ r.buffer = From(s, 2)
    BY <2>4, <2>6 DEF HeuristicToolParsers, ParserState
  <2>8. PICK n : n = Len(From(s, 2))
    OBVIOUS
  <2>9. n \in Nat /\ n < Len(s)
    BY <1>2, <2>3, <2>8, RestIs DEF Texts
  <2>10. Effort(r) = 3 * n + 1 /\ Effort(h) = 3 * Len(s) + 0
    BY <1>1, <2>7, <2>8 DEF Effort, Rank
  <2>11. Effort(r) < Effort(h)
    BY <1>2, <2>9, <2>10
  <2> QED
    BY <2>5, <2>7, <2>11 DEF Turned, FromItsBullet
<1>5. CASE x[1] = 0 /\ ~IsTooLong(s)
  <2>1. MatchFunction(h) = h
    BY <1>1, <1>5 DEF MatchFunction
  <2>2. Len(s) <= MaxHeld
    BY <1>2, <1>5, LimitsAssumption DEF IsTooLong
  <2> QED
    BY <1>1, <2>1, <2>2 DEF Turned, Awaits, FromItsBullet
<1> QED
  BY <1>3, <1>4, <1>5

\* A parameter that is complete, and the parser once it is taken.
ParamTag(h) == Search(h.buffer, "<", IsParamStart)
ParamEnd(h) == Find(From(h.buffer, ParamTag(h)[2] + 1), PARAM_END)
NoParam(h) == ParamTag(h)[1] = 0 \/ ParamEnd(h) = 0
Param(h) ==
    <<NameIn(SubSeq(h.buffer, ParamTag(h)[1], ParamTag(h)[2]), PARAM_START),
      Trim(Before(From(h.buffer, ParamTag(h)[2] + 1), ParamEnd(h)))>>
Taken(h) ==
    [Show(h, ParamTag(h)[1], ParamTag(h)[2] + ParamEnd(h) + Len(PARAM_END)) EXCEPT
       !.parameters = Append(@, Param(h))]

\* Taking a parameter leaves less.
LEMMA TakenIs ==
    ASSUME NEW h \in HeuristicToolParsers, ~NoParam(h)
    PROVE  /\ Taken(h) \in HeuristicToolParsers /\ Taken(h).state = h.state
           /\ Len(Taken(h).buffer) < Len(h.buffer)
<1>1. PICK s, x : s = h.buffer /\ x = ParamTag(h)
  OBVIOUS
<1>2. s \in Texts /\ Len(s) \in Nat
  BY <1>1, ToolParsersAre DEF Texts
<1>3. x[1] \in 1..Len(s) /\ x[2] \in 1..Len(s)
  BY <1>1, <1>2, ParamFound DEF NoParam, ParamTag, FoundIn
<1>4. PICK i, j : i = x[1] /\ j = x[2]
  OBVIOUS
<1>5. i \in 1..Len(s) /\ j \in 1..Len(s) /\ s # <<>>
  BY <1>2, <1>3, <1>4, EmptySeq
<1>6. PICK u : u = From(s, j + 1)
  OBVIOUS
<1>7. u \in Texts /\ Len(u) \in Nat
  <2>1. j + 1 \in Nat \ {0}
    BY <1>2, <1>5
  <2> QED
    BY <1>2, <1>6, <2>1, RestIs DEF Texts
<1>8. PICK e : e = Find(u, PARAM_END)
  OBVIOUS
<1>9. e \in 0..Len(u)
  BY <1>7, <1>8, FindIs
<1>10. PICK key, value : /\ key = NameIn(SubSeq(s, i, j), PARAM_START)
                         /\ value = Trim(Before(u, e))
  OBVIOUS
<1>11. key \in Texts
  <2>1. SubSeq(s, i, j) \in Texts
    <3>1. i \in Nat \ {0} /\ j \in Int /\ j <= Len(s)
      BY <1>2, <1>5
    <3> QED
      BY <1>2, <3>1, PartIs
  <2>2. Len(PARAM_START) \in Nat
    BY DEF PARAM_START
  <2> QED
    BY <1>10, <2>1, <2>2, NameIs
<1>12. value \in Texts
  <2>1. e \in 0..(Len(u) + 1)
    BY <1>7, <1>9
  <2> QED
    BY <1>7, <1>10, <2>1, StartIs, TrimIs
<1>13. PICK k : k = j + e + Len(PARAM_END)
  OBVIOUS
<1>14. k \in Nat \ {0} /\ k > 1 /\ i \in 0..(Len(s) + 1)
  <2>1. Len(PARAM_END) = 4
    BY DEF PARAM_END
  <2> QED
    BY <1>2, <1>5, <1>7, <1>9, <1>13, <2>1
<1>15. PICK q : q = Show(h, i, k)
  OBVIOUS
<1>16. q \in HeuristicToolParsers /\ q.state = h.state /\ q.buffer = From(s, k)
  BY <1>1, <1>14, <1>15, ShowIs
<1>17. Append(q.parameters, <<key, value>>) \in Assignments
  <2>1. q.parameters \in Seq(Texts \X Texts) /\ <<key, value>> \in Texts \X Texts
    BY <1>11, <1>12, <1>16, ToolParsersAre DEF Assignments
  <2> QED
    BY <2>1, AppendProperties DEF Assignments
<1>18. Param(h) = <<key, value>> /\ ParamEnd(h) = e
  BY <1>1, <1>4, <1>6, <1>8, <1>10 DEF Param, ParamEnd
<1>19. Taken(h) = [q EXCEPT !.parameters = Append(q.parameters, <<key, value>>)]
  BY <1>1, <1>4, <1>13, <1>15, <1>16, <1>18 DEF Taken, HeuristicToolParsers
<1>20. PICK r : r = Taken(h)
  OBVIOUS
<1>21. r \in HeuristicToolParsers /\ r.state = h.state /\ r.buffer = From(s, k)
  BY <1>16, <1>17, <1>19, <1>20 DEF HeuristicToolParsers
<1>22. Len(From(s, k)) < Len(s)
  BY <1>2, <1>5, <1>14, RestIs
<1> QED
  BY <1>1, <1>20, <1>21, <1>22

\* The loop of parameters.
LEMMA TakeStep ==
    ASSUME NEW h \in HeuristicToolParsers
    PROVE  TakeParameters[h] = IF NoParam(h) THEN h ELSE TakeParameters[Taken(h)]
<1> DEFINE D == HeuristicToolParsers
           size == [q \in D |-> Len(q.buffer)]
           stop == {q \in D : NoParam(q)}
           base == [q \in D |-> q]
           next == [q \in D |-> IF NoParam(q) THEN q ELSE Taken(q)]
<1>1. \A q \in D : Len(q.buffer) \in Nat
  BY ToolParsersAre DEF Texts
<1>2. /\ size \in [D -> Nat] /\ stop \in SUBSET D /\ base \in [D -> D] /\ next \in [D -> D]
      /\ \A q \in D : q \notin stop => size[next[q]] < size[q]
  <2> HIDE DEF D
  <2> QED
    BY <1>1, TakenIs DEF D
<1>3. PICK f : Loops(f, D, stop, base, next)
  <2> HIDE DEF D, size, stop, base, next
  <2> QED
    BY <1>2, Loop
<1> DEFINE Eq(g) == g = [q \in D |-> IF NoParam(q) THEN q ELSE g[Taken(q)]]
<1>4. Eq(f)
  <2> HIDE DEF D
  <2>1. f = [q \in D |-> IF q \in stop THEN base[q] ELSE f[next[q]]]
    BY <1>3 DEF Loops
  <2>2. \A q \in D : f[q] = IF q \in stop THEN base[q] ELSE f[next[q]]
    BY <2>1
  <2>3. f = [q \in D |-> f[q]]
    BY <2>1
  <2>4. \A q \in D : f[q] = IF NoParam(q) THEN q ELSE f[Taken(q)]
    BY <2>2
  <2> QED
    BY <2>3, <2>4
<1>5. Eq(TakeParameters)
  <2>1. TakeParameters = CHOOSE g : Eq(g)
    BY DEF TakeParameters, NoParam, Taken, Param, ParamTag, ParamEnd
  <2> HIDE DEF Eq
  <2> QED
    BY <1>4, <2>1
<1> QED
  BY <1>5

\* It ends, with no more in the buffer.
LEMMA TakeIs ==
    ASSUME NEW h \in HeuristicToolParsers
    PROVE  /\ TakeParameters[h] \in HeuristicToolParsers
           /\ TakeParameters[h].state = h.state
           /\ Len(TakeParameters[h].buffer) <= Len(h.buffer)
<1> DEFINE D == HeuristicToolParsers
           size == [q \in D |-> Len(q.buffer)]
           Ok(q) == /\ TakeParameters[q] \in D /\ TakeParameters[q].state = q.state
                    /\ Len(TakeParameters[q].buffer) <= Len(q.buffer)
           Good == {q \in D : Ok(q)}
<1>1. \A q \in D : Len(q.buffer) \in Nat
  BY ToolParsersAre DEF Texts
<1>2. size \in [D -> Nat]
  BY <1>1
<1>3. ASSUME NEW q \in D, \A r \in D : size[r] < size[q] => r \in Good PROVE q \in Good
  <2>1. CASE NoParam(q)
    <3>1. TakeParameters[q] = q
      BY <2>1, TakeStep
    <3> QED
      BY <1>1, <3>1
  <2>2. CASE ~NoParam(q)
    <3>1. PICK r : r = Taken(q)
      OBVIOUS
    <3>2. r \in D /\ r.state = q.state /\ Len(r.buffer) < Len(q.buffer)
      BY <2>2, <3>1, TakenIs
    <3>3. Ok(r)
      BY <1>3, <3>2
    <3>4. PICK t : t = TakeParameters[q]
      OBVIOUS
    <3>5. t = TakeParameters[r]
      BY <2>2, <3>1, <3>4, TakeStep
    <3>6. t \in D /\ t.state = q.state /\ Len(t.buffer) <= Len(r.buffer)
      BY <3>2, <3>3, <3>5
    <3>7. Len(t.buffer) <= Len(q.buffer)
      BY <1>1, <3>2, <3>6
    <3> QED
      BY <3>4, <3>6, <3>7
  <2> QED
    BY <2>1, <2>2
<1>4. \A q \in D : q \in Good
  <2> HIDE DEF D, Good, size
  <2> QED
    BY <1>2, <1>3, MeasureInduction
<1> QED
  BY <1>4

LEMMA ParseTurn ==
    ASSUME NEW h \in HeuristicToolParsers, h.state = "PARSING_PARAMETERS"
    PROVE  Turned(h, ParseParameters(h))
<1>1. PICK q, s : q = TakeParameters[h] /\ s = q.buffer
  OBVIOUS
<1>2. q \in HeuristicToolParsers /\ q.state = h.state /\ Len(s) <= Len(h.buffer)
  BY <1>1, TakeIs
<1>3. s \in Texts /\ Len(s) \in Nat /\ Len(h.buffer) \in Nat
  BY <1>1, <1>2, ToolParsersAre DEF Texts
<1>4. ASSUME NEW i \in 1..(Len(s) + 1) PROVE Turned(h, Detect(Show(q, i, i)))
  <2>1. i \in 0..(Len(s) + 1) /\ i \in Nat \ {0}
    BY <1>3
  <2>2. PICK a, d : a = Show(q, i, i) /\ d = Detect(a)
    OBVIOUS
  <2>3. a \in HeuristicToolParsers /\ a.buffer = From(s, i)
    BY <1>1, <1>2, <2>1, <2>2, ShowIs
  <2>4. d \in HeuristicToolParsers /\ d.state = "TEXT" /\ d.buffer = From(s, i)
    BY <2>2, <2>3, DetectIs
  <2>5. PICK n : n = Len(From(s, i))
    OBVIOUS
  <2>6. n \in Nat /\ n <= Len(s)
    BY <1>3, <2>1, <2>5, RestIs DEF Texts
  <2>7. Effort(d) = 3 * n + 1 /\ Effort(h) = 3 * Len(h.buffer) + 2
    BY <2>4, <2>5 DEF Effort, Rank
  <2>8. Effort(d) < Effort(h)
    BY <1>2, <1>3, <2>6, <2>7
  <2> QED
    BY <2>2, <2>4, <2>8 DEF Turned, FromItsBullet
<1>5. CASE Find(s, <<BULLET>>) # 0
  <2>1. PICK i : i = Find(s, <<BULLET>>)
    OBVIOUS
  <2>2. i \in 1..(Len(s) + 1)
    BY <1>3, <1>5, <2>1, FromBullet
  <2>3. ParseParameters(h) = Detect(Show(q, i, i))
    BY <1>1, <1>5, <2>1 DEF ParseParameters
  <2> QED
    BY <1>4, <2>2, <2>3
<1>6. CASE Find(s, <<BULLET>>) = 0 /\ Finishes(s)
  <2>1. PICK i : i = Len(s) + 1
    OBVIOUS
  <2>2. i \in 1..(Len(s) + 1)
    BY <1>3, <2>1
  <2>3. ParseParameters(h) = Detect(Show(q, i, i))
    BY <1>1, <1>6, <2>1 DEF ParseParameters
  <2> QED
    BY <1>4, <2>2, <2>3
<1>7. CASE Find(s, <<BULLET>>) = 0 /\ ~Finishes(s)
  <2>1. ParseParameters(h) = q
    BY <1>1, <1>7 DEF ParseParameters
  <2>2. s = <<>> \/ Head(Trim(s)) = "<" \/ Occurs(PARAM_START, s)
    BY <1>3, <1>7, TrimIs, OpensTag DEF Finishes
  <2> QED
    BY <1>1, <1>2, <2>1, <2>2 DEF Turned, Awaits
<1> QED
  BY <1>5, <1>6, <1>7

\* So every turn goes on with less to do or ends with what must be kept.
LEMMA TurnIs ==
    ASSUME NEW h \in HeuristicToolParsers PROVE Turned(h, Turn(h))
<1>1. CASE h.state = "TEXT"
  BY <1>1, TextTurn DEF Turn
<1>2. CASE h.state = "MATCHING_FUNCTION"
  <2>1. Turn(h) = MatchFunction(h)
    BY <1>2 DEF Turn
  <2> QED
    BY <1>2, <2>1, MatchTurn
<1>3. CASE h.state = "PARSING_PARAMETERS"
  <2>1. Turn(h) = ParseParameters(h)
    BY <1>3 DEF Turn
  <2> QED
    BY <1>3, <2>1, ParseTurn
<1> QED
  BY <1>1, <1>2, <1>3, ToolParsersAre DEF ParserState

LEMMA EffortIs == ASSUME NEW h \in HeuristicToolParsers PROVE Effort(h) \in Nat
<1>1. Len(h.buffer) \in Nat /\ h.state \in ParserState
  BY ToolParsersAre DEF Texts
<1> QED
  BY <1>1 DEF Effort, Rank, ParserState

\* The loop of HeuristicToolParser.feed.
LEMMA TurnsStep ==
    ASSUME NEW h \in HeuristicToolParsers
    PROVE  Turns[h] = IF Turn(h).state = h.state THEN Turn(h) ELSE Turns[Turn(h)]
<1> DEFINE D == HeuristicToolParsers
           size == [q \in D |-> Effort(q)]
           stop == {q \in D : Turn(q).state = q.state}
           next == [q \in D |-> Turn(q)]
<1>1. /\ size \in [D -> Nat] /\ stop \in SUBSET D /\ next \in [D -> D]
      /\ \A q \in D : q \notin stop => size[next[q]] < size[q]
  <2> HIDE DEF D
  <2> QED
    BY TurnIs, EffortIs DEF Turned, D
<1>2. PICK f : Loops(f, D, stop, next, next)
  <2> HIDE DEF D, size, stop, next
  <2> QED
    BY <1>1, Loop
<1> DEFINE Eq(g) == g = [q \in D |-> IF Turn(q).state = q.state THEN Turn(q) ELSE g[Turn(q)]]
<1>3. Eq(f)
  <2> HIDE DEF D
  <2>1. f = [q \in D |-> IF q \in stop THEN next[q] ELSE f[next[q]]]
    BY <1>2 DEF Loops
  <2>2. \A q \in D : f[q] = IF q \in stop THEN next[q] ELSE f[next[q]]
    BY <2>1
  <2>3. f = [q \in D |-> f[q]]
    BY <2>1
  <2>4. \A q \in D : f[q] = IF Turn(q).state = q.state THEN Turn(q) ELSE f[Turn(q)]
    BY <2>2
  <2> QED
    BY <2>3, <2>4
<1>4. Eq(Turns)
  <2>1. Turns = CHOOSE g : Eq(g)
    BY DEF Turns
  <2> HIDE DEF Eq
  <2> QED
    BY <1>3, <2>1
<1> QED
  BY <1>4

\* The loop of feed ends with a parser that keeps no more than it must.
LEMMA TurnsIs ==
    ASSUME NEW h \in HeuristicToolParsers, FromItsBullet(h)
    PROVE  Turns[h] \in HeuristicToolParsers /\ Awaits(Turns[h])
<1> DEFINE D == {q \in HeuristicToolParsers : FromItsBullet(q)}
           size == [q \in D |-> Effort(q)]
           Good == {q \in D : Turns[q] \in HeuristicToolParsers /\ Awaits(Turns[q])}
<1>1. size \in [D -> Nat]
  BY EffortIs
<1>2. ASSUME NEW q \in D, \A r \in D : size[r] < size[q] => r \in Good PROVE q \in Good
  <2>1. PICK r : r = Turn(q)
    OBVIOUS
  <2>2. Turned(q, r) /\ Turns[q] = IF r.state = q.state THEN r ELSE Turns[r]
    BY <2>1, TurnIs, TurnsStep
  <2>3. CASE r.state = q.state
    BY <2>2, <2>3 DEF Turned
  <2>4. CASE r.state # q.state
    <3>1. r \in D /\ size[r] < size[q]
      BY <2>2, <2>4 DEF Turned
    <3> QED
      BY <1>2, <2>2, <2>4, <3>1
  <2> QED
    BY <2>3, <2>4
<1>3. \A q \in D : q \in Good
  <2> HIDE DEF D, Good, size
  <2> QED
    BY <1>1, <1>2, MeasureInduction
<1> QED
  BY <1>3

\* Parsers between two chunks.
WaitingParsers == {h \in HeuristicToolParsers : Awaits(h)}

\* feed: a parser that waits waits again.
LEMMA FeedToolsIs ==
    ASSUME NEW h \in WaitingParsers, NEW content \in Texts
    PROVE  feedTools(h, content) \in WaitingParsers
<1>1. h \in HeuristicToolParsers /\ h.buffer \in Texts /\ Awaits(h)
  BY ToolParsersAre DEF WaitingParsers
<1>2. PICK s, t : s = h.buffer \o content /\ t = _strip_control_tokens[s]
  OBVIOUS
<1>3. PICK b : b = h.buffer
  OBVIOUS
<1>4. s \in Texts /\ (Bulleted(b) => Bulleted(s))
  <2>1. b \in Seq(STRING) /\ content \in Seq(STRING) /\ Len(b) \in Nat /\ Len(content) \in Nat
    BY <1>1, <1>3 DEF Texts
  <2>2. b \o content \in Seq(STRING) /\ Len(b \o content) = Len(b) + Len(content)
        /\ \A i \in 1..(Len(b) + Len(content)) :
             (b \o content)[i] = IF i <= Len(b) THEN b[i] ELSE content[i - Len(b)]
    BY <2>1, ConcatProperties, Zenon
  <2>3. s \in Texts
    BY <1>2, <1>3, <2>2 DEF Texts
  <2>4. ASSUME Bulleted(b) PROVE Bulleted(s)
    <3>1. Len(b) >= 1 /\ b[1] = BULLET
      BY <1>1, <1>3, <2>4, BulletedIs
    <3>2. 1 \in 1..(Len(b) + Len(content)) /\ Len(b) + Len(content) >= 1
      BY <2>1, <3>1
    <3>3. Len(s) >= 1 /\ s[1] = BULLET
      BY <1>2, <1>3, <2>2, <3>1, <3>2
    <3> QED
      BY <2>3, <3>3, BulletedIs
  <2> QED
    BY <2>3, <2>4
<1>5. t \in Texts /\ (Bulleted(s) => Bulleted(t))
  BY <1>2, <1>4, StripIs
<1>6. PICK q : q = [h EXCEPT !.buffer = t, !.shown = <<>>, !.tools = <<>>]
  OBVIOUS
<1>7. q \in HeuristicToolParsers /\ q.state = h.state /\ q.buffer = t
  <2>1. <<>> \in Texts /\ <<>> \in Seq(DetectedTools)
    BY EmptySeq DEF Texts
  <2> QED
    BY <1>1, <1>5, <1>6, <2>1 DEF HeuristicToolParsers, DetectedTools
<1>8. FromItsBullet(q)
  BY <1>1, <1>3, <1>4, <1>5, <1>7 DEF FromItsBullet, Awaits
<1>9. feedTools(h, content) = Turns[q]
  BY <1>1, <1>2, <1>6 DEF feedTools, HeuristicToolParsers
<1> QED
  BY <1>7, <1>8, <1>9, TurnsIs DEF WaitingParsers

-----------------------------------------------------------------------------
(* The stream of text: nothing else is held.                               *)

\* f says what has become of the items and the second parser after some of the chunks.
Routes(f, k, base, yielded) ==
    f = [s \in SUBSET (1..k) |->
           IF s = {} THEN base ELSE Route(f[s \ {Max(s)}], yielded[Max(s)])]

\* What has become of them is what Route makes of what it was before.
LEMMA RoutesAt ==
    ASSUME NEW f, NEW k, NEW base, NEW yielded, Routes(f, k, base, yielded)
    PROVE  /\ f[{}] = base
           /\ \A s \in SUBSET (1..k) :
                s # {} => f[s] = Route(f[s \ {Max(s)}], yielded[Max(s)])
BY DEF Routes

\* The recursion has a solution for any number of chunks.
LEMMA RoutesExist ==
    ASSUME NEW base, NEW yielded, NEW n \in Nat
    PROVE  \E f : Routes(f, n, base, yielded)
<1> DEFINE Bad == {k \in Nat : ~\E f : Routes(f, k, base, yielded)}
<1>1. SUFFICES ASSUME Bad # {} PROVE FALSE
  OBVIOUS
<1>2. PICK k \in Bad : \A j \in Bad : k <= j
  <2>1. Bad \in SUBSET Nat
    OBVIOUS
  <2> HIDE DEF Bad
  <2> QED
    BY <1>1, <2>1, Least
<1>3. 0 \notin Bad
  <2> DEFINE f == [s \in SUBSET (1..0) |-> base]
  <2>1. SUBSET (1..0) = {{}}
    OBVIOUS
  <2>2. f = [s \in SUBSET (1..0) |->
               IF s = {} THEN base ELSE Route(f[s \ {Max(s)}], yielded[Max(s)])]
    BY <2>1
  <2>3. Routes(f, 0, base, yielded)
    BY <2>2 DEF Routes
  <2> HIDE DEF f
  <2> QED
    BY <2>3
<1>4. k \in Nat /\ k >= 1 /\ k - 1 \in Nat /\ k - 1 \notin Bad
  <2>1. k \in Nat /\ k # 0
    BY <1>2, <1>3
  <2>2. k - 1 \in Nat /\ k - 1 < k
    BY <2>1
  <2> HIDE DEF Bad
  <2> QED
    BY <1>2, <2>1, <2>2
<1>5. PICK f : Routes(f, k - 1, base, yielded)
  BY <1>4
<1> DEFINE g == [s \in SUBSET (1..k) |->
                   IF k \in s THEN Route(f[s \ {k}], yielded[k]) ELSE f[s]]
<1>6. \A s \in SUBSET (1..k) : k \notin s => s \in SUBSET (1..(k - 1))
  BY <1>4
<1>7. g[{}] = base
  BY <1>5, RoutesAt
<1>8. ASSUME NEW s \in SUBSET (1..k), s # {}
      PROVE  g[s] = Route(g[s \ {Max(s)}], yielded[Max(s)])
  <2>1. Max(s) \in s /\ \A y \in s : y <= Max(s)
    BY <1>4, <1>8, MaxIs
  <2>2. CASE k \in s
    <3>1. Max(s) = k
      <4>1. Max(s) \in 1..k /\ k <= Max(s)
        BY <2>1, <2>2
      <4> QED
        BY <4>1, <1>4
    <3>2. s \ {k} \in SUBSET (1..k) /\ k \notin s \ {k}
      OBVIOUS
    <3> QED
      BY <2>2, <3>1, <3>2
  <2>3. CASE k \notin s
    <3>1. s \in SUBSET (1..(k - 1)) /\ s \ {Max(s)} \in SUBSET (1..k) /\ k \notin s \ {Max(s)}
      BY <1>6, <2>3
    <3>2. f[s] = Route(f[s \ {Max(s)}], yielded[Max(s)])
      <4>1. PICK j : j = k - 1
        OBVIOUS
      <4>2. Routes(f, j, base, yielded) /\ s \in SUBSET (1..j)
        BY <1>5, <3>1, <4>1
      <4>3. \A r \in SUBSET (1..j) : r # {} => f[r] = Route(f[r \ {Max(r)}], yielded[Max(r)])
        BY <4>2 DEF Routes
      <4> QED
        BY <1>8, <4>2, <4>3
    <3> QED
      BY <2>3, <3>1, <3>2
  <2> QED
    BY <2>2, <2>3
<1>9. Routes(g, k, base, yielded)
  <2>1. g = [s \in SUBSET (1..k) |-> g[s]]
    OBVIOUS
  <2>2. \A s \in SUBSET (1..k) :
          g[s] = IF s = {} THEN base ELSE Route(g[s \ {Max(s)}], yielded[Max(s)])
    BY <1>7, <1>8
  <2> HIDE DEF g
  <2> QED
    BY <2>1, <2>2 DEF Routes
<1> HIDE DEF g
<1> QED
  BY <1>2, <1>9

\* What is routed on keeps a parser that waits.
Routed(o) == o = [parser |-> o.parser, items |-> o.items] /\ o.parser \in WaitingParsers

\* So does a chunk, and so do all.
LEMMA RouteIs ==
    ASSUME NEW o, Routed(o), NEW chunk \in ContentChunks PROVE Routed(Route(o, chunk))
<1>1. PICK h, i : h = o.parser /\ i = o.items
  OBVIOUS
<1>2. o = [parser |-> h, items |-> i] /\ h \in WaitingParsers /\ chunk.content \in Texts
  BY <1>1 DEF Routed, ContentChunks
<1>3. CASE chunk.type = "thinking"
  <2>1. Route(o, chunk) = [parser |-> h, items |-> i \o EmitText("thinking", chunk.content)]
    BY <1>2, <1>3 DEF Route
  <2> QED
    BY <1>2, <2>1 DEF Routed
<1>4. CASE chunk.type # "thinking"
  <2>1. PICK q : q = feedTools(h, chunk.content)
    OBVIOUS
  <2>2. q \in WaitingParsers
    BY <1>2, <2>1, FeedToolsIs
  <2>3. Route(o, chunk) =
          [parser |-> q, items |-> i \o EmitText("text", q.shown) \o OfTools(q.tools)]
    BY <1>2, <1>4, <2>1 DEF Route
  <2> QED
    BY <2>2, <2>3 DEF Routed
<1> QED
  BY <1>3, <1>4

LEMMA FoldRoutes ==
    ASSUME NEW yielded \in Seq(ContentChunks), NEW base, Routed(base)
    PROVE  Routed(FoldLeft(Route, base, yielded))
<1> DEFINE n == Len(yielded)
           Eq(it) == it = [s \in SUBSET (DOMAIN yielded) |->
                        IF s = {} THEN base
                        ELSE LET x == Max(s) IN Route(it[s \ {x}], yielded[x])]
           iter == CHOOSE it : Eq(it)
<1>1. FoldLeft(Route, base, yielded) = iter[DOMAIN yielded]
  BY DEF FoldLeft, MapThenFoldSet
<1>2. n \in Nat /\ DOMAIN yielded = 1..n /\ \A i \in 1..n : yielded[i] \in ContentChunks
  OBVIOUS
<1>3. Routes(iter, n, base, yielded)
  <2>1. \A it : Eq(it) <=> Routes(it, n, base, yielded)
    <3> HIDE DEF n
    <3> QED
      BY <1>2 DEF Routes
  <2>2. \E it : Routes(it, n, base, yielded)
    BY <1>2, RoutesExist
  <2> HIDE DEF Eq
  <2> QED
    BY <2>1, <2>2
<1> HIDE DEF iter
<1> DEFINE size == [k \in 0..n |-> k]
           Good == {k \in 0..n : Routed(iter[1..k])}
<1>4. size \in [0..n -> Nat]
  OBVIOUS
<1>5. ASSUME NEW k \in 0..n, \A j \in 0..n : size[j] < size[k] => j \in Good PROVE k \in Good
  <2>1. CASE k = 0
    <3>1. 1..k = {}
      BY <2>1
    <3>2. iter[{}] = base
      BY <1>3, RoutesAt
    <3> QED
      BY <3>1, <3>2
  <2>2. CASE k # 0
    <3>1. k \in Nat /\ k >= 1 /\ k - 1 \in 0..n /\ size[k - 1] < size[k]
      BY <1>2, <2>2
    <3>2. Routed(iter[1..(k - 1)])
      BY <1>5, <3>1
    <3>3. PICK s : s = 1..k
      OBVIOUS
    <3>4. s # {} /\ k \in s /\ s \in SUBSET (1..k) /\ s \in SUBSET (1..n)
      <4>1. k \in 1..k /\ k <= n
        BY <1>2, <3>1
      <4>2. \A i \in 1..k : i \in 1..n
        BY <1>2, <3>1, <4>1
      <4> QED
        BY <3>3, <4>1, <4>2
    <3>5. Max(s) = k
      <4>1. Max(s) \in s /\ \A y \in s : y <= Max(s)
        BY <3>1, <3>4, MaxIs
      <4>2. Max(s) \in 1..k /\ k <= Max(s)
        BY <3>4, <4>1
      <4> QED
        BY <3>1, <4>2
    <3>6. s \ {k} = 1..(k - 1)
      BY <3>1, <3>3
    <3>7. iter[s] = Route(iter[s \ {Max(s)}], yielded[Max(s)])
      BY <1>3, <3>4, RoutesAt
    <3>8. yielded[k] \in ContentChunks
      BY <1>2, <3>1
    <3>9. iter[1..k] = Route(iter[1..(k - 1)], yielded[k])
      BY <3>3, <3>5, <3>6, <3>7
    <3>10. Routed(iter[1..k])
      BY <3>2, <3>8, <3>9, RouteIs, Zenon
    <3> QED
      BY <3>10
  <2> QED
    BY <2>1, <2>2
<1>6. \A k \in 0..n : k \in Good
  <2> DEFINE D == 0..n
  <2>1. /\ size \in [D -> Nat]
        /\ \A k \in D : (\A j \in D : size[j] < size[k] => j \in Good) => k \in Good
    BY <1>4, <1>5
  <2> HIDE DEF D, Good, size
  <2>2. \A k \in D : k \in Good
    BY <2>1, MeasureInduction
  <2> QED
    BY <2>2 DEF D
<1> QED
  BY <1>1, <1>2, <1>6

\* Until the stream ends the second parser waits.
HeldSoFar == ~ended => heuristic_parser \in WaitingParsers

\* It waits when a stream begins, and after every chunk.
LEMMA InitHeld == TextInit => HeldSoFar
<1>1. NewHeuristicToolParser \in HeuristicToolParsers
  <2>1. <<>> \in Texts /\ <<>> \in Assignments /\ <<>> \in Seq(DetectedTools)
    BY EmptySeq DEF Texts, Assignments
  <2> QED
    BY <2>1 DEF NewHeuristicToolParser, HeuristicToolParsers, ParserState, DetectedTools
<1>2. Awaits(NewHeuristicToolParser)
  BY DEF Awaits, NewHeuristicToolParser
<1> QED
  BY <1>1, <1>2 DEF TextInit, HeldSoFar, WaitingParsers

LEMMA ReceiveHolds == TextTypes /\ HeldSoFar /\ Receive => HeldSoFar'
<1> SUFFICES ASSUME TextTypes, HeldSoFar, Receive PROVE HeldSoFar'
  OBVIOUS
<1>1. PICK n \in 1..Len(rest) :
        heuristic_parser' =
          FoldLeft(Route, [parser |-> heuristic_parser, items |-> items],
                   feed(think_parser, SubSeq(rest, 1, n)).yielded).parser
  BY DEF Receive
<1>2. rest \in Texts /\ think_parser \in ThinkTagParsers /\ heuristic_parser \in WaitingParsers
  BY DEF TextTypes, HeldSoFar, Receive
<1>3. PICK content, yielded :
        content = SubSeq(rest, 1, n) /\ yielded = feed(think_parser, content).yielded
  OBVIOUS
<1>4. content \in Texts
  <2>1. 1 \in Nat \ {0} /\ n \in Int /\ n <= Len(rest)
    BY <1>2 DEF Texts
  <2> QED
    BY <1>2, <1>3, <2>1, PartIs
<1>5. yielded \in Seq(ContentChunks)
  BY <1>2, <1>3, <1>4, FeedIs, ParsersAre
<1>6. PICK base : base = [parser |-> heuristic_parser, items |-> items]
  OBVIOUS
<1>7. Routed(base)
  BY <1>2, <1>6 DEF Routed
<1>8. PICK out : out = FoldLeft(Route, base, yielded)
  OBVIOUS
<1>9. Routed(out)
  BY <1>5, <1>7, <1>8, FoldRoutes
<1>10. heuristic_parser' = out.parser
  BY <1>1, <1>3, <1>6, <1>8
<1> QED
  BY <1>9, <1>10 DEF Routed, HeldSoFar

\* Between two deltas ThinkTagParser and HeuristicToolParser hold back no more than what may
\* be the beginning of a tag, of a control token, of a call up to the limit or, in a call and
\* without a limit, of a parameter (core/anthropic/thinking.py and tools.py, feed).
THEOREM NothingElseIsHeldHolds == TextSpec => []NothingElseIsHeld
<1>1. TextTypes /\ HeldSoFar /\ [TextNext]_textVars => HeldSoFar'
  <2> SUFFICES ASSUME TextTypes, HeldSoFar, [TextNext]_textVars PROVE HeldSoFar'
    OBVIOUS
  <2>1. CASE Receive
    BY <2>1, ReceiveHolds
  <2>2. CASE EndText
    BY <2>2 DEF EndText, HeldSoFar
  <2>3. CASE UNCHANGED textVars
    BY <2>3 DEF textVars, HeldSoFar
  <2> QED
    BY <2>1, <2>2, <2>3 DEF TextNext
<1>2. ReadSoFar /\ HeldSoFar => NothingElseIsHeld
  <2> SUFFICES ASSUME ReadSoFar, HeldSoFar, ~ended
               PROVE  NothingElseIsHeld
    BY DEF NothingElseIsHeld
  <2>1. \E tag \in {OPEN_TAG, CLOSE_TAG} : IsStrictPrefix(think_parser.buffer, tag)
    BY DEF ReadSoFar, BeginsTag
  <2>2. Awaits(heuristic_parser)
    BY DEF HeldSoFar, WaitingParsers
  <2> QED
    BY <2>1, <2>2 DEF NothingElseIsHeld, Awaits, Bulleted
<1> QED
  BY <1>1, <1>2, InitHeld, ReadInvariance, PTL DEF TextSpec
=============================================================================
