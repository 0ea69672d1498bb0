---------------------------- MODULE ChatProofs ----------------------------
(***************************************************************************)
(* What holds of a chat: of what it is shown of an answer, and of the      *)
(* voice notes in it.                                                      *)
(*                                                                         *)
(* The transcript keeps blocks apart, its stack of subagents follows the   *)
(* Tasks that wait, a subagent's text is hidden, and what is rendered      *)
(* fits.  Two inductive invariants carry this.  BlockInv says which        *)
(* segment each block that is streamed goes to and that its events are new *)
(* to all segments; StackInv says which Tasks the stack, the line that was *)
(* read and the CLI know of, with ids and without.                         *)
(*                                                                         *)
(* Of a voice note, what a /clear says is true: VoiceInv says where a note *)
(* can have been when it was cancelled.                                    *)
(***************************************************************************)
EXTENDS Transcript, VoiceNotes, SequenceTheorems, FiniteSetTheorems, WellFoundedInduction, TLAPS

-----------------------------------------------------------------------------
(* The invariant of blocks and segments.                                   *)

SegmentRecord ==
    [kind : {"text", "thinking", "tool_call", "subagent", "error"}, size : Nat, fed : SUBSET Nat]

OpenRecord == [tool : Nat, thinking : Nat, text : Nat]

ResultId(k) == Append(TaskId(k), "result")
MadeUp(k) == <<"__task_", k>>
CallIds == {Blank} \cup Ids
StackIds == Ids \cup {MadeUp(k) : k \in Nat}
EventIds == CallIds \cup {ResultId(k) : k \in 1..MaxTasks}

Event ==
    [type : {"start", "delta", "stop", "chunk", "result", "error", "complete"},
     index : Index \cup {-1}, kind : {"text", "thinking", "tool", "none"},
     name : {"tool", "Task"}, id : EventIds, block : Nat, inTask : BOOLEAN]

\* Types, with what the provers need of them.
Shapes ==
    /\ style \in [stream : BOOLEAN, ids : {"given", "omitted", "absent"}]
    /\ blocks \in [Index -> [n : Nat, kind : Kinds \cup {"none", "ended"}]]
    /\ started \in 0..MaxTasks /\ sent \in 0..MaxEvents
    /\ waiting \in Seq(Nat) /\ \A w \in 1..Len(waiting) : waiting[w] \in 1..started
    /\ overtaken \in BOOLEAN /\ had \in BOOLEAN
    /\ phase \in {"running", "exited", "over"}
    /\ parsed \in Seq(Event)
    /\ segments \in Seq(SegmentRecord)
    /\ open \in [Index -> OpenRecord]
    /\ unclosed \subseteq Nat
    /\ names \in [Ids -> {"none", "tool", "Task"}]
    /\ subagents \in Seq([id : StackIds, segment : Nat])

\* Indices refer to segments that exist.
Pointers ==
    /\ \A i \in Index : \A k \in {"text", "thinking"} :
          /\ open[i][k] <= Len(segments)
          /\ open[i][k] # 0 => segments[open[i][k]].kind = k
    /\ \A k \in 1..Len(subagents) :
          /\ subagents[k].segment \in 1..Len(segments)
          /\ segments[subagents[k].segment].kind = "subagent"

ToolKind(kind) == IF kind = "task" THEN "tool" ELSE kind

\* The events of the line that was read last, and what they have to do with the stream.
EventOK(p) ==
    LET ev == parsed[p]
    IN  /\ ev.type \in {"start", "delta"} =>
              /\ Len(parsed) = 1 /\ ev.index \in Index
              /\ ev.block # 0 /\ blocks[ev.index].n = ev.block
              /\ ev.kind = ToolKind(blocks[ev.index].kind) /\ blocks[ev.index].kind \in Kinds
        /\ ev.type = "stop" =>
              Len(parsed) = 1 /\ ev.index \in Index /\ ev.kind = "none" /\ blocks[ev.index].n = 0
        /\ ev.type = "chunk" =>
              /\ ev.block \in 1..sent /\ ev.kind # "none"
              /\ \A i \in Index : blocks[i].n # ev.block
        /\ ev.type \in {"start", "chunk"} => ev.id \in CallIds
        /\ ev.type = "result" => Len(parsed) = 1 /\ MessageOver /\ ev.kind = "tool"
        /\ ev.type \in {"error", "complete"} => ev.kind = "none"
        /\ ev.type = "complete" => p = Len(parsed) /\ phase = "exited"

Lines ==
    /\ Len(parsed) <= 2
    /\ phase = "over" => parsed = <<>>
    /\ phase = "exited" => parsed # <<>> /\ parsed[Len(parsed)].type = "complete"
    /\ \A p \in 1..Len(parsed) : EventOK(p)
    /\ \A i \in Index : blocks[i].n \in 0..sent
    /\ \A i \in Index : blocks[i].n # 0 => blocks[i].kind \in Kinds
    /\ \A i, j \in Index : blocks[i].n = blocks[j].n /\ blocks[i].n # 0 => i = j

AtMostOne(o) ==
    /\ o.tool # 0 => o.thinking = 0 /\ o.text = 0
    /\ o.thinking # 0 => o.text = 0

Unfed(b) == \A j \in 1..Len(segments) : b \notin segments[j].fed

Starting(i) == parsed # <<>> /\ parsed[1].type = "start" /\ parsed[1].index = i

\* Where the text of the block that is streamed with index i goes: to the segment that is
\* open there, or nowhere until the message ends.
Streamed(i, k) ==
    phase = "running" /\ blocks[i].n # 0 /\ blocks[i].kind = k =>
        \/ /\ open[i][k] # 0 /\ ~Starting(i)
           /\ segments[open[i][k]].fed \subseteq {blocks[i].n}
           /\ \A j \in 1..Len(segments) : blocks[i].n \in segments[j].fed => j = open[i][k]
        \/ (subagents # <<>> \/ Starting(i)) /\ Unfed(blocks[i].n)

Apart ==
    /\ \A j, k \in 1..Len(segments) :
          \A b \in segments[j].fed : b \in segments[k].fed => j = k
    /\ \A j \in 1..Len(segments) : \A b, c \in segments[j].fed : b = c
    /\ phase # "over" => \A j \in 1..Len(segments) : segments[j].fed \subseteq 1..sent
    /\ \A j \in 1..Len(segments) : segments[j].fed \subseteq 1..(sent + 1)

OpenApart ==
    /\ \A i \in Index : AtMostOne(open[i]) /\ open[i].tool <= sent
    /\ \A i, j \in Index : open[i].tool = open[j].tool /\ open[i].tool # 0 => i = j
    /\ \A i, j \in Index : open[i].text = open[j].text /\ open[i].text # 0 => i = j
    /\ \A i, j \in Index : open[i].thinking = open[j].thinking /\ open[i].thinking # 0 => i = j
    /\ \A i, j \in Index : open[i].thinking # 0 => open[i].thinking # open[j].text
    /\ unclosed = {open[i].tool : i \in Index} \ {0}

Fresh ==
    /\ \A p \in 1..Len(parsed) : parsed[p].type \in {"start", "chunk"} => Unfed(parsed[p].block)
    /\ \A p \in 1..Len(parsed) : parsed[p].type = "start" =>
          \A i \in Index : open[i].tool # parsed[p].block
    /\ \A p, q \in 1..Len(parsed) : parsed[p].type = "chunk" /\ parsed[q].type = "chunk"
          /\ parsed[p].block = parsed[q].block => p = q

BlockInv == Shapes /\ Pointers /\ Lines /\ Apart /\ OpenApart /\ Fresh
              /\ \A i \in Index : Streamed(i, "text") /\ Streamed(i, "thinking")

-----------------------------------------------------------------------------
(* The lines of the CLI.                                                   *)

\* Cardinalities of sets of up to two elements.
LEMMA SmallSets ==
    /\ Cardinality({}) = 0
    /\ \A x : Cardinality({x}) = 1
    /\ Cardinality({1, 2}) = 2
<1>1. Cardinality({}) = 0 /\ IsFiniteSet({})
  BY FS_EmptySet
<1>2. \A x : Cardinality({x}) = 1 /\ IsFiniteSet({x})
  BY FS_Singleton
<1>3. Cardinality({1} \cup {2}) = 2
  <2> DEFINE one == {1}
  <2>1. IsFiniteSet(one) /\ Cardinality(one) = 1 /\ 2 \notin one
    BY <1>2
  <2> HIDE DEF one
  <2>2. Cardinality(one \cup {2}) = 2
    BY <2>1, FS_AddElement
  <2> QED
    BY <2>2 DEF one
<1>4. {1, 2} = {1} \cup {2}
  OBVIOUS
<1> QED
  BY <1>1, <1>2, <1>3, <1>4

\* A whole message is of one block or of two.
LEMMA Contents ==
    ASSUME NEW content \in SeqOf(Kinds, 2) \ {<<>>}
    PROVE  /\ content \in Seq(Kinds) /\ Len(content) \in 1..2
           /\ content = <<content[1]>> \/ content = <<content[1], content[2]>>
<1>1. PICK m \in 0..2 : content \in [1..m -> Kinds]
  BY DEF SeqOf
<1>2. content \in Seq(Kinds) /\ Len(content) = m
  BY <1>1, SeqDef
<1>3. m # 0
  BY <1>2, EmptySeq
<1> QED
  BY <1>1, <1>2, <1>3

\* How many Tasks one block, or two, start.
LEMMA TasksInOne ==
    ASSUME NEW a
    PROVE  TasksIn(<<a>>) = IF a = "task" THEN 1 ELSE 0
<1>1. {j \in DOMAIN <<a>> : <<a>>[j] = "task"} = IF a = "task" THEN {1} ELSE {}
  OBVIOUS
<1> QED
  BY <1>1, SmallSets DEF TasksIn

\* How many Tasks start in two blocks.
LEMMA TasksInTwo ==
    ASSUME NEW a, NEW b
    PROVE  TasksIn(<<a, b>>) = (IF a = "task" THEN 1 ELSE 0) + (IF b = "task" THEN 1 ELSE 0)
<1> DEFINE tasks == {j \in DOMAIN <<a, b>> : <<a, b>>[j] = "task"}
<1>1. CASE a = "task" /\ b = "task"
  <2>1. tasks = {1, 2}
    BY <1>1
  <2> QED
    BY <1>1, <2>1, SmallSets DEF TasksIn
<1>2. CASE a = "task" /\ b # "task"
  <2>1. tasks = {1}
    BY <1>2
  <2> QED
    BY <1>2, <2>1, SmallSets DEF TasksIn
<1>3. CASE a # "task" /\ b = "task"
  <2>1. tasks = {2} /\ Cardinality({2}) = 1
    BY <1>3, SmallSets
  <2> QED
    BY <1>3, <2>1 DEF TasksIn
<1>4. CASE a # "task" /\ b # "task"
  <2>1. tasks = {}
    BY <1>4
  <2> QED
    BY <1>4, <2>1, SmallSets DEF TasksIn
<1> QED
  BY <1>1, <1>2, <1>3, <1>4

\* A message starts at most two Tasks.
LEMMA TasksInFew ==
    ASSUME NEW content, NEW a, NEW b, content = <<a>> \/ content = <<a, b>>
    PROVE  TasksIn(content) \in 0..2
BY TasksInOne, TasksInTwo

\* The Tasks of a line wait from then on.
LEMMA TasksWait ==
    ASSUME NEW content, TasksIn(content) \in 0..2, started \in 0..MaxTasks, waiting \in Seq(Nat),
           StartTasks(content)
    PROVE  /\ started' = started + TasksIn(content)
           /\ started' \in 0..MaxTasks /\ waiting' \in Seq(Nat)
           /\ (\A w \in 1..Len(waiting) : waiting[w] \in 1..started)
                => \A w \in 1..Len(waiting') : waiting'[w] \in 1..started'
           /\ Len(waiting') = Len(waiting) + TasksIn(content)
           /\ \A w \in 1..Len(waiting) : waiting'[w] = waiting[w]
           /\ \A j \in 1..TasksIn(content) : waiting'[Len(waiting) + j] = started + j
<1> DEFINE n == TasksIn(content)
           new == [j \in 1..n |-> started + j]
<1>1. MaxTasks \in Nat
  BY TranscriptAssumption
<1>2. new \in Seq(Nat) /\ Len(new) = n
  BY <1>1, SeqDef
<1>3. waiting' = waiting \o new /\ started' = started + n /\ started' <= MaxTasks
  BY DEF StartTasks
<1>4. \A j \in 1..n : new[j] = started + j
  OBVIOUS
<1>5. n \in 0..2
  OBVIOUS
<1> HIDE DEF n, new
<1>6. /\ waiting' \in Seq(Nat) /\ Len(waiting') = Len(waiting) + n /\ Len(waiting) \in Nat
      /\ \A w \in 1..Len(waiting') :
            waiting'[w] = IF w <= Len(waiting) THEN waiting[w] ELSE new[w - Len(waiting)]
  BY <1>2, <1>3, ConcatProperties
<1>7. \A w \in 1..Len(waiting') : w > Len(waiting) => w - Len(waiting) \in 1..n
  BY <1>5, <1>6
<1>8. /\ \A w \in 1..Len(waiting) : waiting'[w] = waiting[w]
      /\ \A j \in 1..n : waiting'[Len(waiting) + j] = started + j
  <2>1. ASSUME NEW w \in 1..Len(waiting) PROVE waiting'[w] = waiting[w]
    BY <1>5, <1>6
  <2>2. ASSUME NEW j \in 1..n PROVE waiting'[Len(waiting) + j] = started + j
    <3>1. PICK w : w = Len(waiting) + j
      OBVIOUS
    <3>2. w \in 1..Len(waiting') /\ ~(w <= Len(waiting)) /\ w - Len(waiting) = j
      BY <1>5, <1>6, <3>1
    <3>3. waiting'[w] = new[w - Len(waiting)]
      BY <1>6, <3>2
    <3>4. waiting'[w] = new[j]
      BY <3>2, <3>3, Zenon
    <3> QED
      BY <1>4, <3>1, <3>4, Zenon
  <2> QED
    BY <2>1, <2>2
<1>9. (\A w \in 1..Len(waiting) : waiting[w] \in 1..started)
        => \A w \in 1..Len(waiting') : waiting'[w] \in 1..started'
  <2>1. SUFFICES ASSUME \A w \in 1..Len(waiting) : waiting[w] \in 1..started,
                        NEW w \in 1..Len(waiting')
                 PROVE  waiting'[w] \in 1..started'
    OBVIOUS
  <2>2. CASE w <= Len(waiting)
    <3>1. waiting'[w] = waiting[w] /\ w \in 1..Len(waiting)
      BY <1>6, <2>2
    <3> QED
      BY <1>3, <1>5, <2>1, <3>1
  <2>3. CASE ~(w <= Len(waiting))
    <3>1. PICK j \in 1..n : j = w - Len(waiting)
      BY <1>7, <2>3
    <3>2. waiting'[w] = started + j
      BY <1>4, <1>6, <2>3, <3>1
    <3> QED
      BY <1>3, <1>5, <3>1, <3>2
  <2> QED
    BY <2>2, <2>3
<1> QED
  BY <1>1, <1>3, <1>5, <1>6, <1>8, <1>9 DEF n

\* What a line leaves alone.
AfterLine(cost) ==
    /\ phase = "running" /\ parsed = <<>>
    /\ sent \in Nat /\ sent' = sent + cost /\ sent' \in 0..MaxEvents
    /\ UNCHANGED <<style, had, segments, open, unclosed, names, subagents>>

\* A line of the CLI changes nothing of what the buffer holds.
LEMMA LineKeeps ==
    ASSUME BlockInv, NEW cost \in 0..2, Line(cost)
    PROVE  /\ AfterLine(cost) /\ Pointers' /\ OpenApart'
           /\ phase' # "over" => Apart'
<1> USE TranscriptAssumption DEF BlockInv, Shapes, Line, bufferVars
<1>1. Pointers'
  BY DEF Pointers
<1>2. OpenApart'
  BY DEF OpenApart, AtMostOne, OpenRecord
<1>3. /\ Apart /\ phase = "running" /\ sent <= sent' /\ UNCHANGED segments
      /\ sent \in Nat /\ sent' \in Nat
  OBVIOUS
<1>4. phase' # "over" => Apart'
  <2>1. \A j \in 1..Len(segments) : segments[j].fed \subseteq 1..sent /\ segments[j].fed \subseteq 1..sent'
                                   /\ segments[j].fed \subseteq 1..(sent' + 1)
    <3>1. \A n \in 1..sent : n \in 1..sent' /\ n \in 1..(sent' + 1)
      BY <1>3
    <3> QED
      BY <1>3, <3>1 DEF Apart
  <2>2. /\ \A j, k \in 1..Len(segments) : \A x \in segments[j].fed : x \in segments[k].fed => j = k
        /\ \A j \in 1..Len(segments) : \A x, y \in segments[j].fed : x = y
    BY <1>3 DEF Apart
  <2> HIDE DEF BlockInv, Shapes, Line
  <2> QED
    BY <1>3, <2>1, <2>2 DEF Apart
<1> QED
  BY <1>1, <1>2, <1>4 DEF AfterLine

\* A line of one event.
LEMMA OneEvent ==
    ASSUME NEW e \in Event, NEW p, p = <<e>>
    PROVE  p \in Seq(Event) /\ Len(p) = 1 /\ p[1] = e /\ p # <<>>
OBVIOUS

\* The parser makes an event.
LEMMA ParsedEvent ==
    ASSUME waiting \in Seq(Nat), NEW type, NEW i \in Index \cup {-1},
           NEW kind \in Kinds \cup {"none"}, NEW id \in EventIds, NEW n \in Nat,
           type \in {"start", "delta", "stop", "chunk", "result", "error", "complete"},
           NEW e, e = Parsed(type, i, kind, id, n)
    PROVE  /\ e \in Event
           /\ e.type = type /\ e.index = i /\ e.id = id /\ e.block = n
           /\ e.kind = ToolKind(kind) /\ e.name = IF kind = "task" THEN "Task" ELSE "tool"
           /\ e.inTask = (waiting # <<>>)
<1>1. (waiting # <<>>) \in BOOLEAN
  OBVIOUS
<1> DEFINE b == waiting # <<>>
<1>2. e = [type |-> type, index |-> i, kind |-> ToolKind(kind),
           name |-> IF kind = "task" THEN "Task" ELSE "tool",
           id |-> id, block |-> n, inTask |-> b]
  BY Zenon DEF Parsed, ToolKind
<1>3. b \in BOOLEAN
  OBVIOUS
<1>4. ToolKind(kind) \in {"text", "thinking", "tool", "none"}
  BY DEF ToolKind, Kinds
<1> HIDE DEF b
<1>5. e \in Event
  BY <1>2, <1>3, <1>4 DEF Event
<1>6. e.inTask = b
  BY <1>2
<1>7. e.inTask = (waiting # <<>>)
  BY <1>6, Zenon DEF b
<1> HIDE <1>6
<1> QED
  BY <1>2, <1>5, <1>7

\* A block starts: its number is new, so nothing was fed from it yet.
LEMMA BlockStartInv ==
    ASSUME BlockInv, NEW i \in Index, NEW kind \in Kinds, NEW tool \in ToolIds,
           BlockStart(i, kind, tool)
    PROVE  BlockInv'
<1>n. PICK n : n = sent + 1
  OBVIOUS
<1>e. PICK e : e = Parsed("start", i, kind, CallId(kind, tool, started + 1), n)
  OBVIOUS
<1>1. /\ Line(1) /\ parsed' = <<e>> /\ UNCHANGED <<overtaken, phase>>
      /\ blocks' = [blocks EXCEPT ![i] = [n |-> n, kind |-> kind]]
      /\ StartTasks(<<kind>>)
  BY <1>n, <1>e DEF BlockStart
<1>a. AfterLine(1) /\ Pointers' /\ OpenApart' /\ Apart'
  BY <1>1, LineKeeps DEF AfterLine
<1>b. Shapes /\ Lines /\ Apart /\ OpenApart
  BY DEF BlockInv
<1>2. /\ started' \in 0..MaxTasks /\ waiting' \in Seq(Nat)
      /\ \A w \in 1..Len(waiting') : waiting'[w] \in 1..started'
      /\ kind = "task" => started + 1 \in 1..MaxTasks
  <2>1. TasksIn(<<kind>>) \in 0..2 /\ (kind = "task" => TasksIn(<<kind>>) = 1)
    BY TasksInOne
  <2>2. started' = started + TasksIn(<<kind>>) /\ started' <= MaxTasks
    BY <1>1 DEF StartTasks
  <2> QED
    <3>1. /\ started' \in 0..MaxTasks /\ waiting' \in Seq(Nat)
          /\ \A w \in 1..Len(waiting') : waiting'[w] \in 1..started'
      BY <1>1, <1>b, <2>1, TasksWait DEF Shapes
    <3>2. started \in Nat /\ MaxTasks \in Nat
      BY <1>b, TranscriptAssumption DEF Shapes
    <3> QED
      BY <2>1, <2>2, <3>1, <3>2
<1>3. /\ CallId(kind, tool, started + 1) \in CallIds
      /\ CallId(kind, tool, started + 1) \in EventIds
  BY <1>2 DEF EventIds, CallIds, CallId, Ids
<1>4. /\ e \in Event /\ e.type = "start" /\ e.index = i /\ e.block = n
      /\ e.kind = ToolKind(kind) /\ e.id \in CallIds
  BY <1>3, <1>a, <1>b, <1>n, <1>e, ParsedEvent DEF Shapes, AfterLine
<1>c. n \in Nat /\ n = sent' /\ n > sent
  BY <1>n, <1>a DEF AfterLine
<1>5. parsed' \in Seq(Event) /\ Len(parsed') = 1 /\ parsed'[1] = e /\ parsed' # <<>>
  BY <1>1, <1>4, OneEvent
<1>6. Shapes'
  <2>1. blocks' \in [Index -> [n : Nat, kind : Kinds \cup {"none", "ended"}]]
    BY <1>1, <1>c, <1>a, <1>b DEF Shapes, AfterLine
  <2> QED
    BY <1>1, <1>2, <1>5, <1>c, <1>a, <1>b, <2>1 DEF Shapes, AfterLine
<1>7. Lines'
  <2>1. \A j \in Index : blocks'[j] = IF j = i THEN [n |-> n, kind |-> kind] ELSE blocks[j]
    BY <1>1, <1>b DEF Shapes
  <2>2. EventOK(1)'
    BY <1>1, <1>4, <1>5, <1>a, <1>c, <2>1 DEF AfterLine, EventOK
  <2>3. /\ \A j \in Index : blocks'[j].n \in 0..sent'
        /\ \A j \in Index : blocks'[j].n # 0 => blocks'[j].kind \in Kinds
        /\ \A j, k \in Index : blocks'[j].n = blocks'[k].n /\ blocks'[j].n # 0 => j = k
    BY <1>c, <1>a, <1>b, <2>1 DEF AfterLine, Lines
  <2> QED
    BY <1>1, <1>5, <1>a, <2>2, <2>3 DEF Lines, AfterLine
<1>9. Fresh'
  <2>1. Unfed(n)' /\ \A j \in Index : open'[j].tool # n
    BY <1>c, <1>4, <1>c, <1>a, <1>b DEF AfterLine, Unfed, Apart, OpenApart
  <2> QED
    BY <1>4, <1>5, <2>1 DEF Fresh, Unfed
<1>10. ASSUME NEW j \in Index, NEW k \in {"text", "thinking"} PROVE Streamed(j, k)'
  <2>1. CASE j = i
    <3>1. Starting(i)' /\ blocks'[i].n = n /\ Unfed(n)'
      BY <1>1, <1>4, <1>5, <1>c, <1>a, <1>b DEF AfterLine, Unfed, Apart, Starting, Shapes
    <3> QED
      BY <2>1, <3>1 DEF Streamed
  <2>2. CASE j # i
    <3>1. /\ ~Starting(j) /\ ~Starting(j)' /\ blocks'[j] = blocks[j]
          /\ UNCHANGED <<phase, segments, open, subagents>>
      BY <1>1, <1>4, <1>5, <1>c, <1>a, <1>b, <2>2 DEF AfterLine, Starting, Shapes
    <3>2. Streamed(j, k)
      BY DEF BlockInv
    <3> QED
      BY <3>1, <3>2 DEF Streamed, Unfed
  <2> QED
    BY <2>1, <2>2
<1> QED
  BY <1>6, <1>7, <1>a, <1>9, <1>10 DEF BlockInv

\* A line with which no block starts.
LEMMA LineBlockInv ==
    ASSUME BlockInv, NEW cost \in 0..2, Line(cost),
           phase' \in {"running", "exited"},
           \A i \in Index : blocks'[i] = blocks[i] \/ blocks'[i].n = 0,
           \A p \in 1..Len(parsed') : parsed'[p].type # "start",
           Shapes', Lines', Fresh'
    PROVE  BlockInv'
<1>1. AfterLine(cost) /\ Pointers' /\ OpenApart' /\ Apart'
  BY LineKeeps
<1>2. ASSUME NEW i \in Index, NEW k \in {"text", "thinking"} PROVE Streamed(i, k)'
  <2>1. ~Starting(i) /\ UNCHANGED <<segments, open, subagents>> /\ phase = "running"
    BY <1>1 DEF AfterLine, Starting
  <2>2. ~Starting(i)'
    <3>1. parsed' # <<>> => 1 \in 1..Len(parsed')
      BY DEF Shapes
    <3> QED
      BY <3>1 DEF Starting
  <2>3. Streamed(i, k)
    BY DEF BlockInv
  <2> QED
    BY <2>1, <2>2, <2>3 DEF Streamed, Unfed
<1> QED
  BY <1>1, <1>2 DEF BlockInv

\* What a line is made of that neither starts a block nor a Task.
LEMMA OneLine ==
    ASSUME BlockInv, NEW cost \in 0..1, Line(cost), NEW e \in Event, parsed' = <<e>>,
           e.type \in {"delta", "stop", "result", "error"},
           UNCHANGED phase, started' = started, waiting' \in Seq(Nat),
           \A w \in 1..Len(waiting') : waiting'[w] \in 1..started, overtaken' \in BOOLEAN,
           blocks' \in [Index -> [n : Nat, kind : Kinds \cup {"none", "ended"}]],
           \A i \in Index : blocks'[i] = blocks[i] \/ blocks'[i].n = 0,
           EventOK(1)'
    PROVE  BlockInv'
<1>1. AfterLine(cost) /\ cost \in 0..2
  BY LineKeeps
<1>2. parsed' \in Seq(Event) /\ Len(parsed') = 1 /\ parsed'[1] = e
  BY OneEvent
<1>3. Shapes'
  BY <1>1, <1>2, TranscriptAssumption DEF AfterLine, BlockInv, Shapes
<1>4. Lines'
  <2>1. Lines /\ sent' >= sent /\ sent \in Nat /\ phase' = "running"
    BY <1>1, TranscriptAssumption DEF AfterLine, BlockInv
  <2>a. \A i \in Index : blocks'[i].n \in 0..sent'
    BY <1>1, <2>1 DEF Lines, AfterLine
  <2>b. \A i, j \in Index : blocks'[i].n = blocks'[j].n /\ blocks'[i].n # 0 => i = j
    BY <2>1 DEF Lines
  <2>c. \A i \in Index : blocks'[i].n # 0 => blocks'[i].kind \in Kinds
    BY <2>1 DEF Lines
  <2> QED
    BY <1>2, <2>1, <2>a, <2>b, <2>c DEF Lines
<1>5. Fresh'
  BY <1>2 DEF Fresh
<1> QED
  BY <1>1, <1>2, <1>3, <1>4, <1>5, LineBlockInv DEF AfterLine

\* A delta belongs to the block that is streamed with its index.
LEMMA BlockDeltaInv ==
    ASSUME BlockInv, NEW i \in Index, BlockDelta(i)
    PROVE  BlockInv'
<1>1. PICK e : e = Parsed("delta", i, blocks[i].kind, Blank, blocks[i].n)
  OBVIOUS
<1>2. /\ Line(1) /\ parsed' = <<e>> /\ blocks[i].n # 0
      /\ UNCHANGED <<blocks, started, waiting, overtaken, phase>>
  BY <1>1 DEF BlockDelta
<1>3. Shapes /\ Lines
  BY DEF BlockInv
<1>4. blocks[i].kind \in Kinds /\ blocks[i].n \in Nat
  BY <1>2, <1>3 DEF Lines, Shapes
<1>5. /\ e \in Event /\ e.type = "delta" /\ e.index = i /\ e.block = blocks[i].n
      /\ e.kind = ToolKind(blocks[i].kind)
  BY <1>1, <1>3, <1>4, ParsedEvent DEF Shapes, EventIds, CallIds
<1>6. parsed' \in Seq(Event) /\ Len(parsed') = 1 /\ parsed'[1] = e
  BY <1>2, <1>5, OneEvent
<1>7. EventOK(1)'
  BY <1>2, <1>4, <1>5, <1>6 DEF EventOK
<1> QED
  BY <1>2, <1>3, <1>5, <1>7, OneLine DEF Shapes

\* A block ends, whether or not the CLI says so.
LEMMA BlockStopInv ==
    ASSUME BlockInv, NEW i \in Index, BlockStop(i)
    PROVE  BlockInv'
<1>1. PICK e : e = Parsed("stop", i, "none", Blank, 0)
  OBVIOUS
<1>2. /\ Line(1) /\ parsed' = <<e>> /\ blocks' = [blocks EXCEPT ![i] = Ended]
      /\ UNCHANGED <<started, waiting, overtaken, phase>>
  BY <1>1 DEF BlockStop
<1>3. Shapes
  BY DEF BlockInv
<1>4. waiting \in Seq(Nat) /\ Blank \in EventIds
  BY <1>3 DEF Shapes, EventIds, CallIds
<1>5. e \in Event /\ e.type = "stop" /\ e.index = i /\ e.kind = ToolKind("none")
  BY <1>1, <1>4, ParsedEvent
<1>6. parsed' \in Seq(Event) /\ Len(parsed') = 1 /\ parsed'[1] = e
  BY <1>2, <1>5, OneEvent
<1>7. EventOK(1)'
  BY <1>2, <1>3, <1>5, <1>6 DEF EventOK, ToolKind, Shapes, Ended
<1>8. /\ blocks' \in [Index -> [n : Nat, kind : Kinds \cup {"none", "ended"}]]
      /\ \A j \in Index : blocks'[j] = blocks[j] \/ blocks'[j].n = 0
  BY <1>2, <1>3 DEF Shapes, Ended
<1> QED
  BY <1>2, <1>3, <1>5, <1>7, <1>8, OneLine DEF Shapes

\* A message ends; the blocks that were streamed are gone, the indices stay open.
LEMMA MessageStopInv ==
    ASSUME BlockInv, MessageStop
    PROVE  BlockInv'
<1>1. Line(0) /\ AfterLine(0) /\ Shapes /\ Lines
  BY LineKeeps DEF BlockInv, MessageStop
<1>2. /\ blocks' = [i \in Index |-> NoBlock] /\ parsed' = <<>> /\ Len(parsed') = 0
      /\ UNCHANGED <<started, waiting, overtaken, phase>>
  BY <1>1 DEF MessageStop, AfterLine
<1>3. Shapes'
  BY <1>1, <1>2 DEF Shapes, AfterLine, NoBlock
<1>4. Lines'
  BY <1>1, <1>2 DEF Lines, NoBlock, AfterLine
<1>5. Fresh'
  BY <1>2 DEF Fresh
<1> QED
  BY <1>1, <1>2, <1>3, <1>4, <1>5, LineBlockInv DEF NoBlock, AfterLine

\* How many Tasks the first blocks of a message start.
LEMMA TasksUpTo ==
    ASSUME NEW content, NEW a, NEW b, content = <<a>> \/ content = <<a, b>>
    PROVE  /\ Len(content) \in 1..2 /\ DOMAIN content = 1..Len(content)
           /\ content[1] = a /\ (Len(content) = 2 => content[2] = b)
           /\ TasksIn(SubSeq(content, 1, 1)) = (IF a = "task" THEN 1 ELSE 0)
           /\ Len(content) = 2 =>
                TasksIn(SubSeq(content, 1, 2))
                  = (IF a = "task" THEN 1 ELSE 0) + (IF b = "task" THEN 1 ELSE 0)
           /\ TasksIn(content) = TasksIn(SubSeq(content, 1, Len(content)))
           /\ TasksIn(content) \in 0..2
<1>1. content \in Seq({a, b}) /\ Len(content) \in 1..2 /\ content[1] = a
      /\ (Len(content) = 2 => content = <<a, b>> /\ content[2] = b)
      /\ (Len(content) = 1 => content = <<a>>)
  <2>1. CASE content = <<a>>
    BY <2>1
  <2>2. CASE content = <<a, b>>
    BY <2>2
  <2> QED
    BY <2>1, <2>2
<1>2. SubSeq(content, 1, 1) = <<a>>
  <2> DEFINE s == SubSeq(content, 1, 1)
  <2>1. s \in Seq({a, b}) /\ Len(s) = 1 /\ s[1] = a
    BY <1>1, SubSeqProperties
  <2> HIDE DEF s
  <2>2. s = <<a>>
    BY <2>1
  <2> QED
    BY <2>2 DEF s
<1>3. SubSeq(content, 1, Len(content)) = content
  BY <1>1, SubSeqFull
<1>4. DOMAIN content = 1..Len(content)
  BY <1>1
<1>5. CASE Len(content) = 1
  <2>1. TasksIn(content) = TasksIn(<<a>>) /\ TasksIn(SubSeq(content, 1, 1)) = TasksIn(<<a>>)
    BY <1>1, <1>2, <1>5
  <2>2. TasksIn(<<a>>) = IF a = "task" THEN 1 ELSE 0
    BY TasksInOne
  <2> QED
    BY <1>1, <1>4, <1>5, <2>1, <2>2
<1>6. CASE Len(content) = 2
  <2>1. TasksIn(SubSeq(content, 1, 2)) = TasksIn(<<a, b>>)
        /\ TasksIn(SubSeq(content, 1, 1)) = TasksIn(<<a>>)
    BY <1>1, <1>2, <1>3, <1>6
  <2>2. TasksIn(content) = TasksIn(<<a, b>>)
    BY <1>1, <1>6
  <2> QED
    BY <1>1, <1>3, <1>4, <1>6, <2>1, <2>2, TasksInOne, TasksInTwo
<1> QED
  BY <1>1, <1>5, <1>6

\* The events of a whole message.
LEMMA Chunks ==
    ASSUME BlockInv, NEW content \in SeqOf(Kinds, 2) \ {<<>>}, NEW tool \in ToolIds,
           AssistantMessage(content, tool)
    PROVE  /\ Len(parsed') = Len(content) /\ Len(content) \in 1..2 /\ parsed' \in Seq(Event)
           /\ \A j \in 1..Len(content) :
                /\ content[j] \in Kinds
                /\ parsed'[j].type = "chunk" /\ parsed'[j].block = sent + j
                /\ parsed'[j].kind = ToolKind(content[j])
                /\ parsed'[j].name = IF content[j] = "task" THEN "Task" ELSE "tool"
                /\ parsed'[j].id = CallId(content[j], tool,
                                          started + TasksIn(SubSeq(content, 1, j)))
                /\ parsed'[j].id \in CallIds
                /\ parsed'[j].inTask = (waiting # <<>>)
                /\ content[j] = "task" =>
                     started + TasksIn(SubSeq(content, 1, j)) \in 1..MaxTasks
<1>1. /\ content \in Seq(Kinds)
      /\ content = <<content[1]>> \/ content = <<content[1], content[2]>>
  BY Contents
<1> DEFINE a == content[1]
           b == content[2]
<1>a. content = <<a>> \/ content = <<a, b>>
  BY <1>1
<1> HIDE DEF a, b
<1>2. /\ Len(content) \in 1..2 /\ DOMAIN content = 1..Len(content)
      /\ content[1] = a /\ (Len(content) = 2 => content[2] = b)
      /\ TasksIn(SubSeq(content, 1, 1)) = (IF a = "task" THEN 1 ELSE 0)
      /\ Len(content) = 2 =>
           TasksIn(SubSeq(content, 1, 2))
             = (IF a = "task" THEN 1 ELSE 0) + (IF b = "task" THEN 1 ELSE 0)
      /\ TasksIn(content) = TasksIn(SubSeq(content, 1, Len(content)))
  BY <1>a, TasksUpTo
<1>3. /\ started \in Nat /\ MaxTasks \in Nat /\ started + TasksIn(content) <= MaxTasks
      /\ sent \in Nat
  BY TranscriptAssumption DEF BlockInv, Shapes, AssistantMessage, StartTasks
<1>4. \A j \in 1..Len(content) :
         /\ content[j] \in Kinds
         /\ content[j] = "task" => started + TasksIn(SubSeq(content, 1, j)) \in 1..MaxTasks
  <2>1. \A j \in 1..Len(content) : j = 1 \/ (j = 2 /\ Len(content) = 2)
    BY <1>2
  <2>2. content[1] = "task" => started + TasksIn(SubSeq(content, 1, 1)) \in 1..MaxTasks
    <3>1. CASE Len(content) = 1
      BY <1>2, <1>3, <3>1
    <3>2. CASE Len(content) = 2
      BY <1>2, <1>3, <3>2
    <3> QED
      BY <1>2, <3>1, <3>2
  <2>3. Len(content) = 2 /\ content[2] = "task"
          => started + TasksIn(SubSeq(content, 1, 2)) \in 1..MaxTasks
    BY <1>2, <1>3
  <2>4. \A j \in 1..Len(content) : content[j] \in Kinds
    BY <1>1
  <2> QED
    BY <2>1, <2>2, <2>3, <2>4
<1> DEFINE id(j) == CallId(content[j], tool, started + TasksIn(SubSeq(content, 1, j)))
           e(j) == Parsed("chunk", -1, content[j], id(j), sent + j)
<1>5. parsed' = [j \in 1..Len(content) |-> e(j)]
  BY <1>2 DEF AssistantMessage
<1>6. ASSUME NEW j \in 1..Len(content) PROVE id(j) \in CallIds /\ id(j) \in EventIds
  <2>1. CASE content[j] = "task"
    BY <1>4, <2>1 DEF CallId, CallIds, EventIds, Ids
  <2>2. CASE content[j] # "task"
    BY <2>2 DEF CallId, CallIds, EventIds, Ids
  <2> QED
    BY <2>1, <2>2
<1> HIDE DEF id
<1>7. ASSUME NEW j \in 1..Len(content)
      PROVE  /\ e(j) \in Event
             /\ e(j).type = "chunk" /\ e(j).id = id(j) /\ e(j).block = sent + j
             /\ e(j).kind = ToolKind(content[j])
             /\ e(j).name = IF content[j] = "task" THEN "Task" ELSE "tool"
             /\ e(j).inTask = (waiting # <<>>)
  <2>1. PICK n \in Nat : n = sent + j
    BY <1>2, <1>3
  <2>2. e(j) = Parsed("chunk", -1, content[j], id(j), n)
    BY <2>1
  <2>3. waiting \in Seq(Nat) /\ content[j] \in Kinds /\ id(j) \in EventIds
    BY <1>4, <1>6 DEF BlockInv, Shapes
  <2> HIDE DEF e
  <2> QED
    BY <2>1, <2>2, <2>3, ParsedEvent
<1> HIDE DEF e
<1>8. parsed' \in Seq(Event) /\ Len(parsed') = Len(content)
  <2>1. parsed' \in [1..Len(content) -> Event]
    BY <1>5, <1>7
  <2> QED
    BY <1>2, <2>1, SeqDef
<1>9. \A j \in 1..Len(content) : parsed'[j] = e(j)
  BY <1>5
<1> QED
  <2>1. ASSUME NEW j \in 1..Len(content)
        PROVE  /\ parsed'[j].type = "chunk" /\ parsed'[j].block = sent + j
               /\ parsed'[j].kind = ToolKind(content[j])
               /\ parsed'[j].name = IF content[j] = "task" THEN "Task" ELSE "tool"
               /\ parsed'[j].id = CallId(content[j], tool,
                                         started + TasksIn(SubSeq(content, 1, j)))
    BY <1>7, <1>9 DEF id
  <2>2. \A j \in 1..Len(content) : parsed'[j].inTask = (waiting # <<>>)
    BY <1>7, <1>9, Zenon
  <2>3. \A j \in 1..Len(content) : parsed'[j].id \in CallIds
    BY <1>6, <1>7, <1>9
  <2> QED
    BY <1>2, <1>4, <1>8, <2>1, <2>2, <2>3

\* A whole message: its blocks are new and are not streamed.
LEMMA AssistantMessageInv ==
    ASSUME BlockInv, NEW content \in SeqOf(Kinds, 2) \ {<<>>}, NEW tool \in ToolIds,
           AssistantMessage(content, tool)
    PROVE  BlockInv'
<1> DEFINE m == Len(content)
<1>1. /\ m \in 1..2 /\ parsed' \in Seq(Event) /\ Len(parsed') = m
      /\ \A j \in 1..m : /\ content[j] \in Kinds
                         /\ parsed'[j].type = "chunk" /\ parsed'[j].block = sent + j
                         /\ parsed'[j].kind = ToolKind(content[j])
                         /\ parsed'[j].id \in CallIds
  BY Chunks
<1>2. Line(m) /\ StartTasks(content) /\ UNCHANGED <<blocks, overtaken, phase>>
  BY DEF AssistantMessage
<1> HIDE DEF m
<1>3. m \in 0..2
  BY <1>1
<1>4. /\ AfterLine(m) /\ Shapes /\ Lines /\ Apart /\ phase = "running"
      /\ sent \in Nat /\ sent' = sent + m
  BY <1>2, <1>3, LineKeeps DEF BlockInv, AfterLine
<1>5. TasksIn(content) \in 0..2
  BY Contents, TasksUpTo
<1>6. /\ started' \in 0..MaxTasks /\ waiting' \in Seq(Nat)
      /\ \A w \in 1..Len(waiting') : waiting'[w] \in 1..started'
  BY <1>2, <1>4, <1>5, TasksWait DEF Shapes
<1>7. Shapes'
  BY <1>1, <1>2, <1>4, <1>6 DEF Shapes, AfterLine
<1>8. Lines'
  <2>1. \A j \in 1..Len(parsed') : EventOK(j)'
    <3>1. ASSUME NEW j \in 1..Len(parsed') PROVE EventOK(j)'
      <4>1. /\ parsed'[j].type = "chunk" /\ parsed'[j].block \in 1..sent'
            /\ parsed'[j].kind # "none" /\ parsed'[j].id \in CallIds
        BY <1>1, <1>4 DEF ToolKind, Kinds
      <4>2. \A i \in Index : blocks'[i].n # parsed'[j].block
        BY <1>1, <1>2, <1>4 DEF Lines
      <4> QED
        BY <4>1, <4>2 DEF EventOK
    <3> QED
      BY <3>1
  <2>2. /\ \A i \in Index : blocks'[i].n \in 0..sent'
        /\ \A i, j \in Index : blocks'[i].n = blocks'[j].n /\ blocks'[i].n # 0 => i = j
        /\ \A i \in Index : blocks'[i].n # 0 => blocks'[i].kind \in Kinds
    BY <1>1, <1>2, <1>4 DEF Lines
  <2> QED
    BY <1>1, <1>2, <1>4, <2>1, <2>2 DEF Lines
<1>9. Fresh'
  <2>1. \A j \in 1..Len(parsed') : \A k \in 1..Len(segments) :
           parsed'[j].block \notin segments[k].fed
    BY <1>1, <1>4 DEF Apart
  <2>2. \A j, k \in 1..Len(parsed') : parsed'[j].block = parsed'[k].block => j = k
    BY <1>1, <1>4
  <2>3. \A j \in 1..Len(parsed') : parsed'[j].type # "start"
    BY <1>1
  <2> QED
    BY <1>4, <2>1, <2>2, <2>3 DEF Fresh, Unfed, AfterLine
<1> QED
  BY <1>1, <1>2, <1>3, <1>4, <1>7, <1>8, <1>9, LineBlockInv

\* What is left of a sequence without its w-th element, element by element.
LEMMA RemoveAtIs ==
    ASSUME NEW s \in Seq(Nat), NEW w \in 1..Len(s)
    PROVE  /\ RemoveAt(s, w) \in Seq(Nat) /\ Len(RemoveAt(s, w)) = Len(s) - 1
           /\ \A j \in 1..(Len(s) - 1) : RemoveAt(s, w)[j] = IF j < w THEN s[j] ELSE s[j + 1]
<1> DEFINE a == SubSeq(s, 1, w - 1)
           b == SubSeq(s, w + 1, Len(s))
<1>1. Len(s) \in Nat /\ w \in Nat
  OBVIOUS
<1>2. a \in Seq(Nat) /\ Len(a) = w - 1 /\ \A j \in 1..(w - 1) : a[j] = s[j]
  BY <1>1, SubSeqProperties
<1>3. b \in Seq(Nat) /\ Len(b) = Len(s) - w /\ \A j \in 1..(Len(s) - w) : b[j] = s[w + j]
  <2>1. w + 1 \in Int /\ Len(s) \in Int /\ \A i \in (w + 1)..Len(s) : s[i] \in Nat
    BY <1>1
  <2>2. /\ b \in Seq(Nat)
        /\ Len(b) = IF w + 1 <= Len(s) THEN Len(s) - (w + 1) + 1 ELSE 0
        /\ \A j \in 1..(Len(s) - (w + 1) + 1) : b[j] = s[w + 1 + j - 1]
    BY <2>1, SubSeqProperties, SMTT(30)
  <2> HIDE DEF b
  <2>3. /\ Len(b) = Len(s) - w
        /\ \A j \in 1..(Len(s) - w) : j \in 1..(Len(s) - (w + 1) + 1) /\ w + 1 + j - 1 = w + j
    BY <1>1, <2>2
  <2> QED
    BY <2>2, <2>3
<1>4. RemoveAt(s, w) = a \o b
  BY DEF RemoveAt
<1> HIDE DEF a, b
<1>5. /\ a \o b \in Seq(Nat) /\ Len(a \o b) = Len(s) - 1
      /\ \A j \in 1..(Len(s) - 1) : (a \o b)[j] = IF j <= w - 1 THEN a[j] ELSE b[j - (w - 1)]
  <2>1. Len(a) + Len(b) = Len(s) - 1
    BY <1>1, <1>2, <1>3
  <2>2. /\ a \o b \in Seq(Nat) /\ Len(a \o b) = Len(a) + Len(b)
        /\ \A j \in 1..(Len(a) + Len(b)) :
              (a \o b)[j] = IF j <= Len(a) THEN a[j] ELSE b[j - Len(a)]
    BY <1>2, <1>3, ConcatProperties
  <2> QED
    BY <1>2, <2>1, <2>2
<1>6. ASSUME NEW j \in 1..(Len(s) - 1)
      PROVE  (a \o b)[j] = IF j < w THEN s[j] ELSE s[j + 1]
  <2>1. CASE j < w
    BY <1>1, <1>2, <1>5, <2>1
  <2>2. CASE ~(j < w)
    <3>1. PICK n : n = j - (w - 1)
      OBVIOUS
    <3>2. n \in 1..(Len(s) - w) /\ w + n = j + 1
      BY <1>1, <2>2, <3>1
    <3>3. (a \o b)[j] = b[n]
      BY <1>1, <1>5, <2>2, <3>1
    <3>4. b[n] = s[j + 1]
      BY <1>3, <3>2
    <3> QED
      BY <2>2, <3>3, <3>4
  <2> QED
    BY <2>1, <2>2
<1> QED
  BY <1>4, <1>5, <1>6

\* The ids by which the CLI may answer a Task.
LEMMA ResultIdType ==
    ASSUME NEW k \in 1..MaxTasks, NEW id \in ResultIds(k)
    PROVE  /\ id \in EventIds
           /\ style.ids = "given" => id \in {TaskId(k), ResultId(k)}
           /\ style.ids = "omitted" => id = TaskId(k)
           /\ style.ids \notin {"given", "omitted"} => id = Blank
BY DEF ResultIds, EventIds, CallIds, Ids, ResultId

\* A result comes between messages.
LEMMA ResultLine ==
    ASSUME BlockInv, MessageOver, Line(1), NEW id \in EventIds,
           parsed' = <<Parsed("result", -1, "tool", id, 0)>>,
           UNCHANGED <<blocks, started, phase>>, waiting' \in Seq(Nat), overtaken' \in BOOLEAN,
           \A w \in 1..Len(waiting') : waiting'[w] \in 1..started
    PROVE  /\ BlockInv'
           /\ Len(parsed') = 1 /\ parsed'[1].type = "result" /\ parsed'[1].id = id
           /\ parsed'[1].kind = "tool"
<1>1. PICK e : e = Parsed("result", -1, "tool", id, 0)
  OBVIOUS
<1>a. Shapes /\ waiting \in Seq(Nat) /\ "tool" \in Kinds \cup {"none"}
  BY DEF BlockInv, Shapes, Kinds
<1>2. /\ e \in Event /\ e.type = "result" /\ e.index = -1 /\ e.kind = ToolKind("tool")
      /\ e.id = id
  BY <1>1, <1>a, ParsedEvent
<1>3. parsed' = <<e>> /\ parsed' \in Seq(Event) /\ Len(parsed') = 1 /\ parsed'[1] = e
  BY <1>1, <1>2, OneEvent
<1>4. EventOK(1)'
  BY <1>2, <1>3 DEF EventOK, ToolKind, MessageOver
<1>b. blocks' \in [Index -> [n : Nat, kind : Kinds \cup {"none", "ended"}]]
  BY <1>a DEF Shapes
<1>5. BlockInv'
  BY <1>2, <1>3, <1>4, <1>b, OneLine
<1> QED
  BY <1>2, <1>3, <1>5 DEF ToolKind

\* A Task is answered.
LEMMA TaskResultInv ==
    ASSUME BlockInv, NEW w \in DOMAIN waiting, NEW id \in ResultIds(waiting[w]),
           TaskResult(w, id)
    PROVE  BlockInv'
<1>1. Shapes /\ w \in 1..Len(waiting) /\ waiting[w] \in 1..MaxTasks
  <2>1. Shapes /\ waiting \in Seq(Nat)
    BY DEF BlockInv, Shapes
  <2>2. w \in 1..Len(waiting)
    BY <2>1
  <2> QED
    BY <2>1, <2>2, TranscriptAssumption DEF Shapes
<1>2. id \in EventIds
  BY <1>1, ResultIdType
<1>3. waiting' \in Seq(Nat) /\ \A v \in 1..Len(waiting') : waiting'[v] \in 1..started
  <2>1. waiting' = RemoveAt(waiting, w)
    BY DEF TaskResult
  <2>2. /\ waiting \in Seq(Nat) /\ \A v \in 1..Len(waiting) : waiting[v] \in 1..started
        /\ Len(waiting) \in Nat
    BY <1>1 DEF Shapes
  <2>3. /\ waiting' \in Seq(Nat) /\ Len(waiting') = Len(waiting) - 1
        /\ \A j \in 1..(Len(waiting) - 1) :
              waiting'[j] = IF j < w THEN waiting[j] ELSE waiting[j + 1]
    BY <1>1, <2>1, <2>2, RemoveAtIs
  <2>4. ASSUME NEW v \in 1..Len(waiting') PROVE waiting'[v] \in 1..started
    <3>1. v \in 1..Len(waiting) /\ v + 1 \in 1..Len(waiting) /\ v \in 1..(Len(waiting) - 1)
      BY <2>2, <2>3
    <3> QED
      BY <2>2, <2>3, <3>1
  <2> QED
    BY <2>3, <2>4
<1>4. overtaken' \in BOOLEAN
  BY DEF TaskResult
<1> QED
  BY <1>2, <1>3, <1>4, ResultLine DEF TaskResult

\* A tool is answered.
LEMMA ToolResultInv ==
    ASSUME BlockInv, NEW tool \in ToolIds, ToolResult(tool)
    PROVE  BlockInv'
<1>1. <<tool>> \in EventIds
  BY DEF EventIds, CallIds, Ids
<1> QED
  BY <1>1, ResultLine DEF ToolResult, BlockInv, Shapes

\* The CLI reports an error.
LEMMA ErrorLineInv ==
    ASSUME BlockInv, ErrorLine
    PROVE  BlockInv'
<1>1. PICK e : e = Parsed("error", -1, "none", Blank, 0)
  OBVIOUS
<1>2. /\ Line(1) /\ parsed' = <<e>>
      /\ UNCHANGED <<blocks, started, waiting, overtaken, phase>>
  BY <1>1 DEF ErrorLine
<1>3. e \in Event /\ e.type = "error" /\ e.kind = ToolKind("none")
  BY <1>1, ParsedEvent DEF BlockInv, Shapes, EventIds, CallIds
<1>4. parsed' \in Seq(Event) /\ Len(parsed') = 1 /\ parsed'[1] = e
  BY <1>2, <1>3, OneEvent
<1>5. EventOK(1)'
  BY <1>3, <1>4 DEF EventOK, ToolKind
<1>6. /\ waiting' \in Seq(Nat) /\ overtaken' \in BOOLEAN
      /\ \A w \in 1..Len(waiting') : waiting'[w] \in 1..started
      /\ blocks' \in [Index -> [n : Nat, kind : Kinds \cup {"none", "ended"}]]
  BY <1>2 DEF BlockInv, Shapes
<1> QED
  BY <1>2, <1>3, <1>5, <1>6, OneLine

\* The events of the end: that the CLI failed, and that it is over.
LEMMA LastEvents ==
    ASSUME BlockInv, NEW failed \in BOOLEAN, Exit(failed)
    PROVE  /\ parsed' \in Seq(Event) /\ Len(parsed') \in 1..2
           /\ \A p \in 1..Len(parsed') :
                /\ parsed'[p].type = IF p = Len(parsed') THEN "complete" ELSE "error"
                /\ parsed'[p].kind = "none"
<1>1. PICK e : e = Parsed("error", -1, "none", Blank, 0)
  OBVIOUS
<1>2. PICK c : c = Parsed("complete", -1, "none", Blank, 0)
  OBVIOUS
<1>3. e \in Event /\ e.type = "error" /\ e.kind = "none"
  BY <1>1, ParsedEvent DEF BlockInv, Shapes, EventIds, CallIds, ToolKind
<1>4. c \in Event /\ c.type = "complete" /\ c.kind = "none"
  BY <1>2, ParsedEvent DEF BlockInv, Shapes, EventIds, CallIds, ToolKind
<1>5. CASE failed
  <2>1. parsed' = <<e>> \o <<c>>
    BY <1>1, <1>2, <1>5 DEF Exit
  <2>2. /\ <<e>> \in Seq(Event) /\ Len(<<e>>) = 1 /\ <<e>>[1] = e
        /\ <<c>> \in Seq(Event) /\ Len(<<c>>) = 1 /\ <<c>>[1] = c
    BY <1>3, <1>4
  <2>3. /\ parsed' \in Seq(Event) /\ Len(parsed') = 2
        /\ parsed'[1] = e /\ parsed'[2] = c
    BY <2>1, <2>2, ConcatProperties
  <2> QED
    BY <1>3, <1>4, <2>3
<1>6. CASE ~failed
  <2>1. parsed' = <<>> \o <<c>>
    BY <1>2, <1>6 DEF Exit
  <2>2. parsed' = <<c>>
    BY <2>1
  <2> QED
    BY <1>3, <1>4, <2>2
<1> QED
  BY <1>5, <1>6

\* The CLI exits.
LEMMA ExitInv ==
    ASSUME BlockInv, NEW failed \in BOOLEAN, Exit(failed)
    PROVE  BlockInv'
<1>1. Line(0) /\ phase' = "exited" /\ UNCHANGED <<blocks, started, waiting, overtaken>>
  BY DEF Exit
<1>2. AfterLine(0) /\ Shapes /\ Lines
  BY <1>1, LineKeeps DEF BlockInv
<1>3. /\ parsed' \in Seq(Event) /\ Len(parsed') \in 1..2
      /\ \A p \in 1..Len(parsed') :
           /\ parsed'[p].type = IF p = Len(parsed') THEN "complete" ELSE "error"
           /\ parsed'[p].kind = "none"
  BY LastEvents
<1>4. Shapes'
  BY <1>1, <1>2, <1>3 DEF Shapes, AfterLine
<1>5. Lines'
  <2>1. ASSUME NEW p \in 1..Len(parsed') PROVE EventOK(p)'
    BY <1>1, <1>3, <2>1 DEF EventOK
  <2>2. parsed' # <<>> /\ parsed'[Len(parsed')].type = "complete"
    BY <1>3
  <2> QED
    BY <1>1, <1>2, <1>3, <2>1, <2>2 DEF Lines, AfterLine
<1>6. Fresh'
  BY <1>3 DEF Fresh
<1> QED
  BY <1>1, <1>3, <1>4, <1>5, <1>6, LineBlockInv

\* Whatever the CLI prints.
LEMMA CliLineInv ==
    ASSUME BlockInv, CliLine
    PROVE  BlockInv'
BY AssistantMessageInv, BlockStartInv, BlockDeltaInv, BlockStopInv, MessageStopInv,
   TaskResultInv, ToolResultInv, ErrorLineInv, ExitInv DEF CliLine

-----------------------------------------------------------------------------
(* The handler's loop.                                                     *)

\* One turn of the loop, but for the buffer.
Turn(ev) ==
    /\ phase \in {"running", "exited"} /\ Len(parsed) \in 1..2
    /\ ev = parsed[1] /\ ev \in Event /\ EventOK(1)
    /\ parsed' \in Seq(Event) /\ Len(parsed') = Len(parsed) - 1
    /\ \A p \in 1..Len(parsed') : parsed'[p] = parsed[p + 1]
    /\ had' \in BOOLEAN /\ phase' \in {"running", "exited", "over"}
    /\ phase' # "over" => phase' = phase
    /\ phase' = "exited" => parsed' # <<>>
    /\ phase = "running" => phase' = "running"
    /\ UNCHANGED <<style, blocks, started, waiting, overtaken, sent>>

\* Whatever the handler does with an event, the event leaves the line it read.
LEMMA TurnIs ==
    ASSUME BlockInv, Process
    PROVE  Turn(Head(parsed)) /\ Lines' /\ \A i \in Index : ~Starting(i)'
<1> DEFINE ev == Head(parsed)
<1>1. /\ Shapes /\ Lines /\ parsed \in Seq(Event) /\ Len(parsed) \in 1..2
      /\ phase \in {"running", "exited"} /\ parsed # <<>>
  <2>1. Shapes /\ Lines /\ parsed \in Seq(Event) /\ Len(parsed) <= 2
    BY DEF BlockInv, Shapes, Lines
  <2>2. parsed # <<>> /\ phase \in {"running", "exited"}
    BY DEF Process
  <2>3. Len(parsed) \in Nat /\ Len(parsed) # 0
    BY <2>1, <2>2, EmptySeq, LenProperties
  <2>4. Len(parsed) \in 1..2
    <3> DEFINE m == Len(parsed)
    <3>1. m \in Nat /\ m # 0 /\ m <= 2
      BY <2>1, <2>3
    <3> HIDE DEF m
    <3>2. m \in 1..2
      BY <3>1
    <3> QED
      BY <3>2 DEF m
  <2> QED
    BY <2>1, <2>2, <2>4, Zenon
<1>2. /\ parsed' \in Seq(Event) /\ Len(parsed') = Len(parsed) - 1
      /\ \A p \in 1..Len(parsed') : parsed'[p] = parsed[p + 1]
      /\ ev = parsed[1] /\ ev \in Event
  BY <1>1, HeadTailProperties DEF Process
<1>3. had' \in BOOLEAN
  <2>1. had' = (had \/ Head(parsed).type # "complete")
    BY DEF Process
  <2> QED
    BY <2>1
<1>4. /\ phase' = IF phase = "exited" /\ parsed' = <<>> THEN "over" ELSE phase
      /\ UNCHANGED <<style, blocks, started, waiting, overtaken, sent>>
  BY DEF Process, cliVars
<1>5. EventOK(1)
  BY <1>1 DEF Lines
<1>6. Turn(ev)
  BY <1>1, <1>2, <1>3, <1>4, <1>5 DEF Turn
<1>7. ASSUME NEW p \in 1..Len(parsed') PROVE EventOK(p)' /\ parsed'[p].type # "start"
  <2>1. p = 1 /\ Len(parsed) = 2 /\ Len(parsed') = 1 /\ parsed'[1] = parsed[2]
    BY <1>1, <1>2
  <2>2. EventOK(2)
    BY <1>1, <2>1 DEF Lines
  <2>3. phase' = phase
    BY <1>2, <1>4, <2>1
  <2> QED
    BY <1>4, <2>1, <2>2, <2>3 DEF EventOK
<1>8. phase' = "exited" => parsed' # <<>> /\ parsed'[Len(parsed')].type = "complete"
  <2>1. SUFFICES ASSUME phase' = "exited" PROVE parsed'[Len(parsed')].type = "complete"
    BY <1>4
  <2>2. phase = "exited" /\ parsed' # <<>>
    BY <1>4, <2>1
  <2>3. Len(parsed') = 1 /\ Len(parsed) = 2 /\ parsed'[1] = parsed[2]
    BY <1>1, <1>2, <2>2
  <2> QED
    BY <1>1, <2>2, <2>3 DEF Lines
<1>9. Lines'
  <2>1. phase' = "over" => parsed' = <<>>
    BY <1>1, <1>4
  <2>2. \A p \in 1..Len(parsed') : EventOK(p)'
    BY <1>7
  <2>3. /\ \A i \in Index : blocks'[i].n \in 0..sent'
        /\ \A i, j \in Index : blocks'[i].n = blocks'[j].n /\ blocks'[i].n # 0 => i = j
        /\ \A i \in Index : blocks'[i].n # 0 => blocks'[i].kind \in Kinds
    BY <1>1, <1>4 DEF Lines
  <2> QED
    BY <1>1, <1>2, <1>8, <2>1, <2>2, <2>3 DEF Lines
<1>10. ASSUME NEW i \in Index PROVE ~Starting(i)'
  <2>1. parsed' # <<>> => 1 \in 1..Len(parsed')
    BY <1>2
  <2> QED
    BY <1>7, <2>1 DEF Starting
<1> QED
  BY <1>6, <1>9, <1>10

\* Some segment may be new, and nothing is fed to it or to those there were.
Grown ==
    /\ segments' \in Seq(SegmentRecord) /\ Len(segments') >= Len(segments)
    /\ \A j \in 1..Len(segments') : segments'[j].fed =
          IF j <= Len(segments) THEN segments[j].fed ELSE {}
    /\ \A j \in 1..Len(segments) : segments'[j].kind = segments[j].kind

\* A segment that is appended takes only what its event feeds it.
LEMMA GrownBy ==
    ASSUME Shapes, NEW kind \in {"text", "thinking", "tool_call", "subagent", "error"},
           NEW size \in Nat, NEW fed \in SUBSET Nat,
           segments' = Append(segments, NewSegment(kind, size, fed))
    PROVE  /\ segments' \in Seq(SegmentRecord) /\ Len(segments') = Len(segments) + 1
           /\ \A j \in 1..Len(segments) : segments'[j] = segments[j]
           /\ segments'[Len(segments')].kind = kind /\ segments'[Len(segments')].fed = fed
           /\ Len(segments) \in Nat
           /\ fed = {} => Grown
<1>1. NewSegment(kind, size, fed) \in SegmentRecord
  BY DEF NewSegment, SegmentRecord
<1>2. segments \in Seq(SegmentRecord) /\ Len(segments) \in Nat
  BY DEF Shapes
<1>3. /\ segments' \in Seq(SegmentRecord) /\ Len(segments') = Len(segments) + 1
      /\ \A j \in 1..Len(segments) : segments'[j] = segments[j]
      /\ segments'[Len(segments')] = NewSegment(kind, size, fed)
  BY <1>1, <1>2, AppendProperties
<1>4. segments'[Len(segments')].kind = kind /\ segments'[Len(segments')].fed = fed
  BY <1>3 DEF NewSegment
<1>5. fed = {} => Grown
  <2>1. \A j \in 1..Len(segments') : j \in 1..Len(segments) \/ j = Len(segments')
    BY <1>2, <1>3
  <2>2. ~(Len(segments') <= Len(segments)) /\ Len(segments') >= Len(segments)
    BY <1>2, <1>3
  <2>3. SUFFICES ASSUME fed = {} PROVE Grown
    OBVIOUS
  <2>4. ASSUME NEW j \in 1..Len(segments')
        PROVE  segments'[j].fed = IF j <= Len(segments) THEN segments[j].fed ELSE {}
    <3>1. CASE j \in 1..Len(segments)
      BY <1>3, <3>1
    <3>2. CASE j = Len(segments')
      BY <1>4, <2>2, <2>3, <3>2
    <3> QED
      BY <2>1, <3>1, <3>2
  <2>5. \A j \in 1..Len(segments) : segments'[j].kind = segments[j].kind
    BY <1>3
  <2> QED
    BY <1>3, <2>2, <2>4, <2>5 DEF Grown
<1> QED
  BY <1>2, <1>3, <1>4, <1>5

\* Then what is shown of a block stays apart.
LEMMA GrownApart ==
    ASSUME BlockInv, NEW ev, Turn(ev), Grown
    PROVE  Apart' /\ (\A b : Unfed(b) => Unfed(b)')
           /\ Fresh'
<1>1. Apart /\ Len(segments) \in Nat /\ Fresh /\ segments' \in Seq(SegmentRecord)
  BY DEF BlockInv, Shapes, Grown
<1>2. \A j \in 1..Len(segments') :
        \/ j \in 1..Len(segments) /\ segments'[j].fed = segments[j].fed
        \/ segments'[j].fed = {}
  BY <1>1 DEF Grown
<1>3. Apart'
  BY <1>1, <1>2 DEF Turn, Apart
<1>4. \A b : Unfed(b) => Unfed(b)'
  BY <1>2 DEF Unfed
<1>5. Fresh'
  <2>1. \A p \in 1..Len(parsed') : p = 1 /\ 2 \in 1..Len(parsed) /\ parsed'[p] = parsed[2]
    BY DEF Turn
  <2>2. \A p \in 1..Len(parsed') : parsed'[p].type # "start"
    <3>1. 2 \in 1..Len(parsed) => EventOK(2)
      BY DEF BlockInv, Lines
    <3> QED
      BY <2>1, <3>1 DEF EventOK, Turn
  <2>3. ASSUME NEW p \in 1..Len(parsed'), parsed'[p].type = "chunk"
        PROVE  \A j \in 1..Len(segments') : parsed'[p].block \notin segments'[j].fed
    <3>1. \A j \in 1..Len(segments) : parsed'[p].block \notin segments[j].fed
      BY <1>1, <2>1, <2>3 DEF Fresh, Unfed
    <3> QED
      BY <1>2, <3>1
  <2> QED
    BY <2>1, <2>2, <2>3 DEF Fresh, Unfed
<1> QED
  BY <1>3, <1>4, <1>5

BufferOK ==
    /\ segments \in Seq(SegmentRecord)
    /\ open \in [Index -> OpenRecord]
    /\ unclosed \subseteq Nat
    /\ names \in [Ids -> {"none", "tool", "Task"}]
    /\ subagents \in Seq([id : StackIds, segment : Nat])

\* The types of what a turn of the handler leaves alone.
LEMMA TurnShapes ==
    ASSUME BlockInv, NEW ev, Turn(ev), BufferOK'
    PROVE  Shapes'
BY DEF BlockInv, Shapes, Turn, BufferOK

\* A block of which nothing that is open changes.
LEMMA StreamedKeeps ==
    ASSUME BlockInv, NEW ev, Turn(ev), Grown, NEW i \in Index, NEW k \in {"text", "thinking"},
           ~Starting(i)', open'[i][k] = open[i][k],
           subagents # <<>> \/ Starting(i) => subagents' # <<>>
    PROVE  Streamed(i, k)'
<1>1. Streamed(i, k) /\ Pointers /\ Shapes /\ Len(segments) \in Nat
  BY DEF BlockInv, Shapes
<1>2. SUFFICES ASSUME phase' = "running", blocks[i].n # 0, blocks[i].kind = k
               PROVE  Streamed(i, k)'
  BY DEF Streamed, Turn
<1>3. phase = "running" /\ blocks' = blocks
  BY <1>2 DEF Turn
<1>4. CASE /\ open[i][k] # 0 /\ ~Starting(i)
           /\ segments[open[i][k]].fed \subseteq {blocks[i].n}
           /\ \A j \in 1..Len(segments) : blocks[i].n \in segments[j].fed => j = open[i][k]
  <2>1. open[i][k] \in 1..Len(segments)
    <3>1. open[i][k] \in Nat
      BY <1>1 DEF Shapes, OpenRecord
    <3> QED
      BY <1>1, <1>4, <3>1 DEF Pointers
  <2>2. segments'[open[i][k]].fed = segments[open[i][k]].fed
    BY <1>1, <2>1 DEF Grown
  <2>3. ASSUME NEW j \in 1..Len(segments'), blocks[i].n \in segments'[j].fed
        PROVE  j = open[i][k]
    <3>1. j \in 1..Len(segments) /\ segments'[j].fed = segments[j].fed
      BY <1>1, <2>3 DEF Grown
    <3> QED
      BY <1>4, <2>3, <3>1
  <2> QED
    BY <1>3, <1>4, <2>2, <2>3 DEF Streamed
<1>5. CASE (subagents # <<>> \/ Starting(i)) /\ Unfed(blocks[i].n)
  <2>1. subagents' # <<>>
    BY <1>5
  <2>2. ASSUME NEW j \in 1..Len(segments') PROVE blocks[i].n \notin segments'[j].fed
    BY <1>1, <1>5 DEF Grown, Unfed
  <2> QED
    BY <1>3, <2>1, <2>2 DEF Streamed, Unfed
<1> QED
  BY <1>1, <1>2, <1>3, <1>4, <1>5 DEF Streamed

\* Nothing that is open refers to what is gone, as nothing goes.
LEMMA PointersKeep ==
    ASSUME BlockInv, Grown, BufferOK',
           \A i \in Index : \A k \in {"text", "thinking"} :
              \/ open'[i][k] = 0
              \/ open'[i][k] = open[i][k]
              \/ open'[i][k] \in 1..Len(segments') /\ segments'[open'[i][k]].kind = k,
           \A k \in 1..Len(subagents') :
              \/ k \in 1..Len(subagents) /\ subagents'[k] = subagents[k]
              \/ /\ subagents'[k].segment \in 1..Len(segments')
                 /\ segments'[subagents'[k].segment].kind = "subagent"
    PROVE  Pointers'
<1>1. Pointers /\ Len(segments) \in Nat /\ Len(segments') \in Nat /\ Shapes
  BY DEF BlockInv, Shapes, BufferOK
<1>2. ASSUME NEW i \in Index, NEW k \in {"text", "thinking"}
      PROVE  /\ open'[i][k] <= Len(segments')
             /\ open'[i][k] # 0 => segments'[open'[i][k]].kind = k
  <2>1. CASE open'[i][k] = 0
    BY <1>1, <2>1
  <2>2. CASE open'[i][k] = open[i][k] /\ open[i][k] # 0
    <3>1. open[i][k] \in Nat
      BY <1>1 DEF Shapes, OpenRecord
    <3>2. open[i][k] \in 1..Len(segments) /\ segments[open[i][k]].kind = k
      BY <1>1, <2>2, <3>1 DEF Pointers
    <3> QED
      BY <1>1, <2>2, <3>2 DEF Grown
  <2>3. CASE open'[i][k] \in 1..Len(segments') /\ segments'[open'[i][k]].kind = k
    BY <1>1, <2>3
  <2> QED
    BY <2>1, <2>2, <2>3
<1>3. ASSUME NEW k \in 1..Len(subagents')
      PROVE  /\ subagents'[k].segment \in 1..Len(segments')
             /\ segments'[subagents'[k].segment].kind = "subagent"
  <2>1. CASE k \in 1..Len(subagents) /\ subagents'[k] = subagents[k]
    <3>1. /\ subagents[k].segment \in 1..Len(segments)
          /\ segments[subagents[k].segment].kind = "subagent"
      BY <1>1, <2>1 DEF Pointers
    <3> QED
      BY <1>1, <2>1, <3>1 DEF Grown
  <2> QED
    BY <1>3, <2>1
<1> QED
  BY <1>2, <1>3 DEF Pointers

\* An index is open for one block at most, so that its stop leaves nothing open.
LEMMA NothingLeft == ASSUME NEW o \in OpenRecord, AtMostOne(o) PROVE Stopped(o) = NothingOpen
BY DEF OpenRecord, AtMostOne, Stopped, NothingOpen

\* A turn in which nothing is fed, opened or put on the stack.
LEMMA IdleInv ==
    ASSUME BlockInv, Process, Grown, UNCHANGED <<open, unclosed, names, subagents>>,
           \A i \in Index : Starting(i) => subagents # <<>>
    PROVE  BlockInv'
<1>1. PICK ev : Turn(ev)
  BY TurnIs
<1>2. Lines' /\ \A i \in Index : ~Starting(i)'
  BY TurnIs
<1>3. BufferOK'
  BY DEF BlockInv, Shapes, BufferOK, Grown
<1>4. Shapes' /\ Pointers' /\ Apart' /\ Fresh'
  BY <1>1, <1>3, TurnShapes, PointersKeep, GrownApart DEF BufferOK
<1>5. OpenApart'
  BY <1>1 DEF BlockInv, OpenApart, Turn
<1>6. \A i \in Index : Streamed(i, "text")' /\ Streamed(i, "thinking")'
  BY <1>1, <1>2, StreamedKeeps
<1> QED
  BY <1>2, <1>4, <1>5, <1>6 DEF BlockInv

\* Segments that stay the same feed nobody.
LEMMA SameSegments == ASSUME Shapes, segments' = segments PROVE Grown
BY DEF Shapes, Grown

\* Text inside a Task is dropped.
LEMMA HideInv ==
    ASSUME BlockInv, Process, Hide(Head(parsed))
    PROVE  BlockInv'
BY IdleInv, SameSegments DEF BlockInv, Hide, bufferVars

\* Input of a tool is not shown.
LEMMA DeltaToolInv ==
    ASSUME BlockInv, Process, DeltaTool(Head(parsed))
    PROVE  BlockInv'
<1>1. Turn(Head(parsed))
  BY TurnIs
<1>2. \A i \in Index : ~Starting(i)
  BY <1>1 DEF DeltaTool, Turn, Starting
<1> QED
  BY <1>2, IdleInv, SameSegments DEF BlockInv, DeltaTool, bufferVars

\* An error is shown in a segment of its own.
LEMMA AppendErrorInv ==
    ASSUME BlockInv, Process, AppendError(Head(parsed))
    PROVE  BlockInv'
<1>1. Turn(Head(parsed)) /\ Shapes
  BY TurnIs DEF BlockInv
<1>2. \A i \in Index : ~Starting(i)
  BY <1>1 DEF AppendError, Turn, Starting
<1>3. Grown
  BY <1>1, GrownBy DEF AppendError
<1> QED
  BY <1>2, <1>3, IdleInv DEF AppendError

\* An index that is used for something else, or closed: what is open stays apart.
LEMMA Reopened ==
    ASSUME BlockInv, NEW ev, Turn(ev), NEW i \in Index, NEW o \in OpenRecord,
           AtMostOne(o), o.tool <= sent,
           o.tool # 0 => \A j \in Index : open[j].tool # o.tool,
           o.text # 0 => o.text > Len(segments),
           o.thinking # 0 => o.thinking > Len(segments),
           open' = [open EXCEPT ![i] = o],
           unclosed' = (unclosed \ {open[i].tool}) \cup ({o.tool} \ {0})
    PROVE  /\ OpenApart' /\ open' \in [Index -> OpenRecord] /\ unclosed' \subseteq Nat
           /\ \A j \in Index : open'[j] = IF j = i THEN o ELSE open[j]
<1>1. /\ OpenApart /\ Pointers /\ open \in [Index -> OpenRecord] /\ unclosed \subseteq Nat
      /\ Len(segments) \in Nat
  BY DEF BlockInv, Shapes
<1>2. \A j \in Index : open'[j] = IF j = i THEN o ELSE open[j]
  BY <1>1
<1>3. open' \in [Index -> OpenRecord] /\ unclosed' \subseteq Nat
  BY <1>1 DEF OpenRecord
<1>4. /\ \A j \in Index : AtMostOne(open'[j]) /\ open'[j].tool <= sent'
      /\ \A j, k \in Index : open'[j].tool = open'[k].tool /\ open'[j].tool # 0 => j = k
  BY <1>1, <1>2 DEF OpenApart, Turn
<1>5. \A j \in Index : /\ open[j].text <= Len(segments) /\ open[j].thinking <= Len(segments)
                       /\ open[j].text \in Nat /\ open[j].thinking \in Nat
  <2>1. \A j \in Index : open[j]["text"] <= Len(segments) /\ open[j]["thinking"] <= Len(segments)
    BY <1>1 DEF Pointers
  <2> QED
    BY <1>1, <2>1 DEF OpenRecord
<1>6. /\ o.text \in Nat /\ o.thinking \in Nat
      /\ o.thinking # 0 => o.text = 0
  BY DEF OpenRecord, AtMostOne
<1>7. \A j, k \in Index : open'[j].text = open'[k].text /\ open'[j].text # 0 => j = k
  BY <1>1, <1>2, <1>5, <1>6 DEF OpenApart
<1>8. \A j, k \in Index :
         open'[j].thinking = open'[k].thinking /\ open'[j].thinking # 0 => j = k
  BY <1>1, <1>2, <1>5, <1>6 DEF OpenApart
<1>9. \A j, k \in Index : open'[j].thinking # 0 => open'[j].thinking # open'[k].text
  <2>1. SUFFICES ASSUME NEW j \in Index, NEW k \in Index, open'[j].thinking # 0
                 PROVE  open'[j].thinking # open'[k].text
    OBVIOUS
  <2>2. CASE j = i /\ k = i
    BY <1>2, <1>6, <2>1, <2>2
  <2>3. CASE j = i /\ k # i
    BY <1>1, <1>2, <1>5, <1>6, <2>1, <2>3
  <2>4. CASE j # i /\ k = i
    BY <1>1, <1>2, <1>5, <1>6, <2>1, <2>4 DEF OpenApart
  <2>5. CASE j # i /\ k # i
    BY <1>1, <1>2, <2>1, <2>5 DEF OpenApart
  <2> QED
    BY <2>2, <2>3, <2>4, <2>5
<1>10. unclosed' = {open'[j].tool : j \in Index} \ {0}
  <2>1. unclosed = {open[j].tool : j \in Index} \ {0}
    BY <1>1 DEF OpenApart
  <2>2. \A j \in Index : j # i => open[j].tool # open[i].tool \/ open[j].tool = 0
    BY <1>1 DEF OpenApart
  <2>3. ASSUME NEW b \in unclosed' PROVE b \in {open'[j].tool : j \in Index} \ {0}
    <3>1. CASE b \in unclosed \ {open[i].tool}
      <4>1. PICK j \in Index : b = open[j].tool /\ b # 0 /\ j # i
        BY <2>1, <3>1
      <4> QED
        BY <1>2, <4>1
    <3>2. CASE b \in {o.tool} \ {0}
      BY <1>2, <3>2
    <3> QED
      BY <2>3, <3>1, <3>2
  <2>4. ASSUME NEW j \in Index, open'[j].tool # 0 PROVE open'[j].tool \in unclosed'
    <3>1. CASE j = i
      BY <1>2, <2>4, <3>1
    <3>2. CASE j # i
      BY <1>2, <2>1, <2>2, <2>4, <3>2
    <3> QED
      BY <3>1, <3>2
  <2> QED
    BY <2>3, <2>4
<1> QED
  BY <1>2, <1>3, <1>4, <1>7, <1>8, <1>9, <1>10 DEF OpenApart

\* A turn that appends a segment for something new and reuses an index.
LEMMA ReopenedNothing ==
    ASSUME BlockInv, NEW i \in Index
    PROVE  Stopped(open[i]) = NothingOpen /\ NothingOpen \in OpenRecord
           /\ AtMostOne(NothingOpen) /\ NothingOpen.tool = 0 /\ NothingOpen.text = 0
           /\ NothingOpen.thinking = 0 /\ NothingOpen.tool <= sent
<1>1. open[i] \in OpenRecord /\ AtMostOne(open[i])
  BY DEF BlockInv, Shapes, OpenApart
<1>2. sent \in Nat
  BY TranscriptAssumption DEF BlockInv, Shapes
<1> QED
  BY <1>1, <1>2, NothingLeft DEF NothingOpen, OpenRecord, AtMostOne

\* A stop closes what its index has open.
LEMMA StopBlockInv ==
    ASSUME BlockInv, Process, StopBlock(Head(parsed))
    PROVE  BlockInv'
<1>1. PICK ev : ev = Head(parsed)
  OBVIOUS
<1>2. Turn(ev) /\ Lines' /\ \A i \in Index : ~Starting(i)'
  BY <1>1, TurnIs
<1>3. /\ ev.type = "stop" /\ Reuse(ev.index, Stopped(open[ev.index]))
      /\ UNCHANGED <<segments, names, subagents>>
  BY <1>1 DEF StopBlock
<1>4. ev.index \in Index /\ blocks[ev.index].n = 0
  BY <1>2, <1>3 DEF Turn, EventOK
<1>5. /\ open' = [open EXCEPT ![ev.index] = NothingOpen]
      /\ unclosed' = unclosed \ {open[ev.index].tool}
  BY <1>3, <1>4, ReopenedNothing DEF Reuse
<1>6. /\ OpenApart' /\ open' \in [Index -> OpenRecord] /\ unclosed' \subseteq Nat
      /\ \A j \in Index : open'[j] = IF j = ev.index THEN NothingOpen ELSE open[j]
  <2>1. unclosed' = (unclosed \ {open[ev.index].tool}) \cup ({NothingOpen.tool} \ {0})
    BY <1>5 DEF NothingOpen
  <2> QED
    BY <1>2, <1>4, <1>5, <2>1, ReopenedNothing, Reopened
<1>7. Grown /\ BufferOK'
  BY <1>3, <1>6, SameSegments DEF BlockInv, BufferOK, Shapes
<1>8. Shapes' /\ Apart' /\ Fresh'
  BY <1>2, <1>7, TurnShapes, GrownApart
<1>9. Pointers'
  <2>1. \A i \in Index : \A k \in {"text", "thinking"} :
          open'[i][k] = 0 \/ open'[i][k] = open[i][k]
    BY <1>6 DEF NothingOpen
  <2> QED
    BY <1>3, <1>7, <2>1, PointersKeep
<1>10. ASSUME NEW i \in Index, NEW k \in {"text", "thinking"} PROVE Streamed(i, k)'
  <2>1. CASE i = ev.index
    BY <1>2, <1>4, <2>1 DEF Streamed, Turn
  <2>2. CASE i # ev.index
    <3>1. ~Starting(i)
      BY <1>2, <1>3 DEF Turn, Starting
    <3> QED
      BY <1>2, <1>3, <1>6, <1>7, <2>2, <3>1, StreamedKeeps
  <2> QED
    BY <2>1, <2>2
<1> QED
  BY <1>2, <1>6, <1>8, <1>9, <1>10 DEF BlockInv

\* A text block starts: what its index had open is closed first.
LEMMA StartTextInv ==
    ASSUME BlockInv, Process, StartText(Head(parsed))
    PROVE  BlockInv'
<1>1. PICK ev : ev = Head(parsed)
  OBVIOUS
<1>2. Turn(ev) /\ Lines' /\ \A i \in Index : ~Starting(i)'
  BY <1>1, TurnIs
<1>i. PICK i : i = ev.index
  OBVIOUS
<1>k. PICK k : k = ev.kind
  OBVIOUS
<1>n. PICK n : n = Len(segments) + 1
  OBVIOUS
<1>3. /\ subagents = <<>> /\ ev.type = "start" /\ k \in {"thinking", "text"}
      /\ segments' = Append(segments, NewSegment(k, 0, {}))
      /\ Reuse(i, [Stopped(open[i]) EXCEPT ![k] = Len(segments')])
      /\ UNCHANGED <<names, subagents>>
  BY <1>1, <1>i, <1>k DEF StartText
<1>4. /\ i \in Index /\ ev.block # 0 /\ blocks[i].n = ev.block
      /\ blocks[i].kind \in Kinds /\ k = ToolKind(blocks[i].kind)
  BY <1>2, <1>3, <1>i, <1>k DEF Turn, EventOK
<1>5. /\ segments' \in Seq(SegmentRecord) /\ Len(segments') = n /\ Len(segments) \in Nat
      /\ segments'[n].kind = k /\ segments'[n].fed = {} /\ Grown
  BY <1>3, <1>n, GrownBy DEF BlockInv
<1>o. PICK o : o = [NothingOpen EXCEPT ![k] = n]
  OBVIOUS
<1>6. open' = [open EXCEPT ![i] = o] /\ unclosed' = unclosed \ {open[i].tool}
  BY <1>3, <1>4, <1>5, <1>o, ReopenedNothing DEF Reuse
<1>7. /\ o \in OpenRecord /\ AtMostOne(o) /\ o.tool = 0
      /\ o.text # 0 => o.text > Len(segments)
      /\ o.thinking # 0 => o.thinking > Len(segments)
      /\ \A f \in {"text", "thinking"} : o[f] = IF f = k THEN n ELSE 0
  BY <1>3, <1>5, <1>n, <1>o DEF NothingOpen, OpenRecord, AtMostOne
<1>8. /\ OpenApart' /\ open' \in [Index -> OpenRecord] /\ unclosed' \subseteq Nat
      /\ \A j \in Index : open'[j] = IF j = i THEN o ELSE open[j]
  <2>1. unclosed' = (unclosed \ {open[i].tool}) \cup ({o.tool} \ {0})
    BY <1>6, <1>7
  <2>2. o.tool <= sent
    BY <1>7, TranscriptAssumption DEF BlockInv, Shapes
  <2> QED
    BY <1>2, <1>4, <1>6, <1>7, <2>1, <2>2, Reopened
<1>9. BufferOK'
  BY <1>3, <1>5, <1>8 DEF BlockInv, BufferOK, Shapes
<1>10. Shapes' /\ Apart' /\ Fresh' /\ \A b : Unfed(b) => Unfed(b)'
  BY <1>2, <1>5, <1>9, TurnShapes, GrownApart
<1>11. Pointers'
  <2>1. ASSUME NEW j \in Index, NEW f \in {"text", "thinking"}
        PROVE  \/ open'[j][f] = 0
               \/ open'[j][f] = open[j][f]
               \/ open'[j][f] \in 1..Len(segments') /\ segments'[open'[j][f]].kind = f
    <3>1. CASE j = i /\ f = k
      BY <1>5, <1>7, <1>8, <1>n, <3>1
    <3>2. CASE j = i /\ f # k
      BY <1>7, <1>8, <3>2
    <3>3. CASE j # i
      BY <1>8, <3>3
    <3> QED
      BY <3>1, <3>2, <3>3
  <2> QED
    BY <1>3, <1>5, <1>9, <2>1, PointersKeep
<1>12. ASSUME NEW j \in Index, NEW f \in {"text", "thinking"} PROVE Streamed(j, f)'
  <2>1. CASE j = i /\ f = k
    <3>1. Unfed(blocks[i].n)
      <4>1. 1 \in 1..Len(parsed) /\ parsed[1] = ev
        BY <1>2 DEF Turn
      <4> QED
        BY <1>3, <1>4, <4>1 DEF BlockInv, Fresh
    <3>2. Unfed(blocks[i].n)' /\ blocks' = blocks
      BY <1>2, <1>10, <3>1 DEF Turn
    <3>3. open'[i][k] = n /\ n # 0
      BY <1>5, <1>7, <1>8, <1>3, <1>4, <1>n
    <3>4. \A q \in 1..Len(segments') : blocks[i].n \notin segments'[q].fed
      BY <3>2 DEF Unfed
    <3> QED
      BY <1>2, <1>4, <1>5, <2>1, <3>2, <3>3, <3>4 DEF Streamed
  <2>2. CASE j = i /\ f # k
    <3>1. blocks'[j].kind # f
      BY <1>2, <1>3, <1>4, <2>2 DEF ToolKind, Turn
    <3> QED
      BY <3>1 DEF Streamed
  <2>3. CASE j # i
    <3>1. ~Starting(j)
      BY <1>2, <1>i, <2>3 DEF Turn, Starting
    <3> QED
      BY <1>2, <1>3, <1>5, <1>8, <2>3, <3>1, StreamedKeeps
  <2> QED
    BY <2>1, <2>2, <2>3
<1> QED
  BY <1>2, <1>8, <1>10, <1>11, <1>12 DEF BlockInv

\* A call, of a Task or of another tool.
LEMMA CallInv ==
    ASSUME BlockInv, NEW ev, Turn(ev), Lines', \A j \in Index : ~Starting(j)',
           IsCall(ev), Remember(ev), Grown,
           subagents' \in Seq([id : StackIds, segment : Nat]),
           subagents # <<>> => subagents' # <<>>,
           \A k \in 1..Len(subagents') :
              \/ k \in 1..Len(subagents) /\ subagents'[k] = subagents[k]
              \/ /\ subagents'[k].segment \in 1..Len(segments')
                 /\ segments'[subagents'[k].segment].kind = "subagent",
           NEW o \in OpenRecord, o.thinking = 0, o.text = 0, o.tool \in {0, ev.block},
           IF ev.type = "start"
             THEN /\ open' = [open EXCEPT ![ev.index] = o]
                  /\ unclosed' = (unclosed \ {open[ev.index].tool}) \cup ({o.tool} \ {0})
             ELSE UNCHANGED <<open, unclosed>>
    PROVE  BlockInv'
<1>1. names' \in [Ids -> {"none", "tool", "Task"}]
  BY DEF Remember, BlockInv, Shapes, Turn, Event
<1>2. /\ OpenApart' /\ open' \in [Index -> OpenRecord] /\ unclosed' \subseteq Nat
      /\ \A j \in Index : open'[j] = IF ev.type = "start" /\ j = ev.index THEN o ELSE open[j]
  <2>1. CASE ev.type = "start"
    <3>1. /\ ev.index \in Index /\ blocks[ev.index].n = ev.block
          /\ 1 \in 1..Len(parsed) /\ parsed[1] = ev
      BY <2>1 DEF Turn, EventOK
    <3>2. \A j \in Index : open[j].tool # ev.block
      BY <2>1, <3>1 DEF BlockInv, Fresh
    <3>3. o.tool <= sent
      <4>1. ev.block <= sent /\ 0 <= sent
        BY <3>1, TranscriptAssumption DEF BlockInv, Shapes, Lines
      <4> QED
        BY <4>1
    <3>4. AtMostOne(o)
      BY DEF AtMostOne
    <3>5. /\ OpenApart' /\ open' \in [Index -> OpenRecord] /\ unclosed' \subseteq Nat
          /\ \A j \in Index : open'[j] = IF j = ev.index THEN o ELSE open[j]
      <4>1. o.tool # 0 => \A j \in Index : open[j].tool # o.tool
        BY <3>2
      <4> QED
        BY <2>1, <3>1, <3>3, <3>4, <4>1, Reopened
    <3> QED
      BY <2>1, <3>5
  <2>2. CASE ev.type # "start"
    BY <2>2 DEF BlockInv, Shapes, OpenApart, Turn
  <2> QED
    BY <2>1, <2>2
<1>3. BufferOK'
  BY <1>1, <1>2 DEF BufferOK, Grown
<1>4. Shapes' /\ Apart' /\ Fresh'
  BY <1>3, TurnShapes, GrownApart
<1>5. Pointers'
  <2>1. \A i \in Index : \A k \in {"text", "thinking"} :
          open'[i][k] = 0 \/ open'[i][k] = open[i][k]
    BY <1>2
  <2> QED
    BY <1>3, <2>1, PointersKeep
<1>6. ASSUME NEW j \in Index, NEW f \in {"text", "thinking"} PROVE Streamed(j, f)'
  <2>1. CASE ev.type = "start" /\ j = ev.index
    <3>1. blocks'[j].kind # f
      BY <2>1 DEF Turn, EventOK, ToolKind, IsCall
    <3> QED
      BY <3>1 DEF Streamed
  <2>2. CASE ~(ev.type = "start" /\ j = ev.index)
    <3>1. ~Starting(j) /\ open'[j][f] = open[j][f]
      BY <1>2, <2>2 DEF Turn, Starting
    <3> QED
      BY <3>1, StreamedKeeps
  <2> QED
    BY <2>1, <2>2
<1> QED
  BY <1>2, <1>4, <1>5, <1>6 DEF BlockInv

\* What a Task puts on the stack.
LEMMA EntryType ==
    ASSUME BlockInv, NEW id \in CallIds, NEW segment \in Nat
    PROVE  /\ Entry(id, segment) \in [id : StackIds, segment : Nat]
           /\ Entry(id, segment).segment = segment
           /\ Entry(id, segment).id = IF id # Blank THEN id ELSE MadeUp(Len(subagents) + 1)
<1>1. Len(subagents) + 1 \in Nat
  BY DEF BlockInv, Shapes
<1> QED
  BY <1>1 DEF Entry, StackIds, CallIds, MadeUp, Blank

\* A Task that starts is on top of the stack, above all others.
LEMMA StartTaskIs ==
    ASSUME BlockInv, Process, StartTask(Head(parsed))
    PROVE  /\ subagents' \in Seq([id : StackIds, segment : Nat])
           /\ Len(subagents') = Len(subagents) + 1 /\ Len(subagents) \in Nat
           /\ \A k \in 1..Len(subagents) : subagents'[k] = subagents[k]
           /\ subagents'[Len(subagents')].segment = Len(segments')
           /\ subagents'[Len(subagents')].id =
                IF parsed[1].id # Blank THEN parsed[1].id ELSE MadeUp(Len(subagents) + 1)
           /\ Grown /\ Len(segments') \in Nat /\ Len(segments') > 0
           /\ segments'[Len(segments')].kind = "subagent"
<1>1. PICK ev : ev = Head(parsed)
  OBVIOUS
<1>2. Turn(ev) /\ ev = parsed[1]
  BY <1>1, TurnIs DEF Turn
<1>3. /\ segments' = Append(segments, NewSegment("subagent", 0, {}))
      /\ subagents' = Append(subagents, Entry(ev.id, Len(segments')))
      /\ ev.type \in {"start", "chunk"}
  BY <1>1 DEF StartTask, IsCall
<1>4. /\ Grown /\ Len(segments') = Len(segments) + 1 /\ Len(segments) \in Nat
      /\ segments'[Len(segments')].kind = "subagent"
  BY <1>3, GrownBy DEF BlockInv
<1>5. ev.id \in CallIds
  BY <1>2, <1>3 DEF Turn, EventOK
<1> DEFINE e == Entry(ev.id, Len(segments'))
<1>6. /\ e \in [id : StackIds, segment : Nat] /\ e.segment = Len(segments')
      /\ e.id = IF ev.id # Blank THEN ev.id ELSE MadeUp(Len(subagents) + 1)
  BY <1>4, <1>5, EntryType
<1>7. subagents \in Seq([id : StackIds, segment : Nat])
  BY DEF BlockInv, Shapes
<1>8. subagents' = Append(subagents, e)
  BY <1>3
<1> HIDE DEF e
<1>9. /\ subagents' \in Seq([id : StackIds, segment : Nat])
      /\ Len(subagents') = Len(subagents) + 1 /\ Len(subagents) \in Nat
      /\ \A k \in 1..Len(subagents) : subagents'[k] = subagents[k]
      /\ subagents'[Len(subagents')] = e
  BY <1>6, <1>7, <1>8, AppendProperties
<1> QED
  BY <1>2, <1>4, <1>6, <1>9

\* A Task starts.
LEMMA StartTaskInv ==
    ASSUME BlockInv, Process, StartTask(Head(parsed))
    PROVE  BlockInv'
<1>1. PICK ev : ev = Head(parsed)
  OBVIOUS
<1>2. Turn(ev) /\ Lines' /\ \A i \in Index : ~Starting(i)'
  BY <1>1, TurnIs
<1>3. /\ IsCall(ev) /\ Remember(ev)
      /\ IF ev.type = "start" THEN Reuse(ev.index, Stopped(open[ev.index]))
                              ELSE UNCHANGED <<open, unclosed>>
  BY <1>1 DEF StartTask
<1>4. /\ subagents' \in Seq([id : StackIds, segment : Nat])
      /\ Len(subagents') = Len(subagents) + 1 /\ Len(subagents) \in Nat
      /\ \A k \in 1..Len(subagents) : subagents'[k] = subagents[k]
      /\ subagents'[Len(subagents')].segment = Len(segments')
      /\ Grown /\ Len(segments') \in Nat /\ Len(segments') > 0
      /\ segments'[Len(segments')].kind = "subagent"
  BY StartTaskIs
<1>5. \A k \in 1..Len(subagents') :
         \/ k \in 1..Len(subagents) /\ subagents'[k] = subagents[k]
         \/ /\ subagents'[k].segment \in 1..Len(segments')
            /\ segments'[subagents'[k].segment].kind = "subagent"
  <2>1. \A k \in 1..Len(subagents') : k \in 1..Len(subagents) \/ k = Len(subagents')
    BY <1>4
  <2>2. Len(segments') \in 1..Len(segments')
    BY <1>4
  <2> QED
    BY <1>4, <2>1, <2>2
<1>6. subagents' # <<>>
  BY <1>4
<1>7. IF ev.type = "start"
        THEN /\ open' = [open EXCEPT ![ev.index] = NothingOpen]
             /\ unclosed' = (unclosed \ {open[ev.index].tool}) \cup ({NothingOpen.tool} \ {0})
        ELSE UNCHANGED <<open, unclosed>>
  <2>1. CASE ev.type = "start"
    <3>1. ev.index \in Index
      BY <1>2, <2>1 DEF Turn, EventOK
    <3> QED
      BY <1>3, <2>1, <3>1, ReopenedNothing DEF Reuse, NothingOpen
  <2> QED
    BY <1>3, <2>1
<1>8. NothingOpen \in OpenRecord /\ NothingOpen.thinking = 0 /\ NothingOpen.text = 0
      /\ NothingOpen.tool = 0
  BY DEF NothingOpen, OpenRecord
<1> QED
  BY <1>2, <1>3, <1>4, <1>5, <1>6, <1>7, <1>8, CallInv

\* A call in a subagent is counted by its segment.
LEMMA CountedIs ==
    ASSUME BlockInv, subagents # <<>>, segments' = Counted
    PROVE  Grown
<1>1. /\ segments \in Seq(SegmentRecord) /\ Pointers /\ Len(segments) \in Nat
      /\ subagents \in Seq([id : StackIds, segment : Nat])
  BY DEF BlockInv, Shapes
<1>2. Len(subagents) \in Nat /\ Len(subagents) # 0
  BY <1>1, EmptySeq, LenProperties
<1>3. PICK s : s = Last(subagents).segment
  OBVIOUS
<1>4. s \in 1..Len(segments)
  <2>1. Len(subagents) \in 1..Len(subagents)
    BY <1>2
  <2> QED
    BY <1>1, <1>3, <2>1 DEF Pointers, Last
<1>5. segments' = [segments EXCEPT ![s].size = @ + 1]
  BY <1>3 DEF Counted
<1>6. segments[s] \in SegmentRecord
  BY <1>1, <1>4, ElementOfSeq
<1> DEFINE r == [segments[s] EXCEPT !.size = @ + 1]
<1>7. r \in SegmentRecord /\ r.fed = segments[s].fed /\ r.kind = segments[s].kind
  BY <1>6 DEF SegmentRecord
<1>8. segments' = [segments EXCEPT ![s] = r]
  BY <1>5
<1> HIDE DEF r
<1>9. /\ segments' \in Seq(SegmentRecord) /\ Len(segments') = Len(segments)
      /\ \A j \in 1..Len(segments) : segments'[j] = IF j = s THEN r ELSE segments[j]
  BY <1>1, <1>4, <1>7, <1>8, ExceptSeq
<1>10. \A j \in 1..Len(segments) :
          segments'[j].fed = segments[j].fed /\ segments'[j].kind = segments[j].kind
  BY <1>7, <1>9
<1> QED
  BY <1>1, <1>9, <1>10 DEF Grown

\* A tool is called, in a segment of its own or counted in its Task's.
LEMMA CallToolInv ==
    ASSUME BlockInv, Process, CallTool(Head(parsed))
    PROVE  BlockInv'
<1>1. PICK ev : ev = Head(parsed)
  OBVIOUS
<1>2. Turn(ev) /\ Lines' /\ \A i \in Index : ~Starting(i)'
  BY <1>1, TurnIs
<1>3. /\ IsCall(ev) /\ Remember(ev) /\ subagents' = subagents
      /\ segments' = IF subagents # <<>> THEN Counted
                                         ELSE Append(segments, NewSegment("tool_call", 0, {}))
      /\ IF ev.type = "start"
           THEN /\ open' = [open EXCEPT ![ev.index] = [Stopped(@) EXCEPT !.tool = ev.block]]
                /\ unclosed' = (unclosed \ {open[ev.index].tool}) \cup {ev.block}
           ELSE UNCHANGED <<open, unclosed>>
  BY <1>1 DEF CallTool
<1>4. Grown
  <2>1. CASE subagents # <<>>
    BY <1>3, <2>1, CountedIs
  <2>2. CASE subagents = <<>>
    <3>1. Shapes /\ {} \in SUBSET Nat /\ 0 \in Nat
          /\ "tool_call" \in {"text", "thinking", "tool_call", "subagent", "error"}
      BY DEF BlockInv
    <3>2. segments' = Append(segments, NewSegment("tool_call", 0, {}))
      BY <1>3, <2>2
    <3> QED
      BY <3>1, <3>2, GrownBy
  <2> QED
    BY <2>1, <2>2
<1>o. PICK o : o = [NothingOpen EXCEPT !.tool = ev.block]
  OBVIOUS
<1>5. o \in OpenRecord /\ o.thinking = 0 /\ o.text = 0 /\ o.tool = ev.block
  <2>1. ev.block \in Nat
    BY <1>2 DEF Turn, Event
  <2> QED
    BY <1>o, <2>1 DEF NothingOpen, OpenRecord
<1>6. IF ev.type = "start"
        THEN /\ open' = [open EXCEPT ![ev.index] = o]
             /\ unclosed' = (unclosed \ {open[ev.index].tool}) \cup ({o.tool} \ {0})
        ELSE UNCHANGED <<open, unclosed>>
  <2>1. CASE ev.type = "start"
    <3>1. ev.index \in Index /\ ev.block # 0
      BY <1>2, <2>1 DEF Turn, EventOK
    <3>2. open' = [open EXCEPT ![ev.index] = [NothingOpen EXCEPT !.tool = ev.block]]
      BY <1>3, <2>1, <3>1, ReopenedNothing DEF BlockInv, Shapes
    <3> QED
      BY <1>3, <1>5, <1>o, <2>1, <3>1, <3>2
  <2> QED
    BY <1>3, <2>1
<1>7. subagents' \in Seq([id : StackIds, segment : Nat])
  BY <1>3 DEF BlockInv, Shapes
<1> QED
  BY <1>2, <1>3, <1>4, <1>5, <1>6, <1>7, CallInv

\* What is streamed into a block goes to the segment that is open for it.
LEMMA DeltaGoesOn ==
    ASSUME BlockInv, Process, NEW ev, ev = Head(parsed), subagents = <<>>,
           ev.type = "delta", ev.kind \in {"thinking", "text"}
    PROVE  /\ ev.index \in Index /\ ev.block # 0 /\ blocks[ev.index].n = ev.block
           /\ blocks[ev.index].kind = ev.kind
           /\ open[ev.index][ev.kind] \in 1..Len(segments)
           /\ segments[open[ev.index][ev.kind]].fed \subseteq {ev.block}
           /\ segments[open[ev.index][ev.kind]].kind = ev.kind
           /\ \A j \in 1..Len(segments) :
                ev.block \in segments[j].fed => j = open[ev.index][ev.kind]
<1>1. Turn(ev) /\ ev = parsed[1]
  BY TurnIs DEF Turn
<1>i. PICK i : i = ev.index
  OBVIOUS
<1>k. PICK k : k = ev.kind
  OBVIOUS
<1>2. /\ i \in Index /\ ev.block # 0 /\ blocks[i].n = ev.block /\ Len(parsed) = 1
      /\ blocks[i].kind = k /\ k \in {"text", "thinking"}
  BY <1>1, <1>i, <1>k DEF Turn, EventOK, ToolKind, Kinds
<1>3. phase = "running"
  <2>1. phase = "exited" => parsed[Len(parsed)].type = "complete"
    BY DEF BlockInv, Lines
  <2> QED
    BY <1>1, <1>2, <2>1 DEF Turn
<1>4. Streamed(i, k) /\ ~Starting(i) /\ Pointers /\ Shapes
  BY <1>1, <1>2 DEF BlockInv, Starting
<1>5. /\ open[i][k] # 0
      /\ segments[open[i][k]].fed \subseteq {blocks[i].n}
      /\ \A j \in 1..Len(segments) : blocks[i].n \in segments[j].fed => j = open[i][k]
  BY <1>2, <1>3, <1>4 DEF Streamed
<1>6. open[i][k] \in Nat
  BY <1>2, <1>4 DEF Shapes, OpenRecord
<1>7. open[i][k] \in 1..Len(segments) /\ segments[open[i][k]].kind = k
  BY <1>2, <1>4, <1>5, <1>6 DEF Pointers, Shapes
<1> QED
  BY <1>2, <1>5, <1>7, <1>i, <1>k

\* A delta goes to the segment that its index has open, or opens one.
LEMMA DeltaTextInv ==
    ASSUME BlockInv, Process, NEW ev, ev = Head(parsed), ev.type = "delta", AppendText(ev)
    PROVE  BlockInv'
<1>1. Turn(ev) /\ Lines' /\ \A i \in Index : ~Starting(i)'
  BY TurnIs
<1>2. /\ subagents = <<>> /\ ev.kind \in {"thinking", "text"}
      /\ UNCHANGED <<unclosed, names, subagents>>
  BY DEF AppendText
<1>i. PICK i : i = ev.index
  OBVIOUS
<1>k. PICK k : k = ev.kind
  OBVIOUS
<1>n. PICK n : n = ev.block
  OBVIOUS
<1>s. PICK s : s = open[i][k]
  OBVIOUS
<1>3. /\ i \in Index /\ n # 0 /\ blocks[i].n = n /\ blocks[i].kind = k
      /\ s \in 1..Len(segments) /\ segments[s].fed \subseteq {n} /\ segments[s].kind = k
      /\ \A j \in 1..Len(segments) : n \in segments[j].fed => j = s
      /\ k \in {"thinking", "text"}
  BY <1>2, <1>i, <1>k, <1>n, <1>s, DeltaGoesOn
<1>4. /\ segments \in Seq(SegmentRecord) /\ Len(segments) \in Nat /\ Apart /\ Fresh
      /\ Pointers /\ OpenApart /\ Shapes /\ Lines
  BY DEF BlockInv, Shapes
<1>5. segments[s] \in SegmentRecord /\ n \in Nat
  BY <1>1, <1>3, <1>4, <1>n, ElementOfSeq DEF Turn, Event
<1>6. OpenAt(ev) = s /\ s # 0
  BY <1>3, <1>4, <1>i, <1>k, <1>s DEF OpenAt
<1>7. /\ open' = open
      /\ segments' = [segments EXCEPT ![s] =
                        NewSegment(k, segments[s].size + 1, segments[s].fed \cup {n})]
  BY <1>3, <1>4, <1>6, <1>k, <1>n DEF AppendText
<1> DEFINE r == NewSegment(k, segments[s].size + 1, segments[s].fed \cup {n})
<1>8. r \in SegmentRecord /\ r.kind = k /\ r.fed = {n}
  BY <1>3, <1>5 DEF NewSegment, SegmentRecord
<1> HIDE DEF r
<1>9. /\ segments' \in Seq(SegmentRecord) /\ Len(segments') = Len(segments)
      /\ \A j \in 1..Len(segments) : segments'[j] = IF j = s THEN r ELSE segments[j]
  BY <1>3, <1>4, <1>7, <1>8, ExceptSeq DEF r
<1>10. \A j \in 1..Len(segments) :
          /\ segments'[j].kind = segments[j].kind
          /\ segments'[j].fed = IF j = s THEN {n} ELSE segments[j].fed
  BY <1>3, <1>8, <1>9
<1>11. BufferOK'
  BY <1>2, <1>4, <1>7, <1>9 DEF BufferOK, Shapes
<1>12. Shapes'
  BY <1>1, <1>11, TurnShapes
<1>13. Pointers'
  <2>1. ASSUME NEW j \in Index, NEW f \in {"text", "thinking"}
        PROVE  /\ open'[j][f] <= Len(segments')
               /\ open'[j][f] # 0 => segments'[open'[j][f]].kind = f
    <3>1. /\ open[j][f] <= Len(segments) /\ open[j][f] \in Nat
          /\ open[j][f] # 0 => segments[open[j][f]].kind = f
      BY <1>4 DEF Pointers, Shapes, OpenRecord
    <3>2. open[j][f] # 0 => open[j][f] \in 1..Len(segments)
      BY <1>4, <3>1
    <3> QED
      BY <1>7, <1>9, <1>10, <3>1, <3>2
  <2> QED
    BY <1>2, <1>9, <2>1 DEF Pointers
<1>14. OpenApart'
  BY <1>1, <1>2, <1>4, <1>7 DEF OpenApart, Turn
<1>15. Apart'
  <2>1. ASSUME NEW j \in 1..Len(segments'), NEW q \in 1..Len(segments'),
               NEW b \in segments'[j].fed, b \in segments'[q].fed
        PROVE  j = q
    <3>1. CASE b = n
      BY <1>3, <1>9, <1>10, <2>1, <3>1
    <3>2. CASE b # n
      BY <1>4, <1>9, <1>10, <2>1, <3>2 DEF Apart
    <3> QED
      BY <3>1, <3>2
  <2>2. \A j \in 1..Len(segments') : \A b, c \in segments'[j].fed : b = c
    BY <1>4, <1>9, <1>10 DEF Apart
  <2>3. phase' # "over" => \A j \in 1..Len(segments') : segments'[j].fed \subseteq 1..sent'
    <3>1. n \in 1..sent /\ phase # "over"
      BY <1>1, <1>3, <1>4, <1>5 DEF Turn, Lines
    <3> QED
      BY <1>1, <1>4, <1>9, <1>10, <3>1 DEF Apart, Turn
  <2>4. \A j \in 1..Len(segments') : segments'[j].fed \subseteq 1..(sent' + 1)
    <3>1. n \in 1..(sent + 1) /\ sent' = sent
      <4>1. sent \in Nat /\ sent' = sent
        BY <1>1, <1>4, TranscriptAssumption DEF Turn, Shapes
      <4>2. n \in 1..sent
        BY <1>1, <1>3, <1>4, <1>5 DEF Turn, Lines
      <4> QED
        BY <4>1, <4>2
    <3> QED
      BY <1>4, <1>9, <1>10, <3>1 DEF Apart
  <2> QED
    BY <2>1, <2>2, <2>3, <2>4 DEF Apart
<1>16. Fresh'
  <2>1. Len(parsed') = 0
    BY <1>1 DEF Turn, EventOK
  <2> QED
    BY <2>1 DEF Fresh
<1>17. ASSUME NEW j \in Index, NEW f \in {"text", "thinking"} PROVE Streamed(j, f)'
  <2>1. CASE j = i /\ f = k
    <3>1. open'[i][k] = s /\ s # 0 /\ ~Starting(i)' /\ blocks'[i].n = n
      BY <1>1, <1>3, <1>4, <1>7, <1>s DEF Turn
    <3>2. segments'[s].fed \subseteq {n}
      BY <1>3, <1>10
    <3>3. \A q \in 1..Len(segments') : n \in segments'[q].fed => q = s
      BY <1>3, <1>9, <1>10
    <3> QED
      BY <2>1, <3>1, <3>2, <3>3 DEF Streamed
  <2>2. CASE j = i /\ f # k
    <3>1. blocks'[j].kind # f
      BY <1>1, <1>3, <2>2 DEF Turn
    <3> QED
      BY <3>1 DEF Streamed
  <2>3. CASE j # i
    <3>1. SUFFICES ASSUME blocks[j].n # 0, blocks[j].kind = f, phase' = "running"
                   PROVE  Streamed(j, f)'
      BY <1>1 DEF Turn, Streamed
    <3>2. blocks[j].n # n /\ phase = "running" /\ ~Starting(j)
      BY <1>1, <1>3, <1>4, <2>3, <3>1 DEF Lines, Turn, Starting
    <3>3. /\ open[j][f] # 0 /\ segments[open[j][f]].fed \subseteq {blocks[j].n}
          /\ \A q \in 1..Len(segments) : blocks[j].n \in segments[q].fed => q = open[j][f]
      BY <1>2, <3>1, <3>2 DEF BlockInv, Streamed
    <3>4. open[j][f] \in 1..Len(segments) /\ segments[open[j][f]].kind = f
      <4>1. open[j][f] \in Nat
        BY <1>4 DEF Shapes, OpenRecord
      <4> QED
        BY <1>4, <3>3, <4>1 DEF Pointers
    <3>5. open[j][f] # s
      <4>1. f # k => open[j][f] # s
        BY <1>3, <3>4
      <4>2. f = k => open[j][f] # open[i][k]
        BY <1>3, <1>4, <2>3, <3>3 DEF OpenApart
      <4> QED
        BY <1>s, <4>1, <4>2
    <3>6. segments'[open[j][f]].fed \subseteq {blocks[j].n}
      BY <1>10, <3>3, <3>4, <3>5
    <3>7. \A q \in 1..Len(segments') : blocks[j].n \in segments'[q].fed => q = open[j][f]
      BY <1>9, <1>10, <3>2, <3>3
    <3> QED
      BY <1>1, <1>7, <3>3, <3>6, <3>7 DEF Streamed, Turn
  <2> QED
    BY <2>1, <2>2, <2>3
<1> QED
  BY <1>1, <1>12, <1>13, <1>14, <1>15, <1>16, <1>17 DEF BlockInv

\* A whole block is a segment of its own.
LEMMA ChunkTextInv ==
    ASSUME BlockInv, Process, NEW ev, ev = Head(parsed), ev.type = "chunk", AppendText(ev)
    PROVE  BlockInv'
<1>1. Turn(ev) /\ Lines' /\ \A i \in Index : ~Starting(i)'
  BY TurnIs
<1>n. PICK n : n = ev.block
  OBVIOUS
<1>k. PICK k : k = ev.kind
  OBVIOUS
<1>m. PICK m : m = Len(segments) + 1
  OBVIOUS
<1>2. /\ segments \in Seq(SegmentRecord) /\ Len(segments) \in Nat /\ Apart /\ Fresh
      /\ Pointers /\ OpenApart /\ Shapes /\ Lines /\ sent \in Nat
  BY TranscriptAssumption DEF BlockInv, Shapes
<1>3. /\ subagents = <<>> /\ k \in {"thinking", "text"}
      /\ segments' = Append(segments, NewSegment(k, 1, {n}))
      /\ UNCHANGED <<open, unclosed, names, subagents>>
  BY <1>n, <1>k DEF AppendText, OpenAt
<1>4. n \in 1..sent /\ (\A i \in Index : blocks[i].n # n) /\ {n} \in SUBSET Nat
  BY <1>1, <1>2, <1>n DEF Turn, EventOK
<1>5. /\ segments' \in Seq(SegmentRecord) /\ Len(segments') = m
      /\ \A j \in 1..Len(segments) : segments'[j] = segments[j]
      /\ segments'[m].fed = {n}
  BY <1>2, <1>3, <1>4, <1>m, GrownBy
<1>6. \A j \in 1..Len(segments) : n \notin segments[j].fed
  BY <1>1, <1>2, <1>n DEF Turn, Fresh, Unfed
<1>7. \A j \in 1..Len(segments') : j \in 1..Len(segments) \/ j = m
  BY <1>2, <1>5, <1>m
<1>8. BufferOK'
  BY <1>2, <1>3, <1>5 DEF BufferOK, Shapes
<1>9. Shapes'
  BY <1>1, <1>8, TurnShapes
<1>a. \A j \in 1..Len(segments) : j \in 1..Len(segments')
  BY <1>2, <1>5, <1>m
<1>10. Pointers'
  <2>1. ASSUME NEW j \in Index, NEW f \in {"text", "thinking"}
        PROVE  /\ open'[j][f] <= Len(segments')
               /\ open'[j][f] # 0 => segments'[open'[j][f]].kind = f
    <3>1. /\ open[j][f] <= Len(segments) /\ open[j][f] \in Nat
          /\ open[j][f] # 0 => segments[open[j][f]].kind = f
      BY <1>2 DEF Pointers, Shapes, OpenRecord
    <3>2. open[j][f] # 0 => open[j][f] \in 1..Len(segments)
      BY <1>2, <3>1
    <3> QED
      BY <1>2, <1>3, <1>5, <1>m, <3>1, <3>2
  <2> QED
    BY <1>2, <1>3, <1>5, <1>a, <2>1 DEF Pointers
<1>11. OpenApart'
  BY <1>1, <1>2, <1>3 DEF OpenApart, Turn
<1>12. Apart'
  <2>1. ASSUME NEW j \in 1..Len(segments'), NEW q \in 1..Len(segments'),
               NEW b \in segments'[j].fed, b \in segments'[q].fed
        PROVE  j = q
    BY <1>2, <1>5, <1>6, <1>7, <2>1 DEF Apart
  <2>2. \A j \in 1..Len(segments') : \A b, c \in segments'[j].fed : b = c
    BY <1>2, <1>5, <1>7 DEF Apart
  <2>3. phase' # "over" => \A j \in 1..Len(segments') : segments'[j].fed \subseteq 1..sent'
    BY <1>1, <1>2, <1>4, <1>5, <1>7 DEF Apart, Turn
  <2>4. \A j \in 1..Len(segments') : segments'[j].fed \subseteq 1..(sent' + 1)
    <3>1. n \in 1..(sent + 1) /\ sent' = sent
      BY <1>1, <1>2, <1>4 DEF Turn
    <3> QED
      BY <1>2, <1>5, <1>7, <3>1 DEF Apart
  <2> QED
    BY <2>1, <2>2, <2>3, <2>4 DEF Apart
<1>13. Fresh'
  <2>1. \A p \in 1..Len(parsed') : p = 1 /\ 2 \in 1..Len(parsed) /\ parsed'[p] = parsed[2]
        /\ 1 \in 1..Len(parsed)
    BY <1>1 DEF Turn
  <2>2. ASSUME NEW p \in 1..Len(parsed'), parsed'[p].type = "chunk"
        PROVE  \A j \in 1..Len(segments') : parsed'[p].block \notin segments'[j].fed
    <3>1. \A j \in 1..Len(segments) : parsed'[p].block \notin segments[j].fed
      BY <1>2, <2>1, <2>2 DEF Fresh, Unfed
    <3>2. parsed'[p].block # n
      BY <1>1, <1>2, <1>n, <2>1, <2>2 DEF Fresh, Turn
    <3> QED
      BY <1>5, <1>7, <3>1, <3>2
  <2>3. \A p \in 1..Len(parsed') : parsed'[p].type # "start"
    <3>1. 2 \in 1..Len(parsed) => EventOK(2)
      BY <1>2 DEF Lines
    <3> QED
      BY <1>1, <2>1, <3>1 DEF EventOK, Turn
  <2> QED
    BY <2>1, <2>2, <2>3 DEF Fresh, Unfed
<1>14. ASSUME NEW j \in Index, NEW f \in {"text", "thinking"} PROVE Streamed(j, f)'
  <2>1. SUFFICES ASSUME blocks[j].n # 0, blocks[j].kind = f, phase' = "running"
                 PROVE  Streamed(j, f)'
    BY <1>1 DEF Turn, Streamed
  <2>2. blocks[j].n # n /\ phase = "running" /\ ~Starting(j)
    BY <1>1, <1>4, <2>1 DEF Turn, Starting
  <2>3. /\ open[j][f] # 0 /\ segments[open[j][f]].fed \subseteq {blocks[j].n}
        /\ \A q \in 1..Len(segments) : blocks[j].n \in segments[q].fed => q = open[j][f]
    BY <1>3, <2>1, <2>2 DEF BlockInv, Streamed
  <2>4. open[j][f] \in 1..Len(segments)
    <3>1. open[j][f] \in Nat
      BY <1>2 DEF Shapes, OpenRecord
    <3> QED
      BY <1>2, <2>3, <3>1 DEF Pointers
  <2>5. segments'[open[j][f]].fed \subseteq {blocks[j].n}
    BY <1>5, <2>3, <2>4
  <2>6. \A q \in 1..Len(segments') : blocks[j].n \in segments'[q].fed => q = open[j][f]
    BY <1>5, <1>7, <2>2, <2>3
  <2> QED
    BY <1>1, <1>3, <2>3, <2>5, <2>6 DEF Streamed, Turn
<1> QED
  BY <1>1, <1>9, <1>10, <1>11, <1>12, <1>13, <1>14 DEF BlockInv

\* Text goes to one segment, streamed or not.
LEMMA AppendTextInv ==
    ASSUME BlockInv, Process, AppendText(Head(parsed))
    PROVE  BlockInv'
<1>1. PICK ev : ev = Head(parsed)
  OBVIOUS
<1>2. AppendText(ev) /\ ev.type \in {"delta", "chunk"}
  BY <1>1 DEF AppendText
<1> QED
  BY <1>1, <1>2, DeltaTextInv, ChunkTextInv

\* The text of a run without any is made up when the run is over.
LEMMA CompleteInv ==
    ASSUME BlockInv, Process, Complete(Head(parsed))
    PROVE  BlockInv'
<1>1. PICK ev : ev = Head(parsed)
  OBVIOUS
<1>2. Turn(ev) /\ Lines' /\ (\A i \in Index : ~Starting(i)') /\ ev.type = "complete"
  BY <1>1, TurnIs DEF Complete
<1>3. parsed' = <<>> /\ Len(parsed') = 0 /\ phase' = "over" /\ phase = "exited"
  <2>1. Len(parsed) = 1 /\ phase = "exited"
    BY <1>2 DEF Turn, EventOK
  <2>2. parsed' \in Seq(Event) /\ Len(parsed') = 0
    BY <1>2, <2>1 DEF Turn
  <2>3. parsed' = <<>>
    BY <2>2, EmptySeq
  <2> QED
    BY <1>2, <2>1, <2>2, <2>3 DEF Turn
<1>4. /\ segments \in Seq(SegmentRecord) /\ Len(segments) \in Nat /\ Apart
      /\ Pointers /\ OpenApart /\ Shapes /\ sent \in Nat
  BY TranscriptAssumption DEF BlockInv, Shapes
<1>5. UNCHANGED <<open, unclosed, names, subagents>>
  BY <1>1 DEF Complete
<1>6. CASE segments' = segments
  <2>1. Grown
    BY <1>4, <1>6, SameSegments
  <2>2. \A i \in Index : ~Starting(i)
    BY <1>2 DEF Turn, Starting
  <2> QED
    BY <1>5, <2>1, <2>2, IdleInv
<1>7. CASE segments' = Append(segments, NewSegment("text", 1, {sent + 1}))
  <2>m. PICK m : m = Len(segments) + 1
    OBVIOUS
  <2>n. PICK n : n = sent + 1
    OBVIOUS
  <2>1. /\ segments' \in Seq(SegmentRecord) /\ Len(segments') = m
        /\ \A j \in 1..Len(segments) : segments'[j] = segments[j]
        /\ segments'[m].fed = {n}
    <3>1. n \in Nat
      BY <1>4, <2>n
    <3>2. {n} \in SUBSET Nat /\ segments' = Append(segments, NewSegment("text", 1, {n}))
      BY <1>7, <2>n, <3>1
    <3> QED
      BY <1>4, <2>m, <3>2, GrownBy
  <2>2. \A j \in 1..Len(segments') : j \in 1..Len(segments) \/ j = m
    BY <1>4, <2>1, <2>m
  <2>3. \A j \in 1..Len(segments) : n \notin segments[j].fed
    <3>1. n \notin 1..sent
      BY <1>4, <2>n
    <3> QED
      BY <1>3, <1>4, <3>1 DEF Apart
  <2>4. Shapes'
    <3>1. BufferOK'
      BY <1>4, <1>5, <2>1 DEF BufferOK, Shapes
    <3> QED
      BY <1>2, <3>1, TurnShapes
  <2>5. Pointers'
    <3>1. ASSUME NEW j \in Index, NEW f \in {"text", "thinking"}
          PROVE  /\ open'[j][f] <= Len(segments')
                 /\ open'[j][f] # 0 => segments'[open'[j][f]].kind = f
      <4>1. /\ open[j][f] <= Len(segments) /\ open[j][f] \in Nat
            /\ open[j][f] # 0 => segments[open[j][f]].kind = f
        BY <1>4 DEF Pointers, Shapes, OpenRecord
      <4>2. open[j][f] # 0 => open[j][f] \in 1..Len(segments)
        BY <1>4, <4>1
      <4> QED
        BY <1>4, <1>5, <2>1, <2>m, <4>1, <4>2
    <3>2. \A j \in 1..Len(segments) : j \in 1..Len(segments')
      BY <1>4, <2>1, <2>m
    <3> QED
      BY <1>4, <1>5, <2>1, <3>1, <3>2 DEF Pointers
  <2>6. OpenApart'
    BY <1>2, <1>4, <1>5 DEF OpenApart, Turn
  <2>7. Apart'
    <3>1. ASSUME NEW j \in 1..Len(segments'), NEW q \in 1..Len(segments'),
                 NEW b \in segments'[j].fed, b \in segments'[q].fed
          PROVE  j = q
      BY <1>4, <2>1, <2>2, <2>3, <3>1 DEF Apart
    <3>2. \A j \in 1..Len(segments') : \A b, c \in segments'[j].fed : b = c
      BY <1>4, <2>1, <2>2 DEF Apart
    <3>3. \A j \in 1..Len(segments') : segments'[j].fed \subseteq 1..(sent' + 1)
      <4>1. n \in 1..(sent + 1) /\ sent' = sent
        BY <1>2, <1>4, <2>n DEF Turn
      <4> QED
        BY <1>4, <2>1, <2>2, <4>1 DEF Apart
    <3> QED
      BY <1>3, <3>1, <3>2, <3>3 DEF Apart
  <2>8. Fresh'
    BY <1>3 DEF Fresh
  <2>9. \A i \in Index : Streamed(i, "text")' /\ Streamed(i, "thinking")'
    BY <1>3 DEF Streamed
  <2> QED
    BY <1>2, <2>4, <2>5, <2>6, <2>7, <2>8, <2>9 DEF BlockInv
<1> QED
  BY <1>1, <1>6, <1>7 DEF Complete

-----------------------------------------------------------------------------
(* What a result leaves of the stack.                                      *)

\* The greatest of some numbers.
LEMMA MaxIs ==
    ASSUME NEW n \in Nat, NEW S \in SUBSET (1..n), S # {}
    PROVE  Max(S) \in S /\ \A y \in S : y <= Max(S)
<1> DEFINE below == {n - y : y \in S}
<1>1. below \subseteq Nat /\ below # {}
  <2>1. \A y \in S : n - y \in Nat
    OBVIOUS
  <2> QED
    BY <2>1
<1>2. PICK x \in below : \A y \in below : ~(<<y, x>> \in OpToRel(<, Nat))
  BY <1>1, NatLessThanWellFounded, WFMin
<1>3. \A y \in below : ~(y < x)
  BY <1>1, <1>2 DEF OpToRel
<1>4. PICK m \in S : x = n - m
  BY <1>2
<1>5. \A y \in S : m >= y
  BY <1>1, <1>3, <1>4
<1>6. Max(S) \in S /\ \A y \in S : Max(S) >= y
  BY <1>4, <1>5 DEF Max
<1> QED
  BY <1>6

\* The stack is cut somewhere.
LEMMA StackIsCut ==
    ASSUME Shapes, NEW id
    PROVE  \E m \in 0..Len(subagents) : AfterResult(id) = SubSeq(subagents, 1, m)
<1> DEFINE S == [id : StackIds, segment : Nat]
<1>1. subagents \in Seq(S) /\ Len(subagents) \in Nat
  BY DEF Shapes
<1>2. SubSeq(subagents, 1, Len(subagents)) = subagents
  BY <1>1, SubSeqFull
<1>3. subagents # <<>> => Len(subagents) - 1 \in 0..Len(subagents)
  BY <1>1, EmptySeq
<1> DEFINE Cut(s) == \E m \in 0..Len(subagents) : s = SubSeq(subagents, 1, m)
<1>4. Cut(subagents)
  <2>1. Len(subagents) \in 0..Len(subagents)
    BY <1>1
  <2> QED
    BY <1>2, <2>1
<1>5. subagents # <<>> => Cut(Front(subagents))
  BY <1>3 DEF Front
<1>6. subagents # <<>> => Cut(Popped(id))
  <2> DEFINE matching == {k \in DOMAIN subagents : RoughlyMatch(subagents[k].id, id)}
  <2>1. matching \in SUBSET (1..Len(subagents))
    BY <1>1
  <2>2. matching # {} => Max(matching) - 1 \in 0..Len(subagents)
    <3> HIDE DEF matching
    <3>1. SUFFICES ASSUME matching # {} PROVE Max(matching) - 1 \in 0..Len(subagents)
      OBVIOUS
    <3>2. Max(matching) \in 1..Len(subagents)
      BY <1>1, <2>1, <3>1, MaxIs
    <3> QED
      BY <1>1, <3>2
  <2>3. Popped(id) = IF id = Blank
                       THEN IF Synthetic(Last(subagents).id) THEN Front(subagents) ELSE subagents
                       ELSE IF matching = {} THEN subagents
                                             ELSE SubSeq(subagents, 1, Max(matching) - 1)
    BY DEF Popped
  <2> HIDE DEF matching
  <2>4. matching # {} => Cut(SubSeq(subagents, 1, Max(matching) - 1))
    BY <2>2
  <2> HIDE DEF Cut
  <2> QED
    BY <1>4, <1>5, <2>3, <2>4
<1> HIDE DEF Cut
<1>7. Cut(AfterResult(id))
  BY <1>4, <1>5, <1>6 DEF AfterResult
<1> QED
  BY <1>7 DEF Cut

\* A result cuts the stack and touches no segment that is fed.
LEMMA ResultInv ==
    ASSUME BlockInv, Process, Result(Head(parsed))
    PROVE  BlockInv'
<1>1. PICK ev : ev = Head(parsed)
  OBVIOUS
<1>2. Turn(ev) /\ Lines' /\ (\A i \in Index : ~Starting(i)') /\ ev.type = "result"
      /\ subagents' = AfterResult(ev.id) /\ UNCHANGED <<segments, open, unclosed, names>>
  BY <1>1, TurnIs DEF Result
<1>3. /\ Shapes /\ Pointers /\ OpenApart
      /\ subagents \in Seq([id : StackIds, segment : Nat]) /\ Len(subagents) \in Nat
  BY DEF BlockInv, Shapes
<1>4. PICK m \in 0..Len(subagents) : subagents' = SubSeq(subagents, 1, m)
  BY <1>2, <1>3, StackIsCut
<1>5. /\ subagents' \in Seq([id : StackIds, segment : Nat]) /\ Len(subagents') = m
      /\ \A k \in 1..m : subagents'[k] = subagents[k]
  <2> DEFINE S == [id : StackIds, segment : Nat]
  <2>1. subagents \in Seq(S) /\ Len(subagents) \in Nat
    BY <1>3
  <2> HIDE DEF S
  <2>2. 1 \in 1..(Len(subagents) + 1) /\ m \in (1 - 1)..Len(subagents)
    BY <2>1
  <2>3. /\ subagents' \in Seq(S) /\ Len(subagents') = IF 1 <= m THEN m - 1 + 1 ELSE 0
        /\ \A k \in 1..(m - 1 + 1) : subagents'[k] = subagents[1 + k - 1]
    BY <1>4, <2>1, <2>2, SubSeqProperties
  <2>4. m \in Nat /\ m - 1 + 1 = m /\ \A k \in 1..m : 1 + k - 1 = k
    BY <2>1
  <2>5. Len(subagents') = m
    BY <2>3, <2>4
  <2>6. \A k \in 1..m : subagents'[k] = subagents[k]
    BY ONLY <2>3, <2>4
  <2>7. subagents' \in Seq([id : StackIds, segment : Nat])
    BY ONLY <2>3 DEF S
  <2> QED
    BY <2>5, <2>6, <2>7
<1>6. Grown /\ BufferOK'
  BY <1>2, <1>3, <1>5, SameSegments DEF BufferOK, Shapes
<1>7. Shapes' /\ Apart' /\ Fresh'
  BY <1>2, <1>6, TurnShapes, GrownApart
<1>8. Pointers'
  <2>1. \A k \in 1..Len(subagents') : k \in 1..Len(subagents)
    BY <1>3, <1>5
  <2>2. \A k \in 1..Len(subagents') : subagents'[k] = subagents[k]
    BY <1>5
  <2> QED
    BY <1>2, <1>3, <2>1, <2>2 DEF Pointers
<1>9. OpenApart'
  BY <1>2, <1>3 DEF OpenApart, Turn
<1>10. \A i \in Index : blocks'[i].n = 0
  BY <1>2 DEF Turn, EventOK, MessageOver, NoBlock
<1>11. \A i \in Index : Streamed(i, "text")' /\ Streamed(i, "thinking")'
  BY <1>10 DEF Streamed
<1> QED
  BY <1>2, <1>7, <1>8, <1>9, <1>11 DEF BlockInv

\* A turn of the handler's loop.
LEMMA ProcessInv == BlockInv /\ Process => BlockInv'
<1> SUFFICES ASSUME BlockInv, Process PROVE BlockInv'
  OBVIOUS
<1>1. \/ Hide(Head(parsed)) \/ StartText(Head(parsed)) \/ AppendText(Head(parsed))
      \/ StartTask(Head(parsed)) \/ CallTool(Head(parsed)) \/ DeltaTool(Head(parsed))
      \/ StopBlock(Head(parsed)) \/ Result(Head(parsed)) \/ AppendError(Head(parsed))
      \/ Complete(Head(parsed))
  BY DEF Process
<1> QED
  BY <1>1, HideInv, StartTextInv, AppendTextInv, StartTaskInv, CallToolInv, DeltaToolInv,
     StopBlockInv, ResultInv, AppendErrorInv, CompleteInv

\* The run is cancelled or fails; what is shown stays.
LEMMA AbortInv ==
    ASSUME BlockInv, NEW stopped \in BOOLEAN, Abort(stopped)
    PROVE  BlockInv'
<1>1. /\ phase' = "over" /\ parsed' = <<>> /\ Len(parsed') = 0
      /\ UNCHANGED <<cliVars, had, open, unclosed, names, subagents>>
      /\ phase # "over"
  BY DEF Abort
<1>2. /\ Shapes /\ Lines /\ Pointers /\ OpenApart /\ Apart
      /\ Len(segments) \in Nat /\ segments \in Seq(SegmentRecord)
  BY DEF BlockInv, Shapes
<1>3. Grown
  <2>1. CASE segments' = segments
    BY <1>2, <2>1, SameSegments
  <2>2. CASE segments' = Append(segments, NewSegment("error", 0, {}))
    BY <1>2, <2>2, GrownBy
  <2> QED
    BY <2>1, <2>2 DEF Abort
<1>4. Shapes'
  <2>1. segments' \in Seq(SegmentRecord) /\ parsed' \in Seq(Event)
    BY <1>1, <1>3 DEF Grown
  <2> QED
    BY <1>1, <1>2, <2>1 DEF Shapes, cliVars
<1>5. Lines'
  BY <1>1, <1>2 DEF Lines, cliVars
<1>6. Pointers'
  <2>1. BufferOK'
    BY <1>1, <1>2, <1>3 DEF BufferOK, Shapes, Grown
  <2> QED
    BY <1>1, <1>3, <2>1, PointersKeep
<1>7. OpenApart'
  BY <1>1, <1>2 DEF OpenApart, cliVars
<1>8. Apart'
  <2>1. \A j \in 1..Len(segments') :
          \/ j \in 1..Len(segments) /\ segments'[j].fed = segments[j].fed
          \/ segments'[j].fed = {}
    BY <1>2, <1>3 DEF Grown
  <2>2. sent' = sent /\ sent \in Nat
    BY <1>1, <1>2, TranscriptAssumption DEF cliVars, Shapes
  <2> QED
    BY <1>1, <1>2, <2>1, <2>2 DEF Apart
<1>9. Fresh'
  BY <1>1 DEF Fresh
<1>10. \A i \in Index : Streamed(i, "text")' /\ Streamed(i, "thinking")'
  BY <1>1 DEF Streamed
<1> QED
  BY <1>4, <1>5, <1>6, <1>7, <1>8, <1>9, <1>10 DEF BlockInv

\* Nothing is open and nothing shown.
LEMMA InitBlockInv == Init => BlockInv
<1> SUFFICES ASSUME Init PROVE BlockInv
  OBVIOUS
<1> USE TranscriptAssumption DEF Init
<1>1. Shapes
  <2>1. /\ <<>> \in Seq(Nat) /\ <<>> \in Seq(Event) /\ <<>> \in Seq(SegmentRecord)
        /\ <<>> \in Seq([id : StackIds, segment : Nat]) /\ Len(<<>>) = 0
    BY EmptySeq
  <2>2. NoBlock \in [n : Nat, kind : Kinds \cup {"none", "ended"}] /\ NothingOpen \in OpenRecord
    BY DEF NoBlock, NothingOpen, OpenRecord
  <2>3. started \in 0..MaxTasks /\ sent \in 0..MaxEvents
    OBVIOUS
  <2>4. /\ blocks \in [Index -> [n : Nat, kind : Kinds \cup {"none", "ended"}]]
        /\ open \in [Index -> OpenRecord] /\ names \in [Ids -> {"none", "tool", "Task"}]
    BY <2>2
  <2>5. style \in [stream : BOOLEAN, ids : {"given", "omitted", "absent"}]
    OBVIOUS
  <2>6. /\ overtaken \in BOOLEAN /\ had \in BOOLEAN
        /\ phase \in {"running", "exited", "over"} /\ unclosed \subseteq Nat
    OBVIOUS
  <2>7. /\ waiting \in Seq(Nat) /\ \A w \in 1..Len(waiting) : waiting[w] \in 1..started
        /\ parsed \in Seq(Event) /\ segments \in Seq(SegmentRecord)
        /\ subagents \in Seq([id : StackIds, segment : Nat])
    BY <2>1
  <2> QED
    BY <2>3, <2>4, <2>5, <2>6, <2>7 DEF Shapes
<1>2. Pointers
  BY DEF Pointers, NothingOpen
<1>3. Lines
  BY DEF Lines, NoBlock
<1>4. Apart /\ Fresh
  BY DEF Apart, Fresh
<1>5. OpenApart
  BY DEF OpenApart, NothingOpen, AtMostOne
<1>6. \A i \in Index : Streamed(i, "text") /\ Streamed(i, "thinking")
  BY DEF Streamed, NoBlock
<1> QED
  BY <1>1, <1>2, <1>3, <1>4, <1>5, <1>6 DEF BlockInv

\* BlockInv is inductive.
LEMMA NextBlockInv == BlockInv /\ [Next]_vars => BlockInv'
<1> SUFFICES ASSUME BlockInv, [Next]_vars PROVE BlockInv'
  OBVIOUS
<1>1. CASE UNCHANGED vars
  <2> USE <1>1 DEF vars, cliVars, bufferVars
  <2>1. Shapes /\ Pointers /\ Lines /\ Apart /\ OpenApart /\ Fresh
        /\ \A i \in Index : Streamed(i, "text") /\ Streamed(i, "thinking")
    BY DEF BlockInv
  <2>2. Shapes'
    BY <2>1 DEF Shapes
  <2>3. Pointers'
    BY <2>1 DEF Pointers
  <2>4. Lines'
    BY <2>1 DEF Lines, EventOK, MessageOver
  <2>5. Apart' /\ OpenApart'
    BY <2>1 DEF Apart, OpenApart
  <2>6. Fresh'
    BY <2>1 DEF Fresh, Unfed
  <2>7. \A i \in Index : Streamed(i, "text")' /\ Streamed(i, "thinking")'
    BY <2>1 DEF Streamed, Starting, Unfed
  <2> QED
    BY <2>2, <2>3, <2>4, <2>5, <2>6, <2>7 DEF BlockInv
<1> QED
  BY <1>1, CliLineInv, ProcessInv, AbortInv DEF Next

\* BlockInv holds at all times.
LEMMA BlockInvariance == Spec => []BlockInv
BY InitBlockInv, NextBlockInv, PTL DEF Spec

\* In every run, what is streamed into one block is shown in one segment, which holds no
\* other block's text, though indices are used again and stops may be missing: an index is
\* open for one block at a time, and the calls that are not closed are those that are open
\* (TranscriptBuffer.apply with its tables of open segments).
THEOREM BlocksApart == Spec => []BlocksKeptApart
<1>1. BlockInv => BlocksKeptApart
  <2> SUFFICES ASSUME BlockInv PROVE BlocksKeptApart
    OBVIOUS
  <2>1. Apart /\ OpenApart /\ DOMAIN segments = 1..Len(segments) /\ open \in [Index -> OpenRecord]
    BY DEF BlockInv, Shapes
  <2>2. ASSUME NEW S, \A b, c \in S : b = c PROVE Cardinality(S) <= 1
    <3>1. CASE S = {}
      BY <3>1, SmallSets
    <3>2. CASE S # {}
      <4>1. PICK b : S = {b}
        BY <2>2, <3>2
      <4> QED
        BY <4>1, SmallSets
    <3> QED
      BY <3>1, <3>2
  <2>3. \A j \in DOMAIN segments : Cardinality(segments[j].fed) <= 1
    BY <2>1, <2>2 DEF Apart
  <2>4. \A j, k \in DOMAIN segments : segments[j].fed \cap segments[k].fed # {} => j = k
    BY <2>1 DEF Apart
  <2>5. ASSUME NEW i \in Index
        PROVE  Cardinality({f \in DOMAIN NothingOpen : open[i][f] # 0}) <= 1
    <3>1. DOMAIN NothingOpen = {"tool", "thinking", "text"}
      BY DEF NothingOpen
    <3>2. AtMostOne(open[i])
      BY <2>1 DEF OpenApart
    <3> DEFINE S == {f \in DOMAIN NothingOpen : open[i][f] # 0}
    <3>3. \A f, g \in S : f = g
      BY <3>1, <3>2 DEF AtMostOne
    <3> HIDE DEF S
    <3>4. Cardinality(S) <= 1
      BY <2>2, <3>3
    <3> QED
      BY <3>4 DEF S
  <2> QED
    BY <2>1, <2>3, <2>4, <2>5 DEF BlocksKeptApart, OpenApart
<1> QED
  BY <1>1, BlockInvariance, PTL

\* In every run the state of the parser and the buffer is of its type: what is open and
\* what is on the stack refers to segments that exist, so that no update of a segment by a
\* remembered reference misses (TranscriptBuffer.apply).
THEOREM TranscriptTypeCorrect == Spec => []TypeOK
<1>1. BlockInv => TypeOK
  <2> SUFFICES ASSUME BlockInv PROVE TypeOK
    OBVIOUS
  <2>1. /\ Shapes /\ Pointers /\ Lines /\ Apart /\ OpenApart
        /\ DOMAIN segments = 1..Len(segments) /\ DOMAIN subagents = 1..Len(subagents)
        /\ sent \in Nat /\ sent <= MaxEvents /\ MaxEvents \in Nat
    BY TranscriptAssumption DEF BlockInv, Shapes
  <2>2. blocks \in [Index -> [n : 0..MaxEvents, kind : Kinds \cup {"none", "ended"}]]
    <3>1. \A i \in Index : blocks[i].n \in 0..MaxEvents
      BY <2>1 DEF Lines
    <3> QED
      BY <2>1, <3>1 DEF Shapes
  <2>3. waiting \in Seq(1..started)
    <3>1. /\ waiting \in Seq(Nat) /\ Len(waiting) \in Nat
          /\ \A w \in 1..Len(waiting) : waiting[w] \in 1..started
      BY <2>1, LenProperties DEF Shapes
    <3>2. waiting = [w \in 1..Len(waiting) |-> waiting[w]]
      BY <3>1, LenProperties
    <3>3. waiting \in [1..Len(waiting) -> 1..started]
      BY <3>1, <3>2
    <3> DEFINE S == 1..started
    <3>4. waiting \in [1..Len(waiting) -> S]
      BY <3>3
    <3> HIDE DEF S
    <3>5. \E n \in Nat : waiting \in [1..n -> S]
      BY <3>1, <3>4
    <3>6. waiting \in Seq(S)
      BY <3>5, SeqDef
    <3> QED
      BY <3>6 DEF S
  <2>4. \A j \in DOMAIN segments :
          segments[j] \in [kind : {"text", "thinking", "tool_call", "subagent", "error"},
                          size : Nat, fed : SUBSET (1..(MaxEvents + 1))]
    <3>1. ASSUME NEW j \in 1..Len(segments)
          PROVE  segments[j] \in SegmentRecord /\ segments[j].fed \subseteq 1..(MaxEvents + 1)
      BY <2>1, ElementOfSeq DEF Shapes, Apart
    <3> QED
      BY <2>1, <3>1 DEF SegmentRecord
  <2>5. open \in [Index -> [tool : 0..MaxEvents, thinking : 0..Len(segments),
                            text : 0..Len(segments)]]
    <3>1. ASSUME NEW i \in Index
          PROVE  /\ open[i].tool \in 0..MaxEvents /\ open[i]["thinking"] \in 0..Len(segments)
                 /\ open[i]["text"] \in 0..Len(segments)
      BY <2>1 DEF Shapes, OpenApart, Pointers, OpenRecord
    <3> QED
      BY <2>1, <3>1 DEF Shapes, OpenRecord
  <2>6. unclosed \subseteq 1..MaxEvents
    <3>1. \A i \in Index : open[i].tool # 0 => open[i].tool \in 1..MaxEvents
      BY <2>5
    <3> QED
      BY <2>1, <3>1 DEF OpenApart
  <2>7. {overtaken, had} \subseteq BOOLEAN
    BY <2>1, Zenon DEF Shapes
  <2>8. style \in [stream : BOOLEAN, ids : {"given", "omitted", "absent"}]
    BY <2>1 DEF Shapes
  <2>9. /\ started \in 0..MaxTasks /\ sent \in 0..MaxEvents
        /\ phase \in {"running", "exited", "over"}
        /\ names \in [Ids -> {"none", "tool", "Task"}]
    BY <2>1 DEF Shapes
  <2>10. \A k \in DOMAIN subagents :
           /\ subagents[k].segment \in DOMAIN segments
           /\ segments[subagents[k].segment].kind = "subagent"
    BY <2>1 DEF Pointers
  <2> QED
    BY <2>2, <2>3, <2>4, <2>5, <2>6, <2>7, <2>8, <2>9, <2>10 DEF TypeOK
<1> QED
  BY <1>1, BlockInvariance, PTL

-----------------------------------------------------------------------------
(* The stack of subagents and the Tasks that wait.                         *)

\* The p-th of the events that are left starts a Task, that of number n.
Calls(p) == parsed[p].kind = "tool" /\ parsed[p].type \in {"start", "chunk"}
StartsTask(p) == Calls(p) /\ parsed[p].name = "Task"
Begins(p, n) == StartsTask(p) /\ parsed[p].id = TaskId(n)
Pending(n) == \E p \in 1..Len(parsed) : Begins(p, n)

\* The line that was read last is the result of a Task, that of number n.
Resulting == parsed # <<>> /\ parsed[1].type = "result"
OfTool == \E t \in ToolIds : parsed[1].id = <<t>> /\ names[<<t>>] = "tool"
Answering == Resulting /\ ~OfTool
Answers(n) == Resulting /\ parsed[1].id \in {TaskId(n), ResultId(n)}

Waits(n) == \E w \in 1..Len(waiting) : waiting[w] = n
Stacked(k, n) == subagents[k].id = TaskId(n)
OnStack(n) == \E k \in 1..Len(subagents) : Stacked(k, n)

Given == style.ids = "given"

\* What the ids and names of calls say.
Named ==
    /\ \A p \in 1..Len(parsed) : StartsTask(p) =>
          IF Given THEN \E n \in 1..started : parsed[p].id = TaskId(n)
                   ELSE parsed[p].id = Blank
    /\ \A p \in 1..Len(parsed) : Calls(p) /\ ~StartsTask(p) =>
          parsed[p].name = "tool" /\ \E t \in ToolIds : parsed[p].id = <<t>>
    /\ \A n \in 1..MaxTasks : names[TaskId(n)] \in {"none", "Task"}
    /\ \A t \in ToolIds : names[<<t>>] \in {"none", "tool"}
    /\ Answering => \E n \in 1..started : parsed[1].id \in ResultIds(n)

InOrder ==
    \A v, w \in 1..Len(waiting) : v < w => waiting[v] < waiting[w]

\* With ids: the Tasks on the stack wait for their result, or it was just read.
StackGiven ==
    /\ \A k \in 1..Len(subagents) :
          \E n \in 1..started : Stacked(k, n) /\ (Waits(n) \/ Answers(n))
    /\ \A j, k \in 1..Len(subagents) : \A m, n \in 1..started :
          j < k /\ Stacked(j, m) /\ Stacked(k, n) => m < n
    /\ \A p \in 1..Len(parsed) : \A n \in 1..started : Begins(p, n) => Waits(n)
    /\ \A p \in 1..Len(parsed) : \A k \in 1..Len(subagents) : \A m, n \in 1..started :
          Stacked(k, m) /\ Begins(p, n) => m < n
    /\ \A p, q \in 1..Len(parsed) : \A m, n \in 1..started :
          p < q /\ Begins(p, m) /\ Begins(q, n) => m < n
    /\ ~overtaken => \A n \in 1..started : Waits(n) => OnStack(n) \/ Pending(n)
    /\ ~overtaken => \A m, n \in 1..started : Answers(n) /\ Waits(m) => m < n

Unstarted(p) == IF p <= Len(parsed) /\ StartsTask(p) THEN 1 ELSE 0

\* Without ids: as many are on the stack as wait.
StackMadeUp ==
    /\ \A k \in 1..Len(subagents) : subagents[k].id = MadeUp(k)
    /\ Len(subagents) + Unstarted(1) + Unstarted(2)
          = Len(waiting) + (IF Answering THEN 1 ELSE 0)

\* A subagent's text finds a subagent on the stack.
Hidden(p) ==
    parsed[p].inTask /\ parsed[p].kind \in {"text", "thinking"} =>
        subagents # <<>> \/ (overtaken /\ Given)

StackInv ==
    /\ phase = "running" =>
         /\ Named /\ InOrder /\ \A p \in 1..Len(parsed) : Hidden(p)
         /\ IF Given THEN StackGiven ELSE StackMadeUp
    /\ phase = "exited" => \A p \in 1..Len(parsed) : parsed[p].kind = "none"

-----------------------------------------------------------------------------
(* The ids of calls and results, and which of them match.                  *)

\* The elements of a sequence that grew from two to three.
LEMMA ThirdAppended ==
    ASSUME NEW S, NEW s \in Seq(S), NEW x \in S, NEW r \in Seq(S)
    PROVE  Len(s) = 2 /\ Len(r) = 3 /\ r[1] = s[1] /\ r[2] = s[2] /\ r[3] = x
             => Append(s, x) = r
<1>1. /\ Append(s, x) \in Seq(S) /\ Len(Append(s, x)) = Len(s) + 1
      /\ Append(s, x)[Len(s) + 1] = x
      /\ \A j \in 1..Len(s) : Append(s, x)[j] = s[j]
  <2>1. Append(s, x) \in Seq(S)
    BY AppendProperties
  <2>2. Len(Append(s, x)) = Len(s) + 1
    BY AppendProperties
  <2>3. Append(s, x)[Len(s) + 1] = x
    BY AppendProperties
  <2>4. \A j \in 1..Len(s) : Append(s, x)[j] = s[j]
    BY AppendProperties
  <2> QED
    BY <2>1, <2>2, <2>3, <2>4, Zenon
<1>2. SUFFICES ASSUME Len(s) = 2, Len(r) = 3, r[1] = s[1], r[2] = s[2], r[3] = x
               PROVE  Append(s, x) = r
  OBVIOUS
<1>3. Len(Append(s, x)) = 3 /\ \A j \in 1..3 : Append(s, x)[j] = r[j]
  <2>1. PICK a : a = Append(s, x)
    OBVIOUS
  <2>2. Len(a) = 3 /\ a[3] = x /\ a[1] = s[1] /\ a[2] = s[2]
    BY <1>1, <1>2, <2>1
  <2> QED
    BY <1>2, <2>1, <2>2
<1> QED
  BY <1>1, <1>2, <1>3, SeqEqual

\* The id of a result, written out.
LEMMA ResultIdIs ==
    ASSUME NEW n
    PROVE  ResultId(n) = <<"task", n, "result">>
<1> DEFINE S == {"task", n, "result"}
           s == <<"task", n>>
           r == <<"task", n, "result">>
<1>1. s \in Seq(S) /\ Len(s) = 2 /\ s[1] = "task" /\ s[2] = n
  OBVIOUS
<1>2. r \in Seq(S) /\ Len(r) = 3 /\ r[1] = "task" /\ r[2] = n /\ r[3] = "result"
  OBVIOUS
<1>3. "result" \in S
  OBVIOUS
<1>4. ResultId(n) = Append(s, "result")
  BY DEF ResultId, TaskId
<1> HIDE DEF S, s, r
<1>5. r[1] = s[1] /\ r[2] = s[2]
  BY <1>1, <1>2
<1>6. Append(s, "result") = r
  BY <1>1, <1>2, <1>3, <1>5, ThirdAppended, Zenon
<1> QED
  BY <1>4, <1>6 DEF r

\* Ids of Tasks, their results, tools and made-up ids are all different.
LEMMA IdsDiffer ==
    /\ \A m, n : TaskId(m) = TaskId(n) => m = n
    /\ \A m, n : ResultId(m) = ResultId(n) => m = n
    /\ \A m, n : TaskId(m) # ResultId(n)
    /\ \A n, t : TaskId(n) # <<t>> /\ ResultId(n) # <<t>>
    /\ \A n : TaskId(n) # Blank /\ ResultId(n) # Blank
    /\ \A n : Head(TaskId(n)) = "task" /\ Head(ResultId(n)) = "task"
    /\ \A k : Head(MadeUp(k)) = "__task_" /\ MadeUp(k) # Blank
    /\ \A t, u : <<t>> = <<u>> => t = u
    /\ \A t : <<t>> # Blank
<1>1. \A n : ResultId(n) = <<"task", n, "result">>
  BY ResultIdIs
<1> QED
  BY <1>1 DEF TaskId, MadeUp, Blank

\* A prefix agrees with what it begins.
LEMMA PrefixAgrees ==
    ASSUME NEW S, NEW s \in Seq(S), NEW t \in Seq(S), IsPrefix(s, t)
    PROVE  Len(s) <= Len(t) /\ \A j \in 1..Len(s) : s[j] = t[j]
<1>1. Len(s) \in Nat /\ Len(t) \in Nat /\ Len(s) <= Len(t)
  BY LenProperties DEF IsPrefix
<1>2. SubSeq(s, 1, Len(s)) = SubSeq(t, 1, Len(s))
  BY DEF IsPrefix
<1>3. ASSUME NEW j \in 1..Len(s) PROVE s[j] = t[j]
  <2>1. SubSeq(s, 1, Len(s))[j] = s[j]
    BY <1>1, SubSeqProperties
  <2>2. SubSeq(t, 1, Len(s))[j] = t[j]
    BY <1>1, SubSeqProperties
  <2> QED
    BY <1>2, <2>1, <2>2
<1> QED
  BY <1>1, <1>3

\* A result closes what it is the result of.
LEMMA OwnResultMatches ==
    ASSUME NEW n
    PROVE  /\ RoughlyMatch(TaskId(n), TaskId(n)) /\ RoughlyMatch(TaskId(n), ResultId(n))
<1>1. /\ Len(TaskId(n)) = 2 /\ Len(ResultId(n)) = 3
      /\ ResultId(n) = <<"task", n, "result">> /\ TaskId(n) = <<"task", n>>
  BY ResultIdIs DEF TaskId
<1>2. SubSeq(<<"task", n, "result">>, 1, 2) = SubSeq(<<"task", n>>, 1, 2)
  <2> DEFINE S == {"task", n, "result"}
  <2>1. <<"task", n, "result">> \in Seq(S) /\ <<"task", n>> \in Seq(S)
    OBVIOUS
  <2> DEFINE a == SubSeq(<<"task", n, "result">>, 1, 2)
             b == SubSeq(<<"task", n>>, 1, 2)
  <2>2. a \in Seq(S) /\ Len(a) = 2 /\ a[1] = "task" /\ a[2] = n
    <3>1. /\ Len(<<"task", n, "result">>) = 3
          /\ <<"task", n, "result">>[1] = "task" /\ <<"task", n, "result">>[2] = n
      OBVIOUS
    <3> QED
      BY <2>1, <3>1, SubSeqProperties
  <2>3. b \in Seq(S) /\ Len(b) = 2 /\ b[1] = "task" /\ b[2] = n
    <3>1. Len(<<"task", n>>) = 2 /\ <<"task", n>>[1] = "task" /\ <<"task", n>>[2] = n
      OBVIOUS
    <3> QED
      BY <2>1, <3>1, SubSeqProperties
  <2> HIDE DEF S, a, b
  <2>4. \A j \in 1..2 : a[j] = b[j]
    BY <2>2, <2>3
  <2>5. a = b
    BY <2>2, <2>3, <2>4, SeqEqual
  <2> QED
    BY <2>5 DEF a, b
<1>3. IsPrefix(TaskId(n), TaskId(n)) /\ IsPrefix(TaskId(n), ResultId(n))
  BY <1>1, <1>2 DEF IsPrefix
<1> QED
  BY <1>3, IdsDiffer DEF RoughlyMatch

\* Two ids of which one begins the other begin alike.
LEMMA MatchBegins ==
    ASSUME NEW S, NEW s \in Seq(S), NEW t \in Seq(S), RoughlyMatch(s, t)
    PROVE  \A j \in 1..Len(s) : j \in 1..Len(t) => s[j] = t[j]
<1>1. IsPrefix(s, t) \/ IsPrefix(t, s)
  BY DEF RoughlyMatch
<1>2. \/ \A j \in 1..Len(s) : s[j] = t[j]
      \/ \A j \in 1..Len(t) : t[j] = s[j]
  BY <1>1, PrefixAgrees
<1> QED
  BY <1>2

\* It closes nothing else, and no tool's result closes a Task.
LEMMA OthersDoNotMatch ==
    /\ \A m, n : RoughlyMatch(TaskId(m), TaskId(n)) \/ RoughlyMatch(TaskId(m), ResultId(n)) => m = n
    /\ \A m : \A t \in ToolIds : ~RoughlyMatch(TaskId(m), <<t>>)
    /\ \A k : \A t \in ToolIds : ~RoughlyMatch(MadeUp(k), <<t>>)
    /\ \A k, n : ~RoughlyMatch(MadeUp(k), TaskId(n))
<1>1. ASSUME NEW m, NEW n, NEW id, id = TaskId(n) \/ id = ResultId(n),
             RoughlyMatch(TaskId(m), id)
      PROVE  m = n
  <2> DEFINE S == {"task", m, n, "result"}
  <2>1. TaskId(m) \in Seq(S) /\ Len(TaskId(m)) = 2 /\ TaskId(m)[2] = m
    BY DEF TaskId
  <2>2. id \in Seq(S) /\ Len(id) \in {2, 3} /\ id[2] = n
    <3>1. id = <<"task", n>> \/ id = <<"task", n, "result">>
      BY <1>1, ResultIdIs DEF TaskId
    <3>2. CASE id = <<"task", n>>
      BY <3>2
    <3>3. CASE id = <<"task", n, "result">>
      BY <3>3
    <3> QED
      BY <3>1, <3>2, <3>3
  <2> HIDE DEF S
  <2>3. 2 \in 1..Len(TaskId(m)) /\ 2 \in 1..Len(id)
    BY <2>1, <2>2
  <2> QED
    BY <1>1, <2>1, <2>2, <2>3, MatchBegins
<1>2. ASSUME NEW m, NEW t \in ToolIds, NEW a \in {"task", "__task_"}
      PROVE ~RoughlyMatch(<<a, m>>, <<t>>)
  <2>0. PICK s, id : s = <<a, m>> /\ id = <<t>>
    OBVIOUS
  <2>1. /\ id \in Seq({a, m, t}) /\ s \in Seq({a, m, t})
        /\ Len(id) = 1 /\ id[1] = t /\ Len(s) = 2 /\ s[1] = a
    BY <2>0
  <2>2. t # a
    BY TranscriptAssumption
  <2>3. 1 \in 1..Len(s) /\ 1 \in 1..Len(id)
    BY <2>1
  <2>4. ~RoughlyMatch(s, id)
    BY <2>1, <2>2, <2>3, MatchBegins
  <2> QED
    BY <2>0, <2>4
<1>5. ASSUME NEW m, NEW n PROVE ~RoughlyMatch(<<"__task_", m>>, <<"task", n>>)
  <2>0. PICK s, id : s = <<"__task_", m>> /\ id = <<"task", n>>
    OBVIOUS
  <2> DEFINE S == {"__task_", "task", m, n}
  <2>1. /\ id \in Seq(S) /\ s \in Seq(S)
        /\ Len(id) = 2 /\ id[1] = "task" /\ Len(s) = 2 /\ s[1] = "__task_"
    BY <2>0
  <2> HIDE DEF S
  <2>3. 1 \in 1..Len(s) /\ 1 \in 1..Len(id)
    BY <2>1
  <2>4. ~RoughlyMatch(s, id)
    BY <2>1, <2>3, MatchBegins
  <2> QED
    BY <2>0, <2>4
<1> QED
  BY <1>1, <1>2, <1>5 DEF TaskId, MadeUp

-----------------------------------------------------------------------------
(* The lines that change who waits.                                        *)

\* What the stack is when the handler has nothing left to process.
LEMMA AtRest ==
    ASSUME BlockInv, StackInv, phase = "running", parsed = <<>>
    PROVE  /\ Len(parsed) = 0 /\ Named /\ InOrder
           /\ Given =>
                /\ \A k \in 1..Len(subagents) : \E n \in 1..started : Stacked(k, n) /\ Waits(n)
                /\ \A j, k \in 1..Len(subagents) : \A m, n \in 1..started :
                      j < k /\ Stacked(j, m) /\ Stacked(k, n) => m < n
                /\ ~overtaken => \A n \in 1..started : Waits(n) => OnStack(n)
           /\ ~Given => /\ \A k \in 1..Len(subagents) : subagents[k].id = MadeUp(k)
                        /\ Len(subagents) = Len(waiting)
           /\ waiting # <<>> => subagents # <<>> \/ (overtaken /\ Given)
<1>1. Len(parsed) = 0 /\ ~Resulting
  BY DEF Resulting
<1>2. Named /\ InOrder /\ IF Given THEN StackGiven ELSE StackMadeUp
  BY DEF StackInv
<1>3. /\ waiting \in Seq(Nat) /\ \A w \in 1..Len(waiting) : waiting[w] \in 1..started
      /\ Len(waiting) \in Nat /\ Len(subagents) \in Nat
      /\ waiting # <<>> => Len(waiting) > 0
      /\ Len(subagents) > 0 => subagents # <<>>
  <2>1. /\ waiting \in Seq(Nat) /\ \A w \in 1..Len(waiting) : waiting[w] \in 1..started
        /\ subagents \in Seq([id : StackIds, segment : Nat])
    BY DEF BlockInv, Shapes
  <2> QED
    BY <2>1, EmptySeq, LenProperties
<1>4. \A n : ~Answers(n) /\ ~Pending(n)
  BY <1>1 DEF Answers, Pending
<1>5. CASE Given
  <2>1. /\ \A k \in 1..Len(subagents) : \E n \in 1..started : Stacked(k, n) /\ Waits(n)
        /\ \A j, k \in 1..Len(subagents) : \A m, n \in 1..started :
              j < k /\ Stacked(j, m) /\ Stacked(k, n) => m < n
        /\ ~overtaken => \A n \in 1..started : Waits(n) => OnStack(n)
    BY <1>2, <1>4, <1>5 DEF StackGiven
  <2>2. ~overtaken /\ waiting # <<>> => subagents # <<>>
    <3>1. SUFFICES ASSUME ~overtaken, waiting # <<>> PROVE subagents # <<>>
      OBVIOUS
    <3>2. waiting[1] \in 1..started /\ Waits(waiting[1])
      BY <1>3, <3>1 DEF Waits
    <3>3. OnStack(waiting[1])
      BY <2>1, <3>1, <3>2
    <3> QED
      BY <1>3, <3>3 DEF OnStack
  <2>3. overtaken \in BOOLEAN
    BY DEF BlockInv, Shapes
  <2> QED
    BY <1>1, <1>2, <1>5, <2>1, <2>2, <2>3
<1>6. CASE ~Given
  <2>1. Unstarted(1) = 0 /\ Unstarted(2) = 0 /\ ~Answering
    BY <1>1 DEF Unstarted, Answering
  <2>2. Len(subagents) = Len(waiting) /\ \A k \in 1..Len(subagents) : subagents[k].id = MadeUp(k)
    BY <1>2, <1>3, <1>6, <2>1 DEF StackMadeUp
  <2> QED
    BY <1>1, <1>2, <1>3, <1>6, <2>2
<1> QED
  BY <1>5, <1>6

\* A line that neither starts a Task nor answers one.
LEMMA PlainLine ==
    ASSUME BlockInv, StackInv, NEW cost \in 0..2, Line(cost), BlockInv',
           UNCHANGED <<phase, started, waiting, overtaken>>,
           \A p \in 1..Len(parsed') : ~Calls(p)' /\ parsed'[p].inTask = (waiting # <<>>),
           ~Answering', \A n \in 1..started : ~Answers(n)'
    PROVE  StackInv'
<1>1. AfterLine(cost)
  BY LineKeeps
<1>2. /\ phase = "running" /\ parsed = <<>>
      /\ UNCHANGED <<style, names, subagents, phase, started, waiting, overtaken>>
  BY <1>1 DEF AfterLine
<1>3. /\ Len(parsed) = 0 /\ Named /\ InOrder
      /\ Given =>
           /\ \A k \in 1..Len(subagents) : \E n \in 1..started : Stacked(k, n) /\ Waits(n)
           /\ \A j, k \in 1..Len(subagents) : \A m, n \in 1..started :
                 j < k /\ Stacked(j, m) /\ Stacked(k, n) => m < n
           /\ ~overtaken => \A n \in 1..started : Waits(n) => OnStack(n)
      /\ ~Given => /\ \A k \in 1..Len(subagents) : subagents[k].id = MadeUp(k)
                   /\ Len(subagents) = Len(waiting)
      /\ waiting # <<>> => subagents # <<>> \/ (overtaken /\ Given)
  BY <1>2, AtRest
<1>4. \A p \in 1..Len(parsed') : ~StartsTask(p)' /\ \A n : ~Begins(p, n)'
  BY DEF StartsTask, Begins
<1>5. Named'
  BY <1>2, <1>3, <1>4 DEF Named
<1>6. InOrder'
  BY <1>2, <1>3 DEF InOrder
<1>7. \A p \in 1..Len(parsed') : Hidden(p)'
  <2>1. SUFFICES ASSUME NEW p \in 1..Len(parsed'), parsed'[p].inTask
                 PROVE  subagents' # <<>> \/ (overtaken' /\ Given')
    BY DEF Hidden
  <2>2. waiting # <<>>
    BY <2>1, Zenon
  <2>3. UNCHANGED <<subagents, overtaken, style>>
    BY <1>2
  <2> QED
    BY <1>3, <2>2, <2>3 DEF Given
<1>8. Given' = Given
  BY <1>2 DEF Given
<1>9. Given => StackGiven'
  <2>1. SUFFICES ASSUME Given PROVE StackGiven'
    OBVIOUS
  <2>2. \A n : (Waits(n)' <=> Waits(n)) /\ (OnStack(n)' <=> OnStack(n))
    BY <1>2 DEF Waits, OnStack, Stacked
  <2>3. \A k, n : Stacked(k, n)' <=> Stacked(k, n)
    BY <1>2 DEF Stacked
  <2> QED
    BY <1>2, <1>3, <1>4, <2>1, <2>2, <2>3 DEF StackGiven
<1>10. ~Given => StackMadeUp'
  <2>1. SUFFICES ASSUME ~Given PROVE StackMadeUp'
    OBVIOUS
  <2>2. Unstarted(1)' = 0 /\ Unstarted(2)' = 0
    <3>1. Len(parsed') \in Nat
      BY DEF BlockInv, Shapes
    <3> QED
      BY <1>4, <3>1 DEF Unstarted
  <2>3. Len(subagents) \in Nat /\ Len(subagents) = Len(waiting)
    BY <1>3, <2>1 DEF BlockInv, Shapes
  <2> QED
    BY <1>2, <1>3, <2>1, <2>2, <2>3 DEF StackMadeUp
<1> QED
  BY <1>2, <1>5, <1>6, <1>7, <1>8, <1>9, <1>10 DEF StackInv

\* A delta: the stack and the Tasks that wait stay, and so for the next lines.
LEMMA BlockDeltaStack ==
    ASSUME BlockInv, StackInv, NEW i \in Index, BlockDelta(i)
    PROVE  StackInv'
<1>1. PICK e : e = Parsed("delta", i, blocks[i].kind, Blank, blocks[i].n)
  OBVIOUS
<1>2. /\ Line(1) /\ parsed' = <<e>> /\ blocks[i].n # 0 /\ BlockInv'
      /\ UNCHANGED <<started, waiting, overtaken, phase>>
  BY <1>1, BlockDeltaInv DEF BlockDelta
<1>3. Shapes /\ Lines
  BY DEF BlockInv
<1>4. blocks[i].kind \in Kinds /\ blocks[i].n \in Nat
  BY <1>2, <1>3 DEF Lines, Shapes
<1>5. e \in Event /\ e.type = "delta" /\ e.inTask = (waiting # <<>>)
  BY <1>1, <1>3, <1>4, ParsedEvent DEF Shapes, EventIds, CallIds
<1>6. Len(parsed') = 1 /\ parsed'[1] = e
  BY <1>2, <1>5, OneEvent
<1>7. \A p \in 1..Len(parsed') : ~Calls(p)' /\ parsed'[p].inTask = (waiting # <<>>)
  BY <1>5, <1>6 DEF Calls
<1>8. ~Resulting'
  BY <1>5, <1>6 DEF Resulting
<1> QED
  BY <1>2, <1>7, <1>8, PlainLine DEF Answering, Answers

\* A stop.
LEMMA BlockStopStack ==
    ASSUME BlockInv, StackInv, NEW i \in Index, BlockStop(i)
    PROVE  StackInv'
<1>1. PICK e : e = Parsed("stop", i, "none", Blank, 0)
  OBVIOUS
<1>2. /\ Line(1) /\ parsed' = <<e>> /\ BlockInv'
      /\ UNCHANGED <<started, waiting, overtaken, phase>>
  BY <1>1, BlockStopInv DEF BlockStop
<1>5. e \in Event /\ e.type = "stop" /\ e.inTask = (waiting # <<>>)
  BY <1>1, ParsedEvent DEF BlockInv, Shapes, EventIds, CallIds
<1>6. Len(parsed') = 1 /\ parsed'[1] = e
  BY <1>2, <1>5, OneEvent
<1>7. \A p \in 1..Len(parsed') : ~Calls(p)' /\ parsed'[p].inTask = (waiting # <<>>)
  BY <1>5, <1>6 DEF Calls
<1>8. ~Resulting'
  BY <1>5, <1>6 DEF Resulting
<1> QED
  BY <1>2, <1>7, <1>8, PlainLine DEF Answering, Answers

\* An error line.
LEMMA ErrorLineStack ==
    ASSUME BlockInv, StackInv, ErrorLine
    PROVE  StackInv'
<1>1. PICK e : e = Parsed("error", -1, "none", Blank, 0)
  OBVIOUS
<1>2. /\ Line(1) /\ parsed' = <<e>> /\ BlockInv'
      /\ UNCHANGED <<started, waiting, overtaken, phase>>
  BY <1>1, ErrorLineInv DEF ErrorLine
<1>5. e \in Event /\ e.type = "error" /\ e.inTask = (waiting # <<>>)
  BY <1>1, ParsedEvent DEF BlockInv, Shapes, EventIds, CallIds
<1>6. Len(parsed') = 1 /\ parsed'[1] = e
  BY <1>2, <1>5, OneEvent
<1>7. \A p \in 1..Len(parsed') : ~Calls(p)' /\ parsed'[p].inTask = (waiting # <<>>)
  BY <1>5, <1>6 DEF Calls
<1>8. ~Resulting'
  BY <1>5, <1>6 DEF Resulting
<1> QED
  BY <1>2, <1>7, <1>8, PlainLine DEF Answering, Answers

\* The end of a message.
LEMMA MessageStopStack ==
    ASSUME BlockInv, StackInv, MessageStop
    PROVE  StackInv'
<1>1. Line(0) /\ AfterLine(0)
  BY LineKeeps DEF MessageStop
<1>2. /\ parsed' = <<>> /\ Len(parsed') = 0 /\ BlockInv'
      /\ UNCHANGED <<started, waiting, overtaken, phase>>
  BY <1>1, MessageStopInv DEF MessageStop, AfterLine
<1>3. ~Resulting'
  BY <1>2 DEF Resulting
<1> QED
  BY <1>1, <1>2, <1>3, PlainLine DEF Answering, Answers

\* The result of a tool: no Task has its id.
LEMMA ToolResultStack ==
    ASSUME BlockInv, StackInv, NEW tool \in ToolIds, ToolResult(tool)
    PROVE  StackInv'
<1>1. PICK e : e = Parsed("result", -1, "tool", <<tool>>, 0)
  OBVIOUS
<1>2. /\ Line(1) /\ parsed' = <<e>> /\ BlockInv' /\ names[<<tool>>] # "none"
      /\ UNCHANGED <<started, waiting, overtaken, phase>>
  BY <1>1, ToolResultInv DEF ToolResult
<1>3. <<tool>> \in EventIds /\ "tool" \in Kinds /\ waiting \in Seq(Nat)
  BY DEF EventIds, CallIds, Ids, Kinds, BlockInv, Shapes
<1>4. e \in Event /\ e.type = "result" /\ e.id = <<tool>> /\ e.inTask = (waiting # <<>>)
  BY <1>1, <1>3, ParsedEvent
<1>5. Len(parsed') = 1 /\ parsed'[1] = e
  BY <1>2, <1>4, OneEvent
<1>6. \A p \in 1..Len(parsed') : ~Calls(p)' /\ parsed'[p].inTask = (waiting # <<>>)
  BY <1>4, <1>5 DEF Calls
<1>7. names'[<<tool>>] = "tool"
  <2>1. phase = "running" /\ parsed = <<>> /\ names' = names
    BY <1>2, LineKeeps DEF AfterLine
  <2>2. Named
    BY <2>1, AtRest
  <2> QED
    BY <1>2, <2>1, <2>2 DEF Named
<1>8. OfTool'
  BY <1>4, <1>5, <1>7 DEF OfTool
<1>9. \A n \in 1..started : ~Answers(n)'
  BY <1>4, <1>5, IdsDiffer DEF Answers
<1> QED
  BY <1>2, <1>6, <1>8, <1>9, PlainLine DEF Answering

\* After the exit only events without content are left.
LEMMA ExitStack ==
    ASSUME BlockInv, StackInv, NEW failed \in BOOLEAN, Exit(failed)
    PROVE  StackInv'
BY LastEvents DEF StackInv, Exit

\* A line that starts Tasks, or none: of one block or of two.
LEMMA TasksLine ==
    ASSUME BlockInv, StackInv, NEW cost \in 0..2, Line(cost), BlockInv',
           UNCHANGED <<phase, overtaken>>,
           NEW content, NEW a \in Kinds, NEW b \in Kinds,
           content = <<a>> \/ content = <<a, b>>,
           StartTasks(content), Len(parsed') = Len(content), NEW tool \in ToolIds,
           \A p \in 1..Len(content) :
              /\ parsed'[p].type \in {"start", "chunk"}
              /\ parsed'[p].kind = ToolKind(content[p])
              /\ parsed'[p].name = IF content[p] = "task" THEN "Task" ELSE "tool"
              /\ parsed'[p].id = CallId(content[p], tool, started + TasksIn(SubSeq(content, 1, p)))
              /\ parsed'[p].inTask = (waiting # <<>>)
    PROVE  StackInv'
<1>1. AfterLine(cost)
  BY LineKeeps
<1>2. /\ phase = "running" /\ parsed = <<>>
      /\ UNCHANGED <<style, names, subagents, phase, overtaken>>
  BY <1>1 DEF AfterLine
<1>3. /\ Len(parsed) = 0 /\ Named /\ InOrder
      /\ Given =>
           /\ \A k \in 1..Len(subagents) : \E n \in 1..started : Stacked(k, n) /\ Waits(n)
           /\ \A j, k \in 1..Len(subagents) : \A m, n \in 1..started :
                 j < k /\ Stacked(j, m) /\ Stacked(k, n) => m < n
           /\ ~overtaken => \A n \in 1..started : Waits(n) => OnStack(n)
      /\ ~Given => /\ \A k \in 1..Len(subagents) : subagents[k].id = MadeUp(k)
                   /\ Len(subagents) = Len(waiting)
      /\ waiting # <<>> => subagents # <<>> \/ (overtaken /\ Given)
  BY <1>2, AtRest
<1> DEFINE tasks == TasksIn(content)
           num(p) == started + TasksIn(SubSeq(content, 1, p))
<1>4. /\ Len(content) \in 1..2 /\ tasks \in 0..2
      /\ content[1] = a /\ (Len(content) = 2 => content[2] = b)
      /\ num(1) = started + (IF a = "task" THEN 1 ELSE 0)
      /\ Len(content) = 2 =>
           /\ num(2) = started + (IF a = "task" THEN 1 ELSE 0) + (IF b = "task" THEN 1 ELSE 0)
           /\ tasks = (IF a = "task" THEN 1 ELSE 0) + (IF b = "task" THEN 1 ELSE 0)
      /\ Len(content) = 1 => tasks = (IF a = "task" THEN 1 ELSE 0)
  <2>1. started \in Nat
    BY TranscriptAssumption DEF BlockInv, Shapes
  <2>a. /\ Len(content) = 2 => TasksIn(SubSeq(content, 1, Len(content))) = TasksIn(SubSeq(content, 1, 2))
        /\ Len(content) = 1 => TasksIn(SubSeq(content, 1, Len(content))) = TasksIn(SubSeq(content, 1, 1))
    OBVIOUS
  <2>2. /\ Len(content) \in 1..2
        /\ content[1] = a /\ (Len(content) = 2 => content[2] = b)
        /\ TasksIn(SubSeq(content, 1, 1)) = (IF a = "task" THEN 1 ELSE 0)
        /\ Len(content) = 2 =>
             TasksIn(SubSeq(content, 1, 2))
               = (IF a = "task" THEN 1 ELSE 0) + (IF b = "task" THEN 1 ELSE 0)
        /\ TasksIn(content) = TasksIn(SubSeq(content, 1, Len(content)))
        /\ TasksIn(content) \in 0..2
    <3>1. content = <<a>> \/ content = <<a, b>>
      OBVIOUS
    <3>2. DOMAIN content = 1..Len(content)
      BY ONLY <3>1, TasksUpTo
    <3>3. Len(content) \in 1..2 /\ content[1] = a /\ (Len(content) = 2 => content[2] = b)
      BY ONLY <3>1, TasksUpTo
    <3>4. TasksIn(SubSeq(content, 1, 1)) = (IF a = "task" THEN 1 ELSE 0)
      BY ONLY <3>1, TasksUpTo
    <3>5. Len(content) = 2 =>
             TasksIn(SubSeq(content, 1, 2))
               = (IF a = "task" THEN 1 ELSE 0) + (IF b = "task" THEN 1 ELSE 0)
      BY ONLY <3>1, TasksUpTo
    <3>6. TasksIn(content) = TasksIn(SubSeq(content, 1, Len(content))) /\ TasksIn(content) \in 0..2
      BY ONLY <3>1, TasksUpTo
    <3> QED
      BY <3>3, <3>4, <3>5, <3>6
  <2> QED
    BY <2>1, <2>a, <2>2
<1>5. /\ started \in Nat /\ waiting \in Seq(Nat) /\ Len(waiting) \in Nat
      /\ \A w \in 1..Len(waiting) : waiting[w] \in 1..started
      /\ started' = started + tasks /\ started' <= MaxTasks /\ MaxTasks \in Nat
      /\ Len(waiting') = Len(waiting) + tasks
      /\ \A w \in 1..Len(waiting) : waiting'[w] = waiting[w]
      /\ \A j \in 1..tasks : waiting'[Len(waiting) + j] = started + j
  <2>1. /\ started \in 0..MaxTasks /\ waiting \in Seq(Nat) /\ MaxTasks \in Nat
        /\ \A w \in 1..Len(waiting) : waiting[w] \in 1..started
    BY TranscriptAssumption DEF BlockInv, Shapes
  <2> QED
    BY <1>4, <2>1, TasksWait, LenProperties
<1>6. \A p \in 1..Len(parsed') :
        /\ parsed'[p].id = CallId(content[p], tool, num(p))
        /\ parsed'[p].type \in {"start", "chunk"} /\ parsed'[p].kind = ToolKind(content[p])
        /\ parsed'[p].name = IF content[p] = "task" THEN "Task" ELSE "tool"
        /\ content[p] \in Kinds
  BY <1>4
<1>7. parsed'[1].inTask = (waiting # <<>>) /\ \A p \in 1..Len(parsed') : p \in 1..2
  BY <1>4
<1> HIDE DEF tasks, num
<1>8. \A p \in 1..Len(parsed') :
        /\ StartsTask(p)' <=> content[p] = "task"
        /\ Calls(p)' /\ ~StartsTask(p)' => content[p] = "tool"
  BY <1>6 DEF StartsTask, Calls, ToolKind, Kinds
<1>9. /\ Given' = Given
      /\ \A p \in 1..Len(parsed') : content[p] = "task" =>
            parsed'[p].id = IF Given THEN TaskId(num(p)) ELSE Blank
      /\ \A p \in 1..Len(parsed') : content[p] = "tool" => parsed'[p].id = <<tool>>
  BY <1>2, <1>6 DEF CallId, Given
\* The Tasks that start are those of the numbers that are next.
<1>10. /\ \A p \in 1..Len(parsed') : content[p] = "task" =>
             num(p) \in 1..started' /\ num(p) > started
       /\ \A p, q \in 1..Len(parsed') :
             p < q /\ content[p] = "task" /\ content[q] = "task" => num(p) < num(q)
       /\ \A n \in 1..started' : n > started =>
             \E p \in 1..Len(parsed') : content[p] = "task" /\ num(p) = n
  <2>1. CASE Len(content) = 1
    BY <1>4, <1>5, <2>1
  <2>2. CASE Len(content) = 2
    <3>1. /\ 1 \in 1..Len(parsed') /\ 2 \in 1..Len(parsed')
          /\ \A p \in 1..Len(parsed') : p = 1 \/ p = 2
      BY <1>7, <2>2
    <3> QED
      BY <1>4, <1>5, <2>2, <3>1
  <2> QED
    BY <1>4, <2>1, <2>2
<1>11. \A n \in Nat : Waits(n)' <=> Waits(n) \/ n \in (started + 1)..started'
  <2>1. ASSUME NEW n \in Nat, Waits(n)' PROVE Waits(n) \/ n \in (started + 1)..started'
    <3>1. PICK w \in 1..Len(waiting') : waiting'[w] = n
      BY <2>1 DEF Waits
    <3>2. CASE w <= Len(waiting)
      <4>1. w \in 1..Len(waiting)
        BY <1>5, <3>2
      <4> QED
        BY <1>5, <3>1, <4>1 DEF Waits
    <3>3. CASE w > Len(waiting)
      <4>1. PICK j : j = w - Len(waiting)
        OBVIOUS
      <4>2. j \in 1..tasks /\ Len(waiting) + j = w
        BY <1>4, <1>5, <3>3, <4>1
      <4>3. n = started + j
        BY <1>5, <3>1, <4>2
      <4> QED
        BY <1>4, <1>5, <4>2, <4>3
    <3> QED
      BY <1>5, <3>2, <3>3
  <2>2. ASSUME NEW n \in Nat, Waits(n) PROVE Waits(n)'
    BY <1>4, <1>5, <2>2 DEF Waits
  <2>3. ASSUME NEW n \in (started + 1)..started' PROVE Waits(n)'
    <3>1. PICK j : j = n - started
      OBVIOUS
    <3>a. tasks \in Nat /\ started \in Nat /\ Len(waiting) \in Nat
      BY <1>4, <1>5
    <3>b. started' = started + tasks /\ Len(waiting') = Len(waiting) + tasks
      BY <1>5
    <3>2. j \in 1..tasks /\ n = started + j /\ Len(waiting) + j \in 1..Len(waiting')
      BY <2>3, <3>a, <3>b, <3>1
    <3> QED
      BY <1>5, <3>2 DEF Waits
  <2> QED
    BY <1>5, <2>1, <2>2, <2>3
<1>12. ~Resulting'
  BY <1>4, <1>6 DEF Resulting
<1>13. Named'
  <2>1. \A p \in 1..Len(parsed') : StartsTask(p)' =>
          IF Given' THEN \E n \in 1..started' : parsed'[p].id = TaskId(n)
                    ELSE parsed'[p].id = Blank
    BY <1>8, <1>9, <1>10
  <2>2. \A p \in 1..Len(parsed') : Calls(p)' /\ ~StartsTask(p)' =>
          parsed'[p].name = "tool" /\ \E t \in ToolIds : parsed'[p].id = <<t>>
    BY <1>6, <1>8, <1>9
  <2> QED
    BY <1>2, <1>3, <1>12, <2>1, <2>2 DEF Named, Answering
<1>14. InOrder'
  <2>1. SUFFICES ASSUME NEW v \in 1..Len(waiting'), NEW w \in 1..Len(waiting'), v < w
                 PROVE  waiting'[v] < waiting'[w]
    BY DEF InOrder
  <2>2. \A u \in 1..Len(waiting') : u > Len(waiting) =>
          waiting'[u] = started + (u - Len(waiting)) /\ u - Len(waiting) > 0
    <3>1. SUFFICES ASSUME NEW u \in 1..Len(waiting'), u > Len(waiting)
                   PROVE  waiting'[u] = started + (u - Len(waiting)) /\ u - Len(waiting) > 0
      OBVIOUS
    <3>2. PICK j : j = u - Len(waiting)
      OBVIOUS
    <3>3. j \in 1..tasks /\ Len(waiting) + j = u
      BY <1>4, <1>5, <3>1, <3>2
    <3> QED
      BY <1>5, <3>2, <3>3
  <2>3. CASE w <= Len(waiting)
    <3>1. v \in 1..Len(waiting) /\ w \in 1..Len(waiting)
      BY <1>5, <2>1, <2>3
    <3> QED
      BY <1>3, <1>5, <2>1, <3>1 DEF InOrder
  <2>4. CASE w > Len(waiting) /\ v <= Len(waiting)
    <3>1. v \in 1..Len(waiting) /\ waiting'[v] \in 1..started
      BY <1>5, <2>1, <2>4
    <3> QED
      BY <1>5, <2>1, <2>2, <2>4, <3>1
  <2>5. CASE w > Len(waiting) /\ v > Len(waiting)
    BY <1>5, <2>1, <2>2, <2>5
  <2> QED
    BY <1>5, <2>3, <2>4, <2>5
<1>15. \A p \in 1..Len(parsed') : Hidden(p)'
  <2>1. SUFFICES ASSUME NEW p \in 1..Len(parsed'), parsed'[p].inTask
                 PROVE  subagents' # <<>> \/ (overtaken' /\ Given')
    BY DEF Hidden
  <2>2. waiting # <<>>
    BY <2>1, Zenon
  <2> QED
    BY <1>2, <1>3, <1>9, <2>2
<1>16. Given => StackGiven'
  <2>1. SUFFICES ASSUME Given PROVE StackGiven'
    OBVIOUS
  <2>2. \A k, n : (Stacked(k, n)' <=> Stacked(k, n)) /\ (OnStack(n)' <=> OnStack(n))
    BY <1>2 DEF OnStack, Stacked
  <2>3. \A p \in 1..Len(parsed') : \A n : Begins(p, n)' <=> content[p] = "task" /\ n = num(p)
    BY <1>8, <1>9, <2>1, IdsDiffer DEF Begins
  <2>4. \A n : ~Answers(n)'
    BY <1>12 DEF Answers
  <2>5. \A k \in 1..Len(subagents) : \A m \in 1..started' : Stacked(k, m) => m \in 1..started
    BY <1>3, <2>1, IdsDiffer DEF Stacked
  <2>6. \A k \in 1..Len(subagents') : \E n \in 1..started' : Stacked(k, n)' /\ Waits(n)'
    <3>1. \A n \in 1..started : n \in 1..started' /\ n \in Nat
      BY <1>4, <1>5
    <3> QED
      BY <1>2, <1>3, <1>11, <2>1, <2>2, <3>1
  <2>7. \A j, k \in 1..Len(subagents') : \A m, n \in 1..started' :
          j < k /\ Stacked(j, m)' /\ Stacked(k, n)' => m < n
    BY <1>2, <1>3, <2>1, <2>2, <2>5
  <2>8. \A p \in 1..Len(parsed') : \A n \in 1..started' : Begins(p, n)' => Waits(n)'
    BY <1>5, <1>10, <1>11, <2>3
  <2>9. \A p \in 1..Len(parsed') : \A k \in 1..Len(subagents') : \A m, n \in 1..started' :
          Stacked(k, m)' /\ Begins(p, n)' => m < n
    BY <1>2, <1>5, <1>10, <2>2, <2>3, <2>5
  <2>10. \A p, q \in 1..Len(parsed') : \A m, n \in 1..started' :
          p < q /\ Begins(p, m)' /\ Begins(q, n)' => m < n
    BY <1>10, <2>3
  <2>11. ~overtaken' => \A n \in 1..started' : Waits(n)' => OnStack(n)' \/ Pending(n)'
    <3>1. ASSUME ~overtaken', NEW n \in 1..started', Waits(n)', ~(n > started)
          PROVE  OnStack(n)'
      <4>1. Waits(n) /\ n \in 1..started
        BY <1>5, <1>11, <3>1
      <4> QED
        BY <1>2, <1>3, <2>1, <2>2, <3>1, <4>1
    <3>2. ASSUME NEW n \in 1..started', n > started PROVE Pending(n)'
      BY <1>10, <2>3, <3>2 DEF Pending
    <3> QED
      BY <3>1, <3>2
  <2> QED
    BY <2>4, <2>6, <2>7, <2>8, <2>9, <2>10, <2>11 DEF StackGiven
<1>17. ~Given => StackMadeUp'
  <2>1. SUFFICES ASSUME ~Given PROVE StackMadeUp'
    OBVIOUS
  <2>2. Unstarted(1)' + Unstarted(2)' = tasks
    <3>1. 1 \in 1..Len(parsed') /\ (Len(content) = 2 => 2 \in 1..Len(parsed'))
      BY <1>4
    <3>2. /\ Unstarted(1)' = (IF a = "task" THEN 1 ELSE 0)
          /\ Unstarted(2)' = (IF Len(content) = 2 /\ b = "task" THEN 1 ELSE 0)
      BY <1>4, <1>8, <3>1 DEF Unstarted
    <3> QED
      BY <1>4, <3>2
  <2>3. Unstarted(1)' \in 0..1 /\ Unstarted(2)' \in 0..1
    BY DEF Unstarted
  <2>4. Len(subagents') = Len(waiting) /\ ~Answering'
    BY <1>2, <1>3, <1>12, <2>1 DEF Answering
  <2>5. Len(subagents') + Unstarted(1)' + Unstarted(2)' = Len(waiting')
    BY <1>4, <1>5, <2>2, <2>3, <2>4
  <2>6. \A k \in 1..Len(subagents') : subagents'[k].id = MadeUp(k)
    BY <1>2, <1>3, <2>1
  <2>7. Len(waiting') \in Nat
    BY <1>4, <1>5
  <2> QED
    BY <2>4, <2>5, <2>6, <2>7 DEF StackMadeUp
<1> QED
  BY <1>2, <1>9, <1>13, <1>14, <1>15, <1>16, <1>17 DEF StackInv

\* A whole message: each of its Tasks waits from now on, and starts when its event has its turn.
LEMMA AssistantMessageStack ==
    ASSUME BlockInv, StackInv, NEW content \in SeqOf(Kinds, 2) \ {<<>>}, NEW tool \in ToolIds,
           AssistantMessage(content, tool)
    PROVE  StackInv'
<1>1. /\ Line(Len(content)) /\ StartTasks(content) /\ UNCHANGED <<phase, overtaken>> /\ BlockInv'
  BY AssistantMessageInv DEF AssistantMessage
<1>2. /\ Len(parsed') = Len(content) /\ Len(content) \in 1..2
      /\ \A j \in 1..Len(content) :
           /\ content[j] \in Kinds
           /\ parsed'[j].type = "chunk" /\ parsed'[j].kind = ToolKind(content[j])
           /\ parsed'[j].name = IF content[j] = "task" THEN "Task" ELSE "tool"
           /\ parsed'[j].id = CallId(content[j], tool, started + TasksIn(SubSeq(content, 1, j)))
           /\ parsed'[j].inTask = (waiting # <<>>)
  BY Chunks
<1>3. PICK a \in Kinds, b \in Kinds : content = <<a>> \/ content = <<a, b>>
  <2>1. content[1] \in Kinds /\ (Len(content) = 2 => content[2] \in Kinds)
    BY <1>2
  <2>2. content = <<content[1]>> \/ content = <<content[1], content[2]>>
    BY Contents
  <2>3. CASE Len(content) = 2
    <3>1. content[1] \in Kinds /\ content[2] \in Kinds
      BY <2>1, <2>3
    <3> QED
      BY <2>2, <3>1, Zenon
  <2>4. CASE Len(content) = 1
    <3>1. content = <<content[1]>>
      BY <2>2, <2>4
    <3> QED
      BY <2>1, <3>1, Zenon
  <2> QED
    BY <1>2, <2>3, <2>4
<1>4. Len(content) \in 0..2
  BY <1>2
<1>5. \A p \in 1..Len(content) :
        /\ parsed'[p].type \in {"start", "chunk"}
        /\ parsed'[p].kind = ToolKind(content[p])
        /\ parsed'[p].name = IF content[p] = "task" THEN "Task" ELSE "tool"
        /\ parsed'[p].id = CallId(content[p], tool, started + TasksIn(SubSeq(content, 1, p)))
        /\ parsed'[p].inTask = (waiting # <<>>)
  BY <1>2, Zenon
<1> HIDE <1>2
<1>6. Len(parsed') = Len(content)
  BY <1>2
<1> QED
  BY <1>1, <1>3, <1>4, <1>5, <1>6, TasksLine, Zenon

\* A Task block starts: it waits, and is the youngest.
LEMMA BlockStartStack ==
    ASSUME BlockInv, StackInv, NEW i \in Index, NEW kind \in Kinds, NEW tool \in ToolIds,
           BlockStart(i, kind, tool)
    PROVE  StackInv'
<1>n. PICK n : n = sent + 1
  OBVIOUS
<1>e. PICK e : e = Parsed("start", i, kind, CallId(kind, tool, started + 1), n)
  OBVIOUS
<1>c. PICK content : content = <<kind>>
  OBVIOUS
<1>1. /\ Line(1) /\ parsed' = <<e>> /\ UNCHANGED <<overtaken, phase>>
      /\ StartTasks(content) /\ BlockInv'
  BY <1>n, <1>e, <1>c, BlockStartInv DEF BlockStart
<1>2. TasksIn(content) \in 0..1 /\ (kind = "task" => TasksIn(content) = 1)
      /\ TasksIn(SubSeq(content, 1, 1)) = TasksIn(content)
  <2>1. SubSeq(<<kind>>, 1, 1) = <<kind>>
    <3>1. <<kind>> \in Seq(Kinds) /\ Len(<<kind>>) = 1
      OBVIOUS
    <3> QED
      BY <3>1, SubSeqFull
  <2>2. TasksIn(<<kind>>) = IF kind = "task" THEN 1 ELSE 0
    BY TasksInOne
  <2>3. TasksIn(content) = TasksIn(<<kind>>) /\ SubSeq(content, 1, 1) = content
    BY <1>c, <2>1
  <2>4. PICK n1 : n1 = TasksIn(content)
    OBVIOUS
  <2>5. n1 \in 0..1 /\ (kind = "task" => n1 = 1)
    BY <2>2, <2>3, <2>4
  <2> QED
    BY <2>3, <2>4, <2>5, Zenon
<1>3. CallId(kind, tool, started + 1) = CallId(kind, tool, started + TasksIn(SubSeq(content, 1, 1)))
  BY <1>2 DEF CallId
<1>4. CallId(kind, tool, started + 1) \in EventIds
  <2>1. started \in Nat /\ started' <= MaxTasks /\ started' = started + TasksIn(content)
    BY <1>1, TranscriptAssumption DEF StartTasks, BlockInv, Shapes
  <2>2. kind = "task" => started + 1 \in 1..MaxTasks
    BY <1>2, <2>1, TranscriptAssumption
  <2> QED
    BY <2>2 DEF EventIds, CallIds, CallId, Ids
<1>5. /\ e \in Event /\ e.type = "start" /\ e.kind = ToolKind(kind)
      /\ e.id = CallId(kind, tool, started + 1)
      /\ e.name = IF kind = "task" THEN "Task" ELSE "tool"
      /\ e.inTask = (waiting # <<>>)
  <2>1. n \in Nat /\ waiting \in Seq(Nat) /\ i \in Index \cup {-1} /\ kind \in Kinds \cup {"none"}
    BY <1>n, TranscriptAssumption DEF BlockInv, Shapes
  <2> QED
    BY <1>e, <1>4, <2>1, ParsedEvent
<1>6. Len(parsed') = 1 /\ parsed'[1] = e
  BY <1>1, <1>5, OneEvent
<1>7. Len(content) = 1 /\ content[1] = kind /\ 1 \in 0..2
  BY <1>c
<1>8. \A p \in 1..Len(content) :
        /\ parsed'[p].type \in {"start", "chunk"}
        /\ parsed'[p].kind = ToolKind(content[p])
        /\ parsed'[p].name = IF content[p] = "task" THEN "Task" ELSE "tool"
        /\ parsed'[p].id = CallId(content[p], tool, started + TasksIn(SubSeq(content, 1, p)))
        /\ parsed'[p].inTask = (waiting # <<>>)
  <2>1. SUFFICES ASSUME NEW p, p = 1
                 PROVE  /\ parsed'[p].type \in {"start", "chunk"}
                        /\ parsed'[p].kind = ToolKind(content[p])
                        /\ parsed'[p].name = IF content[p] = "task" THEN "Task" ELSE "tool"
                        /\ parsed'[p].id = CallId(content[p], tool, started + TasksIn(SubSeq(content, 1, p)))
                        /\ parsed'[p].inTask = (waiting # <<>>)
    BY <1>7
  <2> QED
    BY <1>3, <1>5, <1>6, <1>7, <2>1, Zenon
<1>9. Len(parsed') = Len(content)
  BY <1>6, <1>7
<1> QED
  BY <1>1, <1>c, <1>7, <1>8, <1>9, TasksLine, Zenon

\* The result of a Task: it no longer waits, and the line is its answer.
LEMMA TaskResultStack ==
    ASSUME BlockInv, StackInv, NEW w \in DOMAIN waiting, NEW id \in ResultIds(waiting[w]),
           TaskResult(w, id)
    PROVE  StackInv'
<1>1. /\ MessageOver /\ Line(1) /\ parsed' = <<Parsed("result", -1, "tool", id, 0)>>
      /\ waiting' = RemoveAt(waiting, w)
      /\ overtaken' = (waiting' # <<>> /\ (overtaken \/ w < Len(waiting)))
      /\ UNCHANGED <<blocks, started, phase>> /\ BlockInv'
  BY TaskResultInv DEF TaskResult
<1>2. /\ phase = "running" /\ parsed = <<>> /\ UNCHANGED <<style, names, subagents, phase>>
  BY <1>1, LineKeeps DEF AfterLine
<1>3. /\ Len(parsed) = 0 /\ Named /\ InOrder
      /\ Given =>
           /\ \A k \in 1..Len(subagents) : \E n \in 1..started : Stacked(k, n) /\ Waits(n)
           /\ \A j, k \in 1..Len(subagents) : \A m, n \in 1..started :
                 j < k /\ Stacked(j, m) /\ Stacked(k, n) => m < n
           /\ ~overtaken => \A n \in 1..started : Waits(n) => OnStack(n)
      /\ ~Given => /\ \A k \in 1..Len(subagents) : subagents[k].id = MadeUp(k)
                   /\ Len(subagents) = Len(waiting)
      /\ waiting # <<>> => subagents # <<>> \/ (overtaken /\ Given)
  BY <1>2, AtRest
<1>4. /\ waiting \in Seq(Nat) /\ Len(waiting) \in Nat /\ w \in 1..Len(waiting)
      /\ \A v \in 1..Len(waiting) : waiting[v] \in 1..started
      /\ started \in Nat /\ started <= MaxTasks /\ MaxTasks \in Nat /\ overtaken \in BOOLEAN
  <2>1. /\ waiting \in Seq(Nat) /\ \A v \in 1..Len(waiting) : waiting[v] \in 1..started
        /\ overtaken \in BOOLEAN /\ started \in 0..MaxTasks
    BY DEF BlockInv, Shapes
  <2>2. MaxTasks \in Nat
    BY TranscriptAssumption
  <2>3. Len(waiting) \in Nat /\ DOMAIN waiting = 1..Len(waiting)
    BY <2>1, LenProperties
  <2> QED
    BY <2>1, <2>2, <2>3
<1>5. /\ Len(waiting') = Len(waiting) - 1
      /\ \A j \in 1..(Len(waiting) - 1) :
            waiting'[j] = IF j < w THEN waiting[j] ELSE waiting[j + 1]
  BY <1>1, <1>4, RemoveAtIs
<1>6. PICK r \in 1..started : r = waiting[w]
  BY <1>4
<1>7. /\ id \in EventIds
      /\ Given => id \in {TaskId(r), ResultId(r)}
      /\ style.ids = "omitted" => id = TaskId(r)
      /\ style.ids \notin {"given", "omitted"} => id = Blank
  <2>1. r \in 1..MaxTasks
    BY <1>4
  <2> QED
    BY <1>6, <2>1, ResultIdType DEF Given
\* What the line is.
<1>8. /\ Len(parsed') = 1 /\ parsed'[1].type = "result" /\ parsed'[1].id = id
      /\ parsed'[1].kind = "tool"
  <2>1. /\ \A v \in 1..Len(waiting') : waiting'[v] \in 1..started
        /\ waiting' \in Seq(Nat) /\ overtaken' \in BOOLEAN
    <3>1. started' = started
      BY <1>1
    <3> QED
      BY <1>1, <3>1 DEF BlockInv, Shapes
  <2> QED
    BY <1>1, <1>7, <2>1, ResultLine
<1>9. /\ Resulting' /\ ~OfTool' /\ Answering'
  <2>1. Resulting'
    <3>1. parsed' # <<>>
      <4>1. parsed' \in Seq(Event) /\ Len(parsed') = 1
        BY <1>1, <1>8 DEF BlockInv, Shapes
      <4> QED
        BY <4>1, EmptySeq
    <3> QED
      BY <1>8, <3>1, Zenon DEF Resulting
  <2>2. \A t \in ToolIds : id # <<t>>
    BY <1>7, IdsDiffer DEF Given
  <2> QED
    BY <1>8, <2>1, <2>2 DEF OfTool, Answering
<1>10. \A p \in 1..Len(parsed') : ~Calls(p)' /\ ~StartsTask(p)' /\ Hidden(p)' /\ \A n : ~Begins(p, n)'
  BY <1>8 DEF Calls, StartsTask, Begins, Hidden
<1>11. Given' = Given /\ \A n : (OnStack(n)' <=> OnStack(n)) /\ \A k : Stacked(k, n)' <=> Stacked(k, n)
  BY <1>2 DEF OnStack, Stacked, Given
<1>12. Named'
  <2>1. id \in ResultIds(r)' /\ r \in 1..started'
    BY <1>1, <1>2, <1>6 DEF ResultIds
  <2> QED
    BY <1>2, <1>3, <1>8, <1>10, <2>1 DEF Named
<1>13. InOrder'
  <2>1. SUFFICES ASSUME NEW u \in 1..Len(waiting'), NEW v \in 1..Len(waiting'), u < v
                 PROVE  waiting'[u] < waiting'[v]
    BY DEF InOrder
  <2>2. /\ u \in 1..Len(waiting) /\ v \in 1..Len(waiting)
        /\ u + 1 \in 1..Len(waiting) /\ v + 1 \in 1..Len(waiting)
        /\ u \in 1..(Len(waiting) - 1) /\ v \in 1..(Len(waiting) - 1)
    BY <1>4, <1>5
  <2>3. \A x, y \in 1..Len(waiting) : x < y => waiting[x] < waiting[y]
    BY <1>3 DEF InOrder
  <2>4. CASE v < w
    BY <1>4, <1>5, <2>1, <2>2, <2>3, <2>4
  <2>5. CASE ~(v < w) /\ u < w
    <3>1. u < v + 1 /\ waiting'[u] = waiting[u] /\ waiting'[v] = waiting[v + 1]
      BY <1>5, <2>1, <2>2, <2>5
    <3> QED
      BY <2>2, <2>3, <3>1
  <2>6. CASE ~(v < w) /\ ~(u < w)
    <3>1. u + 1 < v + 1 /\ waiting'[u] = waiting[u + 1] /\ waiting'[v] = waiting[v + 1]
      BY <1>5, <2>1, <2>2, <2>6
    <3> QED
      BY <2>2, <2>3, <3>1
  <2> QED
    BY <2>4, <2>5, <2>6
\* Who waits: all that waited but the one that is answered, which is the last
\* of them unless it overtakes.
<1>14. \A n : Waits(n) => Waits(n)' \/ n = r
  <2>1. SUFFICES ASSUME NEW n, Waits(n), n # r PROVE Waits(n)'
    OBVIOUS
  <2>2. PICK v \in 1..Len(waiting) : waiting[v] = n
    BY <2>1 DEF Waits
  <2>3. v # w
    BY <1>6, <2>1, <2>2
  <2>4. CASE v < w
    <3>1. v \in 1..(Len(waiting) - 1)
      BY <1>4, <2>4
    <3> QED
      BY <1>4, <1>5, <2>2, <2>4, <3>1 DEF Waits
  <2>5. CASE v > w
    <3>1. PICK u : u = v - 1
      OBVIOUS
    <3>2. u \in 1..(Len(waiting) - 1) /\ ~(u < w) /\ u + 1 = v
      BY <1>4, <2>5, <3>1
    <3>3. waiting'[u] = waiting[v]
      BY <1>5, <3>2
    <3> QED
      BY <1>5, <2>2, <3>2, <3>3 DEF Waits
  <2> QED
    BY <1>4, <2>3, <2>4, <2>5
<1>15. \A n : Waits(n)' => Waits(n) /\ n \in 1..started /\ (w = Len(waiting) => n < r)
  <2>1. SUFFICES ASSUME NEW n, Waits(n)'
                 PROVE  Waits(n) /\ n \in 1..started /\ (w = Len(waiting) => n < r)
    OBVIOUS
  <2>2. PICK u \in 1..Len(waiting') : waiting'[u] = n
    BY <2>1 DEF Waits
  <2>3. u \in 1..(Len(waiting) - 1) /\ u \in 1..Len(waiting) /\ u + 1 \in 1..Len(waiting)
    BY <1>4, <1>5
  <2>4. Waits(n) /\ n \in 1..started
    BY <1>4, <1>5, <2>2, <2>3 DEF Waits
  <2>5. w = Len(waiting) => n < r
    BY <1>3, <1>4, <1>5, <1>6, <2>2, <2>3 DEF InOrder
  <2> QED
    BY <2>4, <2>5
<1>16. Given => StackGiven'
  <2>1. SUFFICES ASSUME Given PROVE StackGiven'
    OBVIOUS
  <2>2. \A n : Answers(n)' <=> n = r
    BY <1>7, <1>8, <1>9, <2>1, IdsDiffer DEF Answers
  <2>3. \A k \in 1..Len(subagents') :
           \E n \in 1..started' : Stacked(k, n)' /\ (Waits(n)' \/ Answers(n)')
    BY <1>1, <1>2, <1>3, <1>11, <1>14, <2>1, <2>2
  <2>4. \A j, k \in 1..Len(subagents') : \A m, n \in 1..started' :
          j < k /\ Stacked(j, m)' /\ Stacked(k, n)' => m < n
    <3>1. started' = started /\ subagents' = subagents
      BY <1>1, <1>2
    <3>2. \A k, n : Stacked(k, n)' <=> Stacked(k, n)
      BY <1>11
    <3>3. \A j, k \in 1..Len(subagents) : \A m, n \in 1..started :
            j < k /\ Stacked(j, m) /\ Stacked(k, n) => m < n
      BY <1>3, <2>1
    <3> QED
      BY <3>1, <3>2, <3>3, Zenon
  <2>5. ~overtaken' => \A n \in 1..started' : Waits(n)' => OnStack(n)'
    <3>1. SUFFICES ASSUME ~overtaken', NEW n \in 1..started', Waits(n)' PROVE OnStack(n)'
      OBVIOUS
    <3>2. waiting' # <<>>
      <4>1. Len(waiting') # 0
        BY <3>1 DEF Waits
      <4> QED
        BY <4>1
    <3>3. ~overtaken
      BY <1>1, <3>1, <3>2
    <3> QED
      BY <1>1, <1>3, <1>11, <1>15, <2>1, <3>1, <3>3
  <2>6. ~overtaken' => \A m, n \in 1..started' : Answers(n)' /\ Waits(m)' => m < n
    <3>1. SUFFICES ASSUME ~overtaken', NEW m \in 1..started', Waits(m)' PROVE m < r
      BY <2>2
    <3>2. waiting' # <<>>
      <4>1. Len(waiting') # 0
        BY <3>1 DEF Waits
      <4> QED
        BY <4>1
    <3>a. ~(w < Len(waiting))
      BY <1>1, <3>1, <3>2, Zenon
    <3>3. w = Len(waiting)
      BY <1>4, <3>a
    <3> QED
      BY <1>15, <3>1, <3>3
  <2> QED
    BY <1>10, <2>3, <2>4, <2>5, <2>6 DEF StackGiven
<1>17. ~Given => StackMadeUp'
  <2>1. SUFFICES ASSUME ~Given PROVE StackMadeUp'
    OBVIOUS
  <2>2. Unstarted(1)' = 0 /\ Unstarted(2)' = 0
    BY <1>8, <1>10 DEF Unstarted
  <2>3. Len(subagents') = Len(waiting') + 1 /\ Len(waiting') \in Nat
    BY <1>2, <1>3, <1>4, <1>5, <2>1
  <2>4. \A k \in 1..Len(subagents') : subagents'[k].id = MadeUp(k)
    BY <1>2, <1>3, <2>1
  <2> QED
    BY <1>9, <2>2, <2>3, <2>4 DEF StackMadeUp
<1> QED
  BY <1>2, <1>10, <1>11, <1>12, <1>13, <1>16, <1>17 DEF StackInv

\* Any line of the CLI.
LEMMA CliLineStack ==
    ASSUME BlockInv, StackInv, CliLine
    PROVE  StackInv'
BY AssistantMessageStack, BlockStartStack, BlockDeltaStack, BlockStopStack, MessageStopStack,
   TaskResultStack, ToolResultStack, ErrorLineStack, ExitStack DEF CliLine

-----------------------------------------------------------------------------
(* The turns of the handler.                                               *)

\* The events that are left move up.
LEMMA Shifted ==
    ASSUME BlockInv, NEW ev, Turn(ev)
    PROVE  /\ \A p \in 1..Len(parsed') :
                /\ p + 1 \in 1..Len(parsed) /\ parsed'[p] = parsed[p + 1]
                /\ Calls(p)' <=> Calls(p + 1)
                /\ StartsTask(p)' <=> StartsTask(p + 1)
                /\ \A n : Begins(p, n)' <=> Begins(p + 1, n)
           /\ \A p \in 1..Len(parsed) : p # 1 => p - 1 \in 1..Len(parsed') /\ (p - 1) + 1 = p
           /\ 1 \in 1..Len(parsed) /\ ev = parsed[1] /\ (Resulting <=> ev.type = "result")
           /\ ~Resulting' /\ ~Answering' /\ \A n : ~Answers(n)'
           /\ Unstarted(1)' = Unstarted(2) /\ Unstarted(2)' = 0
           /\ ev.type = "result" => Len(parsed) = 1 /\ parsed' = <<>> /\ Len(parsed') = 0
<1>1. /\ Len(parsed) \in 1..2 /\ ev = parsed[1] /\ Len(parsed') = Len(parsed) - 1
      /\ \A p \in 1..Len(parsed') : parsed'[p] = parsed[p + 1]
      /\ parsed' \in Seq(Event) /\ parsed \in Seq(Event)
  BY DEF Turn, BlockInv, Shapes
<1>2. \A p \in 1..Len(parsed') : p + 1 \in 1..Len(parsed) /\ parsed'[p] = parsed[p + 1]
  BY <1>1
<1>3. \A p \in 1..Len(parsed') :
        /\ Calls(p)' <=> Calls(p + 1)
        /\ StartsTask(p)' <=> StartsTask(p + 1)
        /\ \A n : Begins(p, n)' <=> Begins(p + 1, n)
  BY <1>2 DEF Calls, StartsTask, Begins
<1>4. \A p \in 1..Len(parsed) : p # 1 => p - 1 \in 1..Len(parsed') /\ (p - 1) + 1 = p
  BY <1>1
<1>5. 1 \in 1..Len(parsed) /\ parsed # <<>>
  BY <1>1
<1>6. /\ \A p \in 1..Len(parsed) : parsed[p].type = "result" => Len(parsed) = 1
  BY DEF BlockInv, Lines, EventOK
<1>7. ~Resulting'
  <2>1. SUFFICES ASSUME parsed' # <<>>, parsed'[1].type = "result" PROVE FALSE
    BY DEF Resulting
  <2>2. Len(parsed') # 0
    BY <1>1, <2>1, EmptySeq
  <2>3. Len(parsed) = 2 /\ 1 \in 1..Len(parsed') /\ 1 + 1 = 2 /\ 2 \in 1..Len(parsed)
    BY <1>1, <2>2
  <2>4. parsed'[1] = parsed[2]
    BY <1>2, <2>3
  <2> QED
    BY <1>6, <2>1, <2>3, <2>4
<1>8. /\ Resulting <=> ev.type = "result"
      /\ ~Answering' /\ \A n : ~Answers(n)'
  BY <1>1, <1>5, <1>7 DEF Resulting, Answering, Answers
<1>9. Unstarted(1)' = Unstarted(2) /\ Unstarted(2)' = 0
  <2>1. CASE Len(parsed) = 2
    <3>1. Len(parsed') = 1 /\ 1 \in 1..Len(parsed') /\ 1 + 1 = 2
      BY <1>1, <2>1
    <3> QED
      BY <1>3, <2>1, <3>1 DEF Unstarted
  <2>2. CASE Len(parsed) = 1
    BY <1>1, <2>2 DEF Unstarted
  <2> QED
    BY <1>1, <2>1, <2>2
<1>10. ev.type = "result" => Len(parsed) = 1 /\ parsed' = <<>> /\ Len(parsed') = 0
  <2>1. SUFFICES ASSUME ev.type = "result" PROVE Len(parsed) = 1 /\ parsed' = <<>> /\ Len(parsed') = 0
    OBVIOUS
  <2>2. Len(parsed) = 1
    BY <1>1, <1>5, <1>6, <2>1
  <2> QED
    BY <1>1, <2>2, EmptySeq
<1> QED
  BY <1>1, <1>2, <1>3, <1>4, <1>5, <1>7, <1>8, <1>9, <1>10

\* What the ids say is not changed by a turn.
LEMMA NamedKeeps ==
    ASSUME BlockInv, Named, NEW ev, Turn(ev), names' = names \/ (Remember(ev) /\ Calls(1))
    PROVE  Named'
<1>1. /\ \A p \in 1..Len(parsed') :
           /\ p + 1 \in 1..Len(parsed) /\ parsed'[p] = parsed[p + 1]
           /\ Calls(p)' <=> Calls(p + 1)
           /\ StartsTask(p)' <=> StartsTask(p + 1)
      /\ 1 \in 1..Len(parsed) /\ ev = parsed[1] /\ ~Answering'
  BY Shifted
<1>2. /\ UNCHANGED <<style, started>> /\ Given' = Given
      /\ names \in [Ids -> {"none", "tool", "Task"}]
      /\ \A n \in 1..MaxTasks : TaskId(n) \in Ids
      /\ \A t \in ToolIds : <<t>> \in Ids
  BY DEF Turn, BlockInv, Shapes, Ids, Given
<1>3. /\ \A n \in 1..MaxTasks : names'[TaskId(n)] \in {"none", "Task"}
      /\ \A t \in ToolIds : names'[<<t>>] \in {"none", "tool"}
  <2>1. CASE names' = names
    BY <2>1 DEF Named
  <2>2. CASE Remember(ev) /\ Calls(1)
    <3>1. \A i \in Ids : names'[i] = IF i = ev.id THEN ev.name ELSE names[i]
      BY <2>2 DEF Remember
    <3>2. \/ ev.name = "Task" /\ (ev.id = Blank \/ \E n \in 1..started : ev.id = TaskId(n))
          \/ ev.name = "tool" /\ \E t \in ToolIds : ev.id = <<t>>
      <4>1. CASE StartsTask(1)
        BY <1>1, <4>1 DEF Named, StartsTask
      <4>2. CASE ~StartsTask(1)
        BY <1>1, <2>2, <4>2 DEF Named
      <4> QED
        BY <4>1, <4>2
    <3> QED
      <4>1. ASSUME NEW n \in 1..MaxTasks PROVE names'[TaskId(n)] \in {"none", "Task"}
        <5>1. names'[TaskId(n)] = IF TaskId(n) = ev.id THEN ev.name ELSE names[TaskId(n)]
          BY <1>2, <3>1
        <5>2. names[TaskId(n)] \in {"none", "Task"}
          BY DEF Named
        <5>3. TaskId(n) = ev.id => ev.name = "Task"
          BY <3>2, IdsDiffer
        <5> QED
          BY <5>1, <5>2, <5>3
      <4>2. ASSUME NEW t \in ToolIds PROVE names'[<<t>>] \in {"none", "tool"}
        <5>1. names'[<<t>>] = IF <<t>> = ev.id THEN ev.name ELSE names[<<t>>]
          BY <1>2, <3>1
        <5>2. names[<<t>>] \in {"none", "tool"}
          BY DEF Named
        <5>3. <<t>> = ev.id => ev.name = "tool"
          BY <3>2, IdsDiffer
        <5> QED
          BY <5>1, <5>2, <5>3
      <4> QED
        BY <4>1, <4>2
  <2> QED
    BY <2>1, <2>2
<1>4. \A p \in 1..Len(parsed') : StartsTask(p)' =>
        IF Given' THEN \E n \in 1..started' : parsed'[p].id = TaskId(n)
                  ELSE parsed'[p].id = Blank
  BY <1>1, <1>2 DEF Named
<1>5. \A p \in 1..Len(parsed') : Calls(p)' /\ ~StartsTask(p)' =>
        parsed'[p].name = "tool" /\ \E t \in ToolIds : parsed'[p].id = <<t>>
  BY <1>1 DEF Named
<1> QED
  BY <1>1, <1>3, <1>4, <1>5 DEF Named

\* A turn after which the run may still go on: what is left to show of the invariant.
LEMMA TurnStack ==
    ASSUME BlockInv, StackInv, NEW ev, Turn(ev),
           names' = names \/ (Remember(ev) /\ Calls(1)),
           \A p \in 1..Len(parsed') : subagents # <<>> => subagents' # <<>>,
           phase = "running" /\ Given => StackGiven',
           phase = "running" /\ ~Given => StackMadeUp'
    PROVE  StackInv'
<1>1. \A p \in 1..Len(parsed') : p + 1 \in 1..Len(parsed) /\ parsed'[p] = parsed[p + 1]
  BY Shifted
<1>2. /\ UNCHANGED <<style, waiting, overtaken>> /\ Given' = Given
      /\ phase' # "over" => phase' = phase
  BY DEF Turn, Given
<1>3. CASE phase' = "running"
  <2>1. phase = "running"
    BY <1>2, <1>3
  <2>2. Named /\ InOrder /\ \A p \in 1..Len(parsed) : Hidden(p)
    BY <2>1 DEF StackInv
  <2>3. Named'
    BY <2>2, NamedKeeps
  <2>4. InOrder'
    BY <1>2, <2>2 DEF InOrder
  <2>5. \A p \in 1..Len(parsed') : Hidden(p)'
    <3>1. SUFFICES ASSUME NEW p \in 1..Len(parsed'), parsed'[p].inTask,
                          parsed'[p].kind \in {"text", "thinking"}
                   PROVE  subagents' # <<>> \/ (overtaken' /\ Given')
      BY DEF Hidden
    <3>2. parsed[p + 1].inTask /\ parsed[p + 1].kind \in {"text", "thinking"} /\ p + 1 \in 1..Len(parsed)
      BY <1>1, <3>1
    <3>3. subagents # <<>> \/ (overtaken /\ Given)
      BY <2>2, <3>2 DEF Hidden
    <3> QED
      BY <1>2, <3>3
  <2> QED
    BY <1>2, <1>3, <2>1, <2>3, <2>4, <2>5 DEF StackInv
<1>4. CASE phase' = "exited"
  <2>1. \A p \in 1..Len(parsed) : parsed[p].kind = "none"
    BY <1>2, <1>4 DEF StackInv
  <2> QED
    BY <1>1, <1>4, <2>1 DEF StackInv
<1>5. CASE phase' = "over"
  BY <1>5 DEF StackInv
<1> QED
  BY <1>3, <1>4, <1>5 DEF Turn

\* A turn that leaves the stack as it is.
LEMMA SameStack ==
    ASSUME BlockInv, StackInv, NEW ev, Turn(ev), ~StartsTask(1), ev.type # "result",
           UNCHANGED subagents, names' = names \/ (Remember(ev) /\ Calls(1))
    PROVE  StackInv'
<1>1. /\ \A p \in 1..Len(parsed') :
           /\ p + 1 \in 1..Len(parsed) /\ \A n : Begins(p, n)' <=> Begins(p + 1, n)
      /\ \A p \in 1..Len(parsed) : p # 1 => p - 1 \in 1..Len(parsed') /\ (p - 1) + 1 = p
      /\ ~Resulting /\ ~Answering' /\ \A n : ~Answers(n)'
      /\ Unstarted(1)' = Unstarted(2) /\ Unstarted(2)' = 0 /\ 1 \in 1..Len(parsed)
  BY Shifted
<1>2. UNCHANGED <<style, waiting, started, overtaken, subagents>>
  BY DEF Turn
<1>3. phase = "running" /\ Given => StackGiven'
  <2>1. SUFFICES ASSUME phase = "running", Given PROVE StackGiven'
    OBVIOUS
  <2>2. StackGiven /\ \A n : ~Answers(n)
    BY <1>1, <2>1 DEF StackInv, Answers
  <2>3. \A n : (Waits(n)' <=> Waits(n)) /\ (OnStack(n)' <=> OnStack(n))
               /\ \A k : Stacked(k, n)' <=> Stacked(k, n)
    BY <1>2 DEF Waits, OnStack, Stacked
  <2>4. \A n : Pending(n) => Pending(n)'
    <3>1. SUFFICES ASSUME NEW n, Pending(n) PROVE Pending(n)'
      OBVIOUS
    <3>2. PICK p \in 1..Len(parsed) : Begins(p, n)
      BY <3>1 DEF Pending
    <3>3. p # 1
      BY <3>2 DEF Begins
    <3>4. PICK q \in 1..Len(parsed') : q + 1 = p
      BY <1>1, <3>3
    <3>5. Begins(q, n)'
      BY <1>1, <3>2, <3>4
    <3> QED
      BY <3>5 DEF Pending
  <2>5. \A k \in 1..Len(subagents') :
          \E n \in 1..started' : Stacked(k, n)' /\ (Waits(n)' \/ Answers(n)')
    BY <1>2, <2>2, <2>3 DEF StackGiven
  <2>6. \A j, k \in 1..Len(subagents') : \A m, n \in 1..started' :
          j < k /\ Stacked(j, m)' /\ Stacked(k, n)' => m < n
    <3>1. started' = started /\ subagents' = subagents
      BY <1>2
    <3>2. \A k, n : Stacked(k, n)' <=> Stacked(k, n)
      BY <2>3
    <3>3. \A j, k \in 1..Len(subagents) : \A m, n \in 1..started :
            j < k /\ Stacked(j, m) /\ Stacked(k, n) => m < n
      BY <2>2 DEF StackGiven
    <3> QED
      BY <3>1, <3>2, <3>3, Zenon
  <2>7. \A p \in 1..Len(parsed') : \A n \in 1..started' : Begins(p, n)' => Waits(n)'
    BY <1>1, <1>2, <2>2, <2>3 DEF StackGiven
  <2>8. \A p \in 1..Len(parsed') : \A k \in 1..Len(subagents') : \A m, n \in 1..started' :
          Stacked(k, m)' /\ Begins(p, n)' => m < n
    BY <1>1, <1>2, <2>2, <2>3 DEF StackGiven
  <2>9. \A p, q \in 1..Len(parsed') : \A m, n \in 1..started' :
          p < q /\ Begins(p, m)' /\ Begins(q, n)' => m < n
    <3>1. \A p, q \in 1..Len(parsed') : p < q => p + 1 < q + 1
      OBVIOUS
    <3> QED
      BY <1>1, <1>2, <2>2, <3>1 DEF StackGiven
  <2>10. ~overtaken' => \A n \in 1..started' : Waits(n)' => OnStack(n)' \/ Pending(n)'
    BY <1>2, <2>2, <2>3, <2>4 DEF StackGiven
  <2> QED
    BY <1>1, <2>5, <2>6, <2>7, <2>8, <2>9, <2>10 DEF StackGiven
<1>4. phase = "running" /\ ~Given => StackMadeUp'
  <2>1. SUFFICES ASSUME phase = "running", ~Given PROVE StackMadeUp'
    OBVIOUS
  <2>2. StackMadeUp /\ ~Answering /\ Unstarted(1) = 0
    BY <1>1, <2>1 DEF StackInv, Answering, Unstarted
  <2>3. Unstarted(2) \in 0..1 /\ Len(subagents) \in Nat
    BY DEF Unstarted, BlockInv, Shapes
  <2> QED
    BY <1>1, <1>2, <2>2, <2>3 DEF StackMadeUp
<1> QED
  BY <1>2, <1>3, <1>4, TurnStack

\* The Task that starts goes on top of the stack.
LEMMA StartTaskStack ==
    ASSUME BlockInv, StackInv, Process, StartTask(Head(parsed))
    PROVE  StackInv'
<1>1. PICK ev : ev = Head(parsed)
  OBVIOUS
<1>2. Turn(ev) /\ StartTask(ev)
  BY <1>1, TurnIs
<1>3. /\ Len(subagents') = Len(subagents) + 1 /\ Len(subagents) \in Nat
      /\ \A k \in 1..Len(subagents) : subagents'[k] = subagents[k]
      /\ subagents'[Len(subagents')].id =
           IF parsed[1].id # Blank THEN parsed[1].id ELSE MadeUp(Len(subagents) + 1)
      /\ subagents' # <<>>
  <2>1. /\ Len(subagents') = Len(subagents) + 1 /\ Len(subagents) \in Nat
        /\ \A k \in 1..Len(subagents) : subagents'[k] = subagents[k]
        /\ subagents'[Len(subagents')].id =
             IF parsed[1].id # Blank THEN parsed[1].id ELSE MadeUp(Len(subagents) + 1)
        /\ subagents' \in Seq([id : StackIds, segment : Nat])
    BY StartTaskIs
  <2>2. Len(subagents') # 0
    BY <2>1
  <2> QED
    BY <2>1, <2>2, EmptySeq
<1>4. /\ \A p \in 1..Len(parsed') :
           /\ p + 1 \in 1..Len(parsed) /\ \A n : Begins(p, n)' <=> Begins(p + 1, n)
      /\ \A p \in 1..Len(parsed) : p # 1 => p - 1 \in 1..Len(parsed') /\ (p - 1) + 1 = p
      /\ (Resulting <=> ev.type = "result") /\ ~Answering' /\ (\A n : ~Answers(n)') /\ ~Resulting'
      /\ Unstarted(1)' = Unstarted(2) /\ Unstarted(2)' = 0 /\ 1 \in 1..Len(parsed)
      /\ ev = parsed[1]
  BY <1>2, Shifted
<1>5. StartsTask(1) /\ Calls(1) /\ Remember(ev) /\ ev.type # "result"
  BY <1>2, <1>4 DEF StartTask, IsCall, StartsTask, Calls
<1>6. UNCHANGED <<style, waiting, started, overtaken>>
  BY <1>2 DEF Turn
<1>7. phase = "running" /\ Given => StackGiven'
  <2>1. SUFFICES ASSUME phase = "running", Given PROVE StackGiven'
    OBVIOUS
  <2>2. StackGiven /\ Named /\ \A n : ~Answers(n)
    BY <1>4, <1>5, <2>1 DEF StackInv, Answers
  <2>3. PICK r \in 1..started : parsed[1].id = TaskId(r)
    BY <1>4, <1>5, <2>1, <2>2 DEF Named
  <2>m. PICK top : top = Len(subagents')
    OBVIOUS
  <2>4. /\ Begins(1, r) /\ Waits(r) /\ top = Len(subagents) + 1
        /\ subagents'[top].id = TaskId(r) /\ \A n : ~Begins(1, n) \/ n = r
    <3>1. Begins(1, r)
      BY <1>5, <2>3 DEF Begins
    <3>2. Waits(r)
      BY <1>4, <2>2, <3>1 DEF StackGiven
    <3>3. parsed[1].id # Blank
      BY <2>3, IdsDiffer
    <3>4. subagents'[top].id = TaskId(r)
      BY <1>3, <2>3, <2>m, <3>3
    <3>5. \A n : Begins(1, n) => n = r
      BY <2>3, IdsDiffer DEF Begins
    <3> QED
      BY <1>3, <2>m, <3>1, <3>2, <3>4, <3>5
  <2>5. \A n : Waits(n)' <=> Waits(n)
    BY <1>6 DEF Waits
  <2>6. /\ \A k \in 1..Len(subagents') : k \in 1..Len(subagents) \/ k = top
        /\ \A k \in 1..Len(subagents) : \A n : Stacked(k, n)' <=> Stacked(k, n)
        /\ \A n : Stacked(top, n)' <=> n = r
        /\ \A k \in 1..Len(subagents) : k \in 1..Len(subagents') /\ k < top
        /\ top \in 1..Len(subagents') /\ ~(top < top)
        /\ \A k \in 1..Len(subagents') : ~(top < k)
    BY <1>3, <2>4, <2>m, IdsDiffer DEF Stacked
  <2>7. \A k \in 1..Len(subagents') :
          \E n \in 1..started' : Stacked(k, n)' /\ (Waits(n)' \/ Answers(n)')
    BY <1>6, <2>2, <2>3, <2>4, <2>5, <2>6 DEF StackGiven
  <2>8. ASSUME NEW j \in 1..Len(subagents'), NEW k \in 1..Len(subagents'),
               NEW m \in 1..started', NEW n \in 1..started',
               j < k, Stacked(j, m)', Stacked(k, n)'
        PROVE  m < n
    <3>1. j \in 1..Len(subagents) /\ Stacked(j, m) /\ m \in 1..started /\ n \in 1..started
      BY <1>6, <2>6, <2>8
    <3>2. CASE k = top
      BY <1>4, <2>2, <2>4, <2>6, <2>8, <3>1, <3>2 DEF StackGiven
    <3>3. CASE k \in 1..Len(subagents)
      BY <2>2, <2>6, <2>8, <3>1, <3>3 DEF StackGiven
    <3> QED
      BY <2>6, <3>2, <3>3
  <2>9. \A p \in 1..Len(parsed') : \A n \in 1..started' : Begins(p, n)' => Waits(n)'
    BY <1>4, <1>6, <2>2, <2>5 DEF StackGiven
  <2>10. ASSUME NEW p \in 1..Len(parsed'), NEW k \in 1..Len(subagents'),
                NEW m \in 1..started', NEW n \in 1..started', Stacked(k, m)', Begins(p, n)'
         PROVE  m < n
    <3>1. Begins(p + 1, n) /\ p + 1 \in 1..Len(parsed) /\ m \in 1..started /\ n \in 1..started
      BY <1>4, <1>6, <2>10
    <3>2. CASE k = top
      <4>1. m = r /\ Begins(1, m)
        BY <2>4, <2>6, <2>10, <3>2
      <4>2. 1 < p + 1
        OBVIOUS
      <4> QED
        BY <1>4, <2>2, <3>1, <4>1, <4>2 DEF StackGiven
    <3>3. CASE k \in 1..Len(subagents)
      BY <2>2, <2>6, <2>10, <3>1, <3>3 DEF StackGiven
    <3> QED
      BY <2>6, <3>2, <3>3
  <2>11. \A p, q \in 1..Len(parsed') : \A m, n \in 1..started' :
          p < q /\ Begins(p, m)' /\ Begins(q, n)' => m < n
    <3>1. \A p, q \in 1..Len(parsed') : p < q => p + 1 < q + 1
      OBVIOUS
    <3> QED
      BY <1>4, <1>6, <2>2, <3>1 DEF StackGiven
  <2>12. ~overtaken' => \A n \in 1..started' : Waits(n)' => OnStack(n)' \/ Pending(n)'
    <3>1. SUFFICES ASSUME ~overtaken', NEW n \in 1..started', Waits(n)'
                   PROVE  OnStack(n)' \/ Pending(n)'
      OBVIOUS
    <3>2. OnStack(n) \/ Pending(n)
      BY <1>6, <2>2, <2>5, <3>1 DEF StackGiven
    <3>3. CASE OnStack(n)
      BY <2>6, <3>3 DEF OnStack
    <3>4. CASE Pending(n)
      <4>1. PICK p \in 1..Len(parsed) : Begins(p, n)
        BY <3>4 DEF Pending
      <4>2. CASE p = 1
        BY <2>4, <2>6, <4>1, <4>2 DEF OnStack
      <4>3. CASE p # 1
        <5>1. PICK q \in 1..Len(parsed') : q + 1 = p
          BY <1>4, <4>3
        <5> QED
          BY <1>4, <4>1, <5>1 DEF Pending
      <4> QED
        BY <4>2, <4>3
    <3> QED
      BY <3>2, <3>3, <3>4
  <2> QED
    BY <1>4, <2>7, <2>8, <2>9, <2>10, <2>11, <2>12 DEF StackGiven
<1>8. phase = "running" /\ ~Given => StackMadeUp'
  <2>1. SUFFICES ASSUME phase = "running", ~Given PROVE StackMadeUp'
    OBVIOUS
  <2>2. StackMadeUp /\ Named /\ ~Answering /\ Unstarted(1) = 1 /\ parsed[1].id = Blank
    BY <1>4, <1>5, <2>1 DEF StackInv, Answering, Unstarted, Named
  <2>3. Unstarted(2) \in 0..1 /\ Len(waiting) \in Nat
    BY DEF Unstarted, BlockInv, Shapes
  <2>4. Len(subagents') + Unstarted(1)' + Unstarted(2)' = Len(waiting')
    BY <1>3, <1>4, <1>6, <2>2, <2>3 DEF StackMadeUp
  <2>5. \A k \in 1..Len(subagents') : subagents'[k].id = MadeUp(k)
    <3>1. \A k \in 1..Len(subagents') : k \in 1..Len(subagents) \/ k = Len(subagents')
      BY <1>3
    <3> QED
      BY <1>3, <2>2, <3>1 DEF StackMadeUp
  <2> QED
    BY <1>4, <1>6, <2>3, <2>4, <2>5 DEF StackMadeUp
<1> QED
  BY <1>2, <1>3, <1>5, <1>7, <1>8, TurnStack

\* What a result takes from the stack: what matches it.
LEMMA PoppedIs ==
    ASSUME Shapes, NEW id, id # Blank
    PROVE  /\ (\A k \in 1..Len(subagents) : ~RoughlyMatch(subagents[k].id, id))
                => Popped(id) = subagents
           /\ \A j \in 1..Len(subagents) :
                /\ RoughlyMatch(subagents[j].id, id)
                /\ \A k \in 1..Len(subagents) : RoughlyMatch(subagents[k].id, id) => k = j
                => Popped(id) = SubSeq(subagents, 1, j - 1)
<1> DEFINE matching == {k \in DOMAIN subagents : RoughlyMatch(subagents[k].id, id)}
<1>1. /\ subagents \in Seq([id : StackIds, segment : Nat])
      /\ Len(subagents) \in Nat /\ DOMAIN subagents = 1..Len(subagents)
  BY LenProperties DEF Shapes
<1>2. Popped(id) = IF matching = {} THEN subagents ELSE SubSeq(subagents, 1, Max(matching) - 1)
  BY DEF Popped
<1>3. matching \in SUBSET (1..Len(subagents))
  BY <1>1
<1>4. ASSUME \A k \in 1..Len(subagents) : ~RoughlyMatch(subagents[k].id, id)
      PROVE  Popped(id) = subagents
  <2>1. matching = {}
    BY <1>1, <1>4
  <2> QED
    BY <1>2, <2>1, Zenon
<1>5. ASSUME NEW j \in 1..Len(subagents), RoughlyMatch(subagents[j].id, id),
             \A k \in 1..Len(subagents) : RoughlyMatch(subagents[k].id, id) => k = j
      PROVE  Popped(id) = SubSeq(subagents, 1, j - 1)
  <2>1. matching = {j} /\ matching # {}
    BY <1>1, <1>5
  <2> HIDE DEF matching
  <2>2. Max(matching) \in matching
    BY <1>1, <1>3, <2>1, MaxIs
  <2>3. Max(matching) = j
    BY <2>1, <2>2
  <2> QED
    BY <1>2, <2>1, <2>3, Zenon
<1> QED
  BY <1>4, <1>5

\* With ids, a result takes the Task it is the result of, and what is above it.
LEMMA ResultGiven ==
    ASSUME BlockInv, StackInv, NEW ev, Turn(ev), Result(ev), phase = "running", Given
    PROVE  StackGiven'
<1>1. /\ ev = parsed[1] /\ 1 \in 1..Len(parsed) /\ Resulting /\ Len(parsed) = 1
      /\ parsed' = <<>> /\ Len(parsed') = 0 /\ \A n : ~Answers(n)'
  BY Shifted DEF Result
<1>2. /\ UNCHANGED <<style, waiting, started, overtaken>> /\ subagents' = AfterResult(ev.id)
      /\ \A n : Waits(n)' <=> Waits(n)
  BY DEF Turn, Result, Waits
<1>3. Named /\ StackGiven
  BY DEF StackInv
<1>4. /\ subagents \in Seq([id : StackIds, segment : Nat])
      /\ Len(subagents) \in Nat /\ Shapes /\ DOMAIN subagents = 1..Len(subagents)
      /\ started \in Nat /\ started <= MaxTasks
  <2>1. Shapes /\ subagents \in Seq([id : StackIds, segment : Nat]) /\ started \in 0..MaxTasks
    BY DEF BlockInv, Shapes
  <2>2. MaxTasks \in Nat
    BY TranscriptAssumption
  <2> QED
    BY <2>1, <2>2, LenProperties
\* The result matches the entries of the Task it answers, if it answers one.
<1>5. PICK id : id = ev.id
  OBVIOUS
<1>6. /\ id # Blank
      /\ \A m \in 1..started : RoughlyMatch(TaskId(m), id) <=> Answers(m)
      /\ \A m, n \in 1..started : Answers(m) /\ Answers(n) => m = n
  <2>1. CASE OfTool
    <3>1. PICK t \in ToolIds : id = <<t>>
      BY <1>1, <1>5, <2>1 DEF OfTool
    <3> QED
      BY <1>1, <1>5, <3>1, IdsDiffer, OthersDoNotMatch DEF Answers
  <2>2. CASE ~OfTool
    <3>1. PICK r \in 1..started : id \in ResultIds(r)
      BY <1>1, <1>3, <1>5, <2>2 DEF Named, Answering
    <3>2. id = TaskId(r) \/ id = ResultId(r)
      BY <3>1 DEF ResultIds, ResultId, Given
    <3>3. \A m : Answers(m) <=> m = r
      BY <1>1, <1>5, <3>2, IdsDiffer DEF Answers
    <3>4. \A m : RoughlyMatch(TaskId(m), id) <=> m = r
      BY <3>2, OwnResultMatches, OthersDoNotMatch
    <3>5. id # Blank
      BY <3>2, IdsDiffer
    <3> QED
      BY <3>3, <3>4, <3>5
  <2> QED
    BY <2>1, <2>2
<1>7. \A k \in 1..Len(subagents) : \E n \in 1..started :
        subagents[k].id = TaskId(n) /\ Stacked(k, n)
        /\ (RoughlyMatch(subagents[k].id, id) <=> Answers(n))
        /\ (Waits(n) \/ Answers(n))
  BY <1>3, <1>6 DEF StackGiven, Stacked
<1>8. subagents' = IF subagents = <<>> THEN subagents ELSE Popped(id)
  <2>1. CASE subagents = <<>>
    BY <1>2, <1>5, <2>1 DEF AfterResult
  <2>2. CASE subagents # <<>> /\ Popped(id) # subagents
    BY <1>2, <1>5, <2>2 DEF AfterResult
  <2>3. CASE subagents # <<>> /\ Popped(id) = subagents
    <3>1. Len(subagents) \in 1..Len(subagents)
      BY <1>4, <2>3, EmptySeq
    <3>2. PICK n \in 1..started : subagents[Len(subagents)].id = TaskId(n)
      BY <1>7, <3>1
    <3>3. Last(subagents).id = TaskId(n)
      BY <3>2 DEF Last
    <3>4. ~Synthetic(Last(subagents).id)
      BY <3>3, IdsDiffer DEF Synthetic
    <3> QED
      BY <1>2, <1>5, <2>3, <3>4 DEF AfterResult
  <2> QED
    BY <2>1, <2>2, <2>3
\* Those that are left wait, in the same order; of those that wait none is taken.
<1>9. /\ Len(subagents') \in 0..Len(subagents)
      /\ \A k \in 1..Len(subagents') : k \in 1..Len(subagents) /\ subagents'[k] = subagents[k]
      /\ \A k \in 1..Len(subagents') : \A n : Stacked(k, n)' <=> Stacked(k, n)
      /\ \A k \in 1..Len(subagents') : \A n \in 1..started : Stacked(k, n) => ~Answers(n)
      /\ ~overtaken => \A k \in 1..Len(subagents) : \A n \in 1..started :
            Stacked(k, n) /\ Waits(n) => k \in 1..Len(subagents') \/ Answers(n)
  <2>1. CASE \A k \in 1..Len(subagents) : ~RoughlyMatch(subagents[k].id, id)
    <3>1. subagents' = subagents
      BY <1>4, <1>6, <1>8, <2>1, PoppedIs
    <3>2. \A k \in 1..Len(subagents) : \A n \in 1..started : Stacked(k, n) => ~Answers(n)
      BY <1>6, <2>1 DEF Stacked
    <3> QED
      BY <1>4, <3>1, <3>2 DEF Stacked
  <2>2. ASSUME NEW j \in 1..Len(subagents), RoughlyMatch(subagents[j].id, id)
        PROVE  /\ Len(subagents') = j - 1
               /\ \A k \in 1..(j - 1) : subagents'[k] = subagents[k]
               /\ \E r \in 1..started : Stacked(j, r) /\ Answers(r)
    <3>1. PICK r \in 1..started : Stacked(j, r) /\ Answers(r)
      BY <1>7, <2>2
    <3>2. ASSUME NEW k \in 1..Len(subagents), RoughlyMatch(subagents[k].id, id) PROVE k = j
      <4>1. PICK m \in 1..started : Stacked(k, m) /\ Answers(m)
        BY <1>7, <3>2
      <4>2. m = r
        BY <1>6, <3>1, <4>1
      <4>3. ~(k < j) /\ ~(j < k)
        BY <1>3, <3>1, <4>1, <4>2 DEF StackGiven
      <4> QED
        BY <4>3
    <3>3. subagents # <<>>
      BY <1>4, <2>2, EmptySeq
    <3>4. subagents' = SubSeq(subagents, 1, j - 1)
      BY <1>4, <1>6, <1>8, <2>2, <3>2, <3>3, PoppedIs
    <3>5. j - 1 \in 0..Len(subagents)
      BY <1>4
    <3> QED
      BY <1>4, <3>1, <3>4, <3>5, SubSeqProperties
  <2>3. ASSUME NEW j \in 1..Len(subagents), RoughlyMatch(subagents[j].id, id)
        PROVE  /\ Len(subagents') \in 0..Len(subagents)
               /\ \A k \in 1..Len(subagents') :
                     k \in 1..Len(subagents) /\ subagents'[k] = subagents[k] /\ k < j
               /\ Len(subagents') = j - 1
    BY <1>4, <2>2, <2>3
  <2>4. ASSUME NEW j \in 1..Len(subagents), RoughlyMatch(subagents[j].id, id)
        PROVE  /\ \A k \in 1..Len(subagents') : \A n \in 1..started : Stacked(k, n) => ~Answers(n)
               /\ ~overtaken => \A k \in 1..Len(subagents) : \A n \in 1..started :
                     Stacked(k, n) /\ Waits(n) => k \in 1..Len(subagents') \/ Answers(n)
    <3>1. PICK r \in 1..started : Stacked(j, r) /\ Answers(r)
      BY <2>2, <2>4
    <3>2. ASSUME NEW k \in 1..Len(subagents'), NEW n \in 1..started, Stacked(k, n), Answers(n)
          PROVE  FALSE
      <4>1. n = r /\ k < j /\ k \in 1..Len(subagents)
        BY <1>6, <2>3, <2>4, <3>1, <3>2
      <4>2. n < r
        BY <1>3, <3>1, <3>2, <4>1 DEF StackGiven
      <4> QED
        BY <1>4, <4>1, <4>2
    <3>3. ASSUME ~overtaken, NEW k \in 1..Len(subagents), NEW n \in 1..started,
                 Stacked(k, n), Waits(n), ~Answers(n)
          PROVE  k \in 1..Len(subagents')
      <4>1. n < r /\ n # r
        BY <1>3, <3>1, <3>3 DEF StackGiven
      <4>2. ~(j < k)
        <5>1. j < k => r < n
          BY <1>3, <3>1, <3>3 DEF StackGiven
        <5> QED
          BY <4>1, <5>1
      <4>3. k # j
        <5>1. k = j => TaskId(n) = TaskId(r)
          BY <3>1, <3>3 DEF Stacked
        <5> QED
          BY <4>1, <5>1, IdsDiffer
      <4>4. Len(subagents') = j - 1
        BY <2>3, <2>4
      <4> QED
        BY <4>2, <4>3, <4>4
    <3> QED
      BY <3>2, <3>3
  <2>5. CASE \E j \in 1..Len(subagents) : RoughlyMatch(subagents[j].id, id)
    <3>1. PICK j \in 1..Len(subagents) : RoughlyMatch(subagents[j].id, id)
      BY <2>5
    <3>2. /\ Len(subagents') \in 0..Len(subagents)
          /\ \A k \in 1..Len(subagents') : k \in 1..Len(subagents) /\ subagents'[k] = subagents[k]
      BY <2>3, <3>1
    <3>3. \A k \in 1..Len(subagents') : \A n : Stacked(k, n)' <=> Stacked(k, n)
      BY <3>2 DEF Stacked
    <3> QED
      BY <2>4, <3>1, <3>2, <3>3
  <2> QED
    BY <2>1, <2>5
<1>10. \A k \in 1..Len(subagents') :
         \E n \in 1..started' : Stacked(k, n)' /\ (Waits(n)' \/ Answers(n)')
  BY <1>2, <1>7, <1>9
<1>11. \A j, k \in 1..Len(subagents') : \A m, n \in 1..started' :
         j < k /\ Stacked(j, m)' /\ Stacked(k, n)' => m < n
  <2>1. started' = started
    BY <1>2
  <2>2. \A j, k \in 1..Len(subagents) : \A m, n \in 1..started :
         j < k /\ Stacked(j, m) /\ Stacked(k, n) => m < n
    BY <1>3 DEF StackGiven
  <2> QED
    BY <1>9, <2>1, <2>2, Zenon
<1>12. ~overtaken' => \A n \in 1..started' : Waits(n)' => OnStack(n)'
  <2>1. SUFFICES ASSUME ~overtaken', NEW n \in 1..started', Waits(n)' PROVE OnStack(n)'
    OBVIOUS
  <2>2. ~overtaken /\ n \in 1..started /\ Waits(n)
    BY <1>2, <2>1
  <2>3. ~Pending(n)
    BY <1>1 DEF Pending, Begins, StartsTask, Calls, Resulting
  <2>4. PICK k \in 1..Len(subagents) : Stacked(k, n)
    BY <1>3, <2>2, <2>3 DEF StackGiven, OnStack
  <2>5. ~Answers(n)
    <3>1. Answers(n) /\ Waits(n) => n < n
      BY <1>3, <2>2 DEF StackGiven
    <3> QED
      BY <2>2, <3>1
  <2> QED
    BY <1>9, <2>2, <2>4, <2>5 DEF OnStack
<1> QED
  BY <1>1, <1>10, <1>11, <1>12 DEF StackGiven

\* Without ids, the result of a Task takes the top of the stack, another none.
LEMMA ResultMadeUp ==
    ASSUME BlockInv, StackInv, NEW ev, Turn(ev), Result(ev), phase = "running", ~Given
    PROVE  StackMadeUp'
<1>1. /\ ev = parsed[1] /\ 1 \in 1..Len(parsed) /\ Resulting /\ Len(parsed) = 1 /\ ~Answering'
      /\ Unstarted(1)' = Unstarted(2) /\ Unstarted(2)' = 0 /\ parsed[1].type = "result"
  BY Shifted DEF Result
<1>2. UNCHANGED <<style, waiting, started, overtaken>> /\ subagents' = AfterResult(ev.id)
  BY DEF Turn, Result
<1>3. Named /\ StackMadeUp
  BY DEF StackInv
<1>4. /\ subagents \in Seq([id : StackIds, segment : Nat])
      /\ Len(subagents) \in Nat /\ Len(waiting) \in Nat /\ Shapes
      /\ started \in Nat /\ started <= MaxTasks
  <2>1. /\ Shapes /\ subagents \in Seq([id : StackIds, segment : Nat]) /\ started \in 0..MaxTasks
        /\ waiting \in Seq(Nat)
    BY DEF BlockInv, Shapes
  <2>2. MaxTasks \in Nat
    BY TranscriptAssumption
  <2> QED
    BY <2>1, <2>2, LenProperties
<1>5. Unstarted(1) = 0 /\ Unstarted(2) = 0
  BY <1>1 DEF Unstarted, StartsTask, Calls
<1>6. /\ \A k \in 1..Len(subagents) : subagents[k].id = MadeUp(k)
      /\ Len(subagents) = Len(waiting) + (IF Answering THEN 1 ELSE 0)
  BY <1>3, <1>4, <1>5 DEF StackMadeUp
<1>7. subagents # <<>> => Synthetic(Last(subagents).id)
  <2>1. SUFFICES ASSUME subagents # <<>> PROVE Synthetic(Last(subagents).id)
    OBVIOUS
  <2>2. Len(subagents) \in 1..Len(subagents)
    BY <1>4, <2>1, EmptySeq
  <2>3. Last(subagents).id = MadeUp(Len(subagents))
    BY <1>6, <2>2 DEF Last
  <2> QED
    BY <2>3, IdsDiffer DEF Synthetic
<1>8. CASE ~Answering
  <2>1. PICK t \in ToolIds : ev.id = <<t>> /\ names[<<t>>] = "tool"
    BY <1>1, <1>8 DEF Answering, OfTool
  <2>2. \A k \in 1..Len(subagents) : ~RoughlyMatch(subagents[k].id, <<t>>)
    BY <1>6, OthersDoNotMatch
  <2>3. Popped(<<t>>) = subagents
    BY <1>4, <2>2, IdsDiffer, PoppedIs
  <2>4. NameOf(<<t>>) = "tool"
    BY <2>1 DEF NameOf, Ids
  <2>5. subagents' = subagents
    BY <1>2, <2>1, <2>3, <2>4 DEF AfterResult
  <2> QED
    BY <1>1, <1>2, <1>4, <1>5, <1>6, <1>8, <2>5 DEF StackMadeUp
<1>9. CASE Answering
  <2>1. Len(subagents) = Len(waiting) + 1 /\ Len(subagents) > 0
    BY <1>4, <1>6, <1>9
  <2>2. subagents # <<>> /\ Synthetic(Last(subagents).id)
    BY <1>4, <1>7, <2>1, EmptySeq
  <2>3. PICK r \in 1..started : ev.id \in ResultIds(r)
    BY <1>1, <1>3, <1>9 DEF Named
  <2>4. ev.id = TaskId(r) \/ ev.id = Blank
    BY <2>3 DEF ResultIds, Given
  <2>5. Front(subagents) = SubSeq(subagents, 1, Len(subagents) - 1)
    BY DEF Front
  <2>6. /\ Len(Front(subagents)) = Len(subagents) - 1
        /\ \A k \in 1..(Len(subagents) - 1) : Front(subagents)[k] = subagents[k]
    <3>1. PICK m : m = Len(subagents) - 1
      OBVIOUS
    <3>2. m \in 0..Len(subagents) /\ Front(subagents) = SubSeq(subagents, 1, m) /\ m - 1 + 1 = m
      BY <1>4, <2>1, <2>5, <3>1
    <3>3. Len(Front(subagents)) = m /\ \A k \in 1..m : Front(subagents)[k] = subagents[k]
      BY <1>4, <3>2, SubSeqProperties
    <3> QED
      BY <3>1, <3>3
  <2>7. subagents' = Front(subagents)
    <3>1. CASE ev.id = Blank
      <4>1. Popped(Blank) = Front(subagents)
        BY <2>2 DEF Popped
      <4>2. Front(subagents) # subagents
        BY <1>4, <2>6
      <4> QED
        BY <1>2, <2>2, <3>1, <4>1, <4>2 DEF AfterResult
    <3>2. CASE ev.id = TaskId(r)
      <4>1. \A k \in 1..Len(subagents) : ~RoughlyMatch(subagents[k].id, TaskId(r))
        BY <1>6, OthersDoNotMatch
      <4>2. Popped(TaskId(r)) = subagents
        BY <1>4, <4>1, IdsDiffer, PoppedIs
      <4>3. NameOf(TaskId(r)) \in {"none", "Task"}
        <5>1. r \in 1..MaxTasks
          BY <1>4, TranscriptAssumption
        <5> QED
          BY <1>3, <5>1 DEF NameOf, Named
      <4>4. LooksLikeTask(TaskId(r))
        BY IdsDiffer DEF LooksLikeTask
      <4> QED
        BY <1>2, <2>2, <3>2, <4>2, <4>3, <4>4 DEF AfterResult
    <3> QED
      BY <2>4, <3>1, <3>2
  <2>8. Len(subagents') = Len(waiting) /\ \A k \in 1..Len(subagents') : subagents'[k].id = MadeUp(k)
    <3>1. Len(subagents') = Len(subagents) - 1
      BY <2>6, <2>7
    <3>2. \A k \in 1..Len(subagents') : k \in 1..Len(subagents) /\ k \in 1..(Len(subagents) - 1)
      BY <1>4, <3>1
    <3> QED
      BY <1>4, <1>6, <2>1, <2>6, <2>7, <3>1, <3>2
  <2> QED
    BY <1>1, <1>2, <1>4, <1>5, <2>8 DEF StackMadeUp
<1> QED
  BY <1>8, <1>9

\* A result takes from the stack what it answers, with ids or without.
LEMMA ResultStack ==
    ASSUME BlockInv, StackInv, Process, Result(Head(parsed))
    PROVE  StackInv'
<1>1. PICK ev : ev = Head(parsed)
  OBVIOUS
<1>2. Turn(ev) /\ Result(ev)
  BY <1>1, TurnIs
<1>3. Len(parsed') = 0 /\ names' = names
  BY <1>2, Shifted DEF Result
<1> QED
  BY <1>2, <1>3, ResultGiven, ResultMadeUp, TurnStack

\* Every turn: but for the start of a Task and a result it leaves the stack alone.
LEMMA ProcessStack ==
    ASSUME BlockInv, StackInv, Process
    PROVE  StackInv'
<1>1. PICK ev : ev = Head(parsed)
  OBVIOUS
<1>2. Turn(ev)
  BY <1>1, TurnIs
<1>3. ev = parsed[1] /\ (ev.type = "result" => ev.kind = "tool")
  <2>1. ev = parsed[1] /\ EventOK(1)
    BY <1>2 DEF Turn
  <2> QED
    BY <2>1 DEF EventOK
<1>4. CASE Hide(ev) \/ StartText(ev) \/ AppendText(ev) \/ DeltaTool(ev) \/ StopBlock(ev)
           \/ AppendError(ev) \/ Complete(ev)
  <2>1. UNCHANGED <<names, subagents>>
    BY <1>4 DEF Hide, StartText, AppendText, DeltaTool, StopBlock, AppendError, Complete, Reuse,
                bufferVars
  <2>2. ~StartsTask(1) /\ ev.type # "result"
    BY <1>3, <1>4 DEF Hide, StartText, AppendText, DeltaTool, StopBlock, AppendError, Complete,
                      StartsTask, Calls
  <2> QED
    BY <1>2, <2>1, <2>2, SameStack
<1>5. CASE CallTool(ev)
  <2>1. /\ UNCHANGED subagents /\ Remember(ev) /\ Calls(1) /\ ~StartsTask(1)
        /\ ev.type # "result"
    BY <1>3, <1>5 DEF CallTool, IsCall, Calls, StartsTask
  <2> QED
    BY <1>2, <2>1, SameStack
<1>6. CASE StartTask(ev)
  BY <1>1, <1>6, StartTaskStack
<1>7. CASE Result(ev)
  BY <1>1, <1>7, ResultStack
<1> QED
  BY <1>1, <1>4, <1>5, <1>6, <1>7 DEF Process

\* StackInv is inductive, given BlockInv.
LEMMA NextStack ==
    ASSUME BlockInv, StackInv, [Next]_vars
    PROVE  StackInv'
<1>1. CASE CliLine
  BY <1>1, CliLineStack
<1>2. CASE Process
  BY <1>2, ProcessStack
<1>3. CASE \E stopped \in BOOLEAN : Abort(stopped)
  BY <1>3 DEF Abort, StackInv
<1>4. CASE UNCHANGED vars
  <2>1. UNCHANGED <<style, phase, parsed, started, waiting, overtaken, names, subagents>>
    BY <1>4 DEF vars, cliVars, bufferVars
  <2>2. /\ \A p : (StartsTask(p)' <=> StartsTask(p)) /\ (Calls(p)' <=> Calls(p))
        /\ \A p, n : Begins(p, n)' <=> Begins(p, n)
        /\ \A n : (Pending(n)' <=> Pending(n)) /\ (Answers(n)' <=> Answers(n))
    BY <2>1 DEF StartsTask, Calls, Begins, Pending, Answers, Resulting
  <2>3. /\ \A n : (Waits(n)' <=> Waits(n)) /\ (OnStack(n)' <=> OnStack(n))
        /\ \A k, n : Stacked(k, n)' <=> Stacked(k, n)
    BY <2>1 DEF Waits, OnStack, Stacked
  <2>4. (Answering' <=> Answering) /\ (Given' <=> Given) /\ \A n : ResultIds(n)' = ResultIds(n)
    BY <2>1 DEF Answering, Resulting, OfTool, Given, ResultIds
  <2>5. Named' <=> Named
    BY <2>1, <2>2, <2>4 DEF Named
  <2>6. (InOrder' <=> InOrder) /\ \A p : Hidden(p)' <=> Hidden(p)
    BY <2>1, <2>4 DEF InOrder, Hidden
  <2>7. StackGiven' <=> StackGiven
    BY <2>1, <2>2, <2>3 DEF StackGiven
  <2>8. StackMadeUp' <=> StackMadeUp
    BY <2>1, <2>2, <2>4 DEF StackMadeUp, Unstarted
  <2> QED
    BY <2>1, <2>4, <2>5, <2>6, <2>7, <2>8 DEF StackInv
<1> QED
  BY <1>1, <1>2, <1>3, <1>4 DEF Next

\* Nobody waits and the stack is empty.
LEMMA InitStack == Init => StackInv
<1> SUFFICES ASSUME Init PROVE StackInv
  OBVIOUS
<1>1. /\ phase = "running" /\ parsed = <<>> /\ Len(parsed) = 0 /\ waiting = <<>> /\ Len(waiting) = 0
      /\ subagents = <<>> /\ Len(subagents) = 0 /\ started = 0
      /\ names = [id \in Ids |-> "none"]
  BY DEF Init
<1>2. ~Resulting /\ \A n : ~Waits(n)
  BY <1>1 DEF Resulting, Waits
<1>3. Named /\ InOrder
  BY <1>1, <1>2 DEF Named, InOrder, Answering, Ids
<1>4. StackGiven /\ StackMadeUp
  BY <1>1, <1>2 DEF StackGiven, StackMadeUp, Unstarted, Answering
<1> QED
  BY <1>1, <1>3, <1>4 DEF StackInv

\* Both invariants hold at all times.
LEMMA StackInvariance == Spec => [](BlockInv /\ StackInv)
<1>1. Init => BlockInv /\ StackInv
  BY InitBlockInv, InitStack
<1>2. BlockInv /\ StackInv /\ [Next]_vars => (BlockInv /\ StackInv)'
  BY NextBlockInv, NextStack
<1> QED
  BY <1>1, <1>2, PTL DEF Spec

\* In every run, however the answers come, the stack of subagents is that of the Tasks that
\* wait when the handler has caught up with the CLI: with ids each entry is a Task that
\* waits, older ones below; with made-up ids there are as many as wait.  So text is shown
\* again once all Tasks are answered (TranscriptBuffer._subagent_pop and apply).
THEOREM StackOfThoseThatWait == Spec => []StackWaits
<1>1. BlockInv /\ StackInv => StackWaits
  <2> SUFFICES ASSUME BlockInv, StackInv, Quiet PROVE StackWaits
    BY DEF StackWaits
  <2>1. phase = "running" /\ parsed = <<>>
    BY DEF Quiet
  <2>2. /\ DOMAIN subagents = 1..Len(subagents) /\ DOMAIN waiting = 1..Len(waiting)
    <3>1. subagents \in Seq([id : StackIds, segment : Nat]) /\ waiting \in Seq(Nat)
      BY DEF BlockInv, Shapes
    <3> QED
      BY <3>1, LenProperties
  <2>3. CASE Given
    <3>1. /\ \A k \in 1..Len(subagents) : \E n \in 1..started : Stacked(k, n) /\ Waits(n)
          /\ \A j, k \in 1..Len(subagents) : \A m, n \in 1..started :
                j < k /\ Stacked(j, m) /\ Stacked(k, n) => m < n
      BY <2>1, <2>3, AtRest
    <3>2. \A k \in 1..Len(subagents) : \E w \in 1..Len(waiting) :
            subagents[k].id = TaskId(waiting[w])
      BY <3>1 DEF Stacked, Waits
    <3>3. \A k \in 1..Len(subagents) : \E n \in 1..started : Stacked(k, n) /\ subagents[k].id[2] = n
      BY <3>1 DEF Stacked, TaskId
    <3>4. \A j, k \in 1..Len(subagents) : j < k => subagents[j].id[2] < subagents[k].id[2]
      BY <3>1, <3>3
    <3> QED
      BY <2>2, <2>3, <3>2, <3>4 DEF StackWaits, Given
  <2>4. CASE ~Given
    BY <2>1, <2>4, AtRest DEF StackWaits, Given
  <2> QED
    BY <2>3, <2>4
<1> QED
  BY <1>1, StackInvariance, PTL

\* In no step of any run is a subagent's text shown, but when the CLI gives ids and a Task
\* was answered before an older one: its pop took the younger ones off the stack as well
\* (TranscriptBuffer.apply, which hides text while the stack is not empty).
THEOREM InnerTextHidden == Spec => HiddenUnlessOvertaken
<1> DEFINE Step == Process /\ Head(parsed).inTask /\ Head(parsed).kind \in {"text", "thinking"}
                     => segments' = segments \/ (overtaken /\ style.ids = "given")
<1>1. BlockInv /\ StackInv /\ Process => Step
  <2> SUFFICES ASSUME BlockInv, StackInv, Process, Head(parsed).inTask,
                      Head(parsed).kind \in {"text", "thinking"}
               PROVE  segments' = segments \/ (overtaken /\ style.ids = "given")
    OBVIOUS
  <2>1. PICK ev : ev = Head(parsed)
    OBVIOUS
  <2>2. Turn(ev)
    BY <2>1, TurnIs
  <2>3. /\ ev = parsed[1] /\ 1 \in 1..Len(parsed) /\ phase \in {"running", "exited"}
        /\ ev.inTask /\ ev.kind \in {"text", "thinking"}
        /\ ev.type \in {"error", "complete"} => ev.kind = "none"
    <3>1. ev = parsed[1] /\ 1 \in 1..Len(parsed) /\ phase \in {"running", "exited"} /\ EventOK(1)
      BY <2>2 DEF Turn
    <3> QED
      BY <2>1, <3>1 DEF EventOK
  <2>4. phase = "running"
    BY <2>3 DEF StackInv
  <2>5. subagents # <<>> \/ (overtaken /\ Given)
    BY <2>3, <2>4 DEF StackInv, Hidden
  <2>6. ASSUME subagents # <<>> PROVE segments' = segments
    <3>1. ~StartText(ev) /\ ~AppendText(ev)
      BY <2>6 DEF StartText, AppendText
    <3>2. ~StartTask(ev) /\ ~CallTool(ev) /\ ~DeltaTool(ev) /\ ~AppendError(ev) /\ ~Complete(ev)
      BY <2>3 DEF StartTask, CallTool, IsCall, DeltaTool, AppendError, Complete
    <3>3. Hide(ev) \/ StopBlock(ev) \/ Result(ev)
      BY <2>1, <3>1, <3>2 DEF Process
    <3> QED
      BY <3>3 DEF Hide, StopBlock, Result, bufferVars
  <2> QED
    BY <2>5, <2>6 DEF Given
<1>2. BlockInv /\ StackInv /\ [Next]_vars => [Step]_vars
  BY <1>1
<1> QED
  BY <1>2, StackInvariance, PTL DEF Spec, HiddenUnlessOvertaken

-----------------------------------------------------------------------------
(* What is rendered, in lengths.  The library's folds are recursive        *)
(* functions on sets, and their equations are shown here first.            *)

\* The least of some numbers.
LEMMA Least ==
    ASSUME NEW S \in SUBSET Nat, S # {}
    PROVE  \E x \in S : \A y \in S : x <= y
<1>1. PICK x \in S : \A y \in S : ~(<<y, x>> \in OpToRel(<, Nat))
  BY NatLessThanWellFounded, WFMin
<1>2. \A y \in S : ~(y < x)
  BY <1>1 DEF OpToRel
<1> QED
  BY <1>2

\* f folds the numbers of every set below k by step, from base, the least ones first.
IsFold(f, k, T, base, step) ==
    /\ f \in [SUBSET (1..k) -> T]
    /\ f[{}] = base
    /\ \A s \in SUBSET (1..k) : s # {} => f[s] = step[Max(s), f[s \ {Max(s)}]]

\* There is such a function: the least k without one would have one.
LEMMA FoldExists ==
    ASSUME NEW n \in Nat, NEW T, NEW base \in T, NEW step \in [(1..n) \X T -> T]
    PROVE  \E f : IsFold(f, n, T, base, step)
<1> DEFINE Bad == {k \in 0..n : ~\E f : IsFold(f, k, T, base, step)}
<1>1. SUFFICES ASSUME Bad # {} PROVE FALSE
  <2>1. n \in 0..n
    OBVIOUS
  <2> QED
    BY <2>1
<1>2. PICK k \in Bad : \A j \in Bad : k <= j
  <2>1. Bad \in SUBSET Nat
    OBVIOUS
  <2> HIDE DEF Bad
  <2> QED
    BY <1>1, <2>1, Least
<1>3. 0 \notin Bad
  <2> DEFINE f == [s \in SUBSET (1..0) |-> base]
  <2>1. SUBSET (1..0) = {{}}
    OBVIOUS
  <2>2. IsFold(f, 0, T, base, step)
    BY <2>1 DEF IsFold
  <2> QED
    BY <2>2
<1>4. k \in 1..n /\ k - 1 \in 0..n /\ k - 1 \notin Bad
  BY <1>2, <1>3
<1>5. PICK f : IsFold(f, k - 1, T, base, step)
  BY <1>4
<1> DEFINE g == [s \in SUBSET (1..k) |->
                   IF k \in s THEN step[k, f[s \ {k}]] ELSE f[s]]
<1>6. \A s \in SUBSET (1..k) : s \ {k} \in SUBSET (1..(k - 1)) /\ (k \notin s => s \in SUBSET (1..(k - 1)))
  BY <1>4
<1>7. g \in [SUBSET (1..k) -> T]
  <2>1. ASSUME NEW s \in SUBSET (1..k) PROVE g[s] \in T
    <3>1. f[s \ {k}] \in T /\ (k \notin s => f[s] \in T)
      BY <1>5, <1>6 DEF IsFold
    <3>2. <<k, f[s \ {k}]>> \in (1..n) \X T
      BY <3>1, <1>4
    <3>3. step[k, f[s \ {k}]] \in T
      BY <3>2
    <3> QED
      BY <3>1, <3>3
  <2> QED
    BY <2>1
<1>8. g[{}] = base
  BY <1>5 DEF IsFold
<1>9. ASSUME NEW s \in SUBSET (1..k), s # {}
      PROVE  g[s] = step[Max(s), g[s \ {Max(s)}]]
  <2>0. k \in Nat
    BY <1>4
  <2>1. Max(s) \in s /\ \A y \in s : y <= Max(s)
    BY <2>0, <1>9, MaxIs
  <2>2. CASE k \in s
    <3>1. Max(s) = k
      <4>1. Max(s) \in 1..k /\ k <= Max(s)
        BY <2>1, <2>2
      <4> QED
        BY <4>1, <2>0
    <3>2. s \ {k} \in SUBSET (1..k) /\ k \notin s \ {k}
      OBVIOUS
    <3> QED
      BY <2>2, <3>1, <3>2
  <2>3. CASE k \notin s
    <3>1. s \in SUBSET (1..(k - 1)) /\ s \ {Max(s)} \in SUBSET (1..k) /\ k \notin s \ {Max(s)}
      BY <1>6, <2>3
    <3>2. f[s] = step[Max(s), f[s \ {Max(s)}]]
      BY <3>1, <1>5, <1>9 DEF IsFold
    <3> QED
      BY <2>3, <3>1, <3>2
  <2> QED
    BY <2>2, <2>3
<1>10. IsFold(g, k, T, base, step)
  <2> HIDE DEF g
  <2> QED
    BY <1>7, <1>8, <1>9 DEF IsFold
<1> QED
  BY <1>2, <1>10

\* What folds by a rule that stays in T has all its values there.
LEMMA FoldStays ==
    ASSUME NEW n \in Nat, NEW T, NEW f, f[{}] \in T,
           \A s \in SUBSET (1..n) : s # {} /\ f[s \ {Max(s)}] \in T => f[s] \in T
    PROVE  \A s \in SUBSET (1..n) : f[s] \in T
<1> DEFINE Bad == {k \in 0..n : \E s \in SUBSET (1..k) : f[s] \notin T}
<1>1. SUFFICES ASSUME Bad # {} PROVE FALSE
  <2>1. n \in 0..n
    OBVIOUS
  <2> QED
    BY <2>1
<1>2. PICK k \in Bad : \A j \in Bad : k <= j
  <2>1. Bad \in SUBSET Nat
    OBVIOUS
  <2> HIDE DEF Bad
  <2> QED
    BY <1>1, <2>1, Least
<1>3. PICK s \in SUBSET (1..k) : f[s] \notin T
  BY <1>2
<1>4. k \in 0..n
  BY <1>2
<1>4a. s # {}
  BY <1>3
<1>4b. s \in SUBSET (1..n)
  BY <1>4
<1>5. Max(s) \in s /\ \A y \in s : y <= Max(s)
  BY <1>4a, <1>4b, MaxIs
<1> DEFINE m == Max(s)
<1>5a. m \in 1..k /\ s \ {m} = {y \in s : y < m}
  <2>1. m \in s /\ \A y \in s : y <= m
    BY <1>5
  <2> HIDE DEF m
  <2>2. \A y \in s : y \in Nat
    OBVIOUS
  <2>3. m \in 1..k /\ m \in Nat
    BY <2>1, <2>2
  <2>4. \A y \in s : y # m <=> y < m
    BY <2>1, <2>2, <2>3
  <2> QED
    BY <2>3, <2>4
<1>5b. f[s \ {m}] \in T => f[s] \in T
  BY <1>4a, <1>4b
<1> HIDE DEF m
<1>6. m - 1 \in 0..n /\ m - 1 < k
  BY <1>4, <1>5a
<1>7. m - 1 \notin Bad
  <2> HIDE DEF Bad
  <2>1. k \in Nat /\ m - 1 \in Nat
    BY <1>4, <1>6
  <2> QED
    BY <1>2, <1>6, <2>1
<1>8. s \ {m} \in SUBSET (1..(m - 1))
  BY <1>4, <1>5a
<1>9. f[s \ {m}] \in T
  BY <1>6, <1>7, <1>8
<1> QED
  BY <1>3, <1>5b, <1>9

\* A sum of numbers, as FoldLeft computes it, is a number.
LEMMA SumIsNat ==
    ASSUME NEW seq \in Seq(Nat), NEW base \in Nat
    PROVE  FoldLeft(+, base, seq) \in Nat
<1> DEFINE n == Len(seq)
<1> DEFINE Eq(it) == it = [s \in SUBSET (DOMAIN seq) |->
                        IF s = {} THEN base
                        ELSE LET x == Max(s) IN it[s \ {x}] + seq[x]]
<1> DEFINE iter == CHOOSE it : Eq(it)
<1>1. FoldLeft(+, base, seq) = iter[DOMAIN seq]
  BY DEF FoldLeft, MapThenFoldSet
<1>2. n \in Nat /\ DOMAIN seq = 1..n /\ \A j \in 1..n : seq[j] \in Nat
  OBVIOUS
<1> DEFINE step == [p \in (1..n) \X Nat |-> p[2] + seq[p[1]]]
<1>3. step \in [(1..n) \X Nat -> Nat]
  BY <1>2
<1>4. PICK f : IsFold(f, n, Nat, base, step)
  <2> HIDE DEF step, n
  <2> QED
    BY <1>2, <1>3, FoldExists
<1>5. Eq(f)
  <2>1. f \in [SUBSET (1..n) -> Nat] /\ f[{}] = base
    BY <1>4 DEF IsFold
  <2>2. ASSUME NEW s \in SUBSET (1..n), s # {}
        PROVE  f[s] = f[s \ {Max(s)}] + seq[Max(s)]
    <3>1. Max(s) \in 1..n
      BY <2>2, <1>2, MaxIs
    <3>2. f[s \ {Max(s)}] \in Nat
      BY <2>1
    <3>3. f[s] = step[Max(s), f[s \ {Max(s)}]]
      BY <1>4, <2>2 DEF IsFold
    <3>4. <<Max(s), f[s \ {Max(s)}]>> \in (1..n) \X Nat
      BY <3>1, <3>2
    <3> QED
      BY <3>3, <3>4
  <2> QED
    BY <1>2, <2>1, <2>2
<1>6. Eq(iter)
  <2> HIDE DEF Eq
  <2> QED
    BY <1>5
<1>7. iter[{}] = base
  <2> HIDE DEF iter
  <2> QED
    BY <1>6
<1>8. \A s \in SUBSET (1..n) : s # {} => iter[s] = iter[s \ {Max(s)}] + seq[Max(s)]
  <2> HIDE DEF iter
  <2> QED
    BY <1>2, <1>6
<1>9. \A s \in SUBSET (1..n) : s # {} => Max(s) \in 1..n
  BY <1>2, MaxIs
<1>10. \A s \in SUBSET (1..n) : s # {} /\ iter[s \ {Max(s)}] \in Nat => iter[s] \in Nat
  <2> HIDE DEF iter
  <2> QED
    BY <1>2, <1>8, <1>9
<1>11. \A s \in SUBSET (1..n) : iter[s] \in Nat
  <2> HIDE DEF iter, n
  <2> QED
    BY <1>2, <1>7, <1>10, FoldStays
<1> QED
  BY <1>1, <1>2, <1>11

\* The parts that are shown have lengths, none of them empty.
LEMMA PartsAreNats ==
    ASSUME segments \in Seq(SegmentRecord), TranscriptAssumption
    PROVE  Parts \in Seq(Nat \ {0})
<1> DEFINE n == Len(segments)
<1> DEFINE T == Seq(Nat \ {0})
<1> DEFINE Shown(parts, segment) ==
             IF RenderedLen(segment) > 0 THEN Append(parts, RenderedLen(segment)) ELSE parts
<1> DEFINE Eq(it) == it = [s \in SUBSET (DOMAIN segments) |->
                        IF s = {} THEN <<>>
                        ELSE LET x == Max(s) IN Shown(it[s \ {x}], segments[x])]
<1> DEFINE iter == CHOOSE it : Eq(it)
<1>1. Parts = iter[DOMAIN segments]
  BY DEF Parts, FoldLeft, MapThenFoldSet
<1>2. n \in Nat /\ DOMAIN segments = 1..n /\ <<>> \in T
  OBVIOUS
<1>2a. \A j \in 1..n : RenderedLen(segments[j]) \in Nat
  <2> TAKE j \in 1..n
  <2>1. segments[j] \in SegmentRecord
    BY <1>2
  <2>2. segments[j].size \in Nat /\ TailMax \in Nat
    BY <2>1 DEF SegmentRecord, TranscriptAssumption
  <2>3. Shorter(segments[j].size, TailMax) \in Nat
    BY <2>2 DEF Shorter
  <2> QED
    BY <2>3 DEF RenderedLen
<1>2b. ASSUME NEW parts \in T, NEW j \in 1..n
       PROVE  Shown(parts, segments[j]) \in T
  <2>1. CASE RenderedLen(segments[j]) > 0
    <3>1. RenderedLen(segments[j]) \in Nat \ {0}
      BY <1>2a, <2>1
    <3> QED
      BY <2>1, <3>1, AppendProperties
  <2> QED
    BY <2>1
<1> DEFINE step == [p \in (1..n) \X T |-> Shown(p[2], segments[p[1]])]
<1>3. step \in [(1..n) \X T -> T]
  <2> HIDE DEF Shown, T, n
  <2> QED
    BY <1>2b
<1>4. PICK f : IsFold(f, n, T, <<>>, step)
  <2> HIDE DEF step, n, T
  <2> QED
    BY <1>2, <1>3, FoldExists
<1>5. Eq(f)
  <2>1. f \in [SUBSET (1..n) -> T] /\ f[{}] = <<>>
    BY <1>4 DEF IsFold
  <2>2. ASSUME NEW s \in SUBSET (1..n), s # {}
        PROVE  f[s] = Shown(f[s \ {Max(s)}], segments[Max(s)])
    <3>1. Max(s) \in 1..n
      BY <2>2, <1>2, MaxIs
    <3>2. f[s \ {Max(s)}] \in T
      BY <2>1
    <3>3. f[s] = step[Max(s), f[s \ {Max(s)}]]
      BY <1>4, <2>2 DEF IsFold
    <3>4. <<Max(s), f[s \ {Max(s)}]>> \in (1..n) \X T
      BY <3>1, <3>2
    <3> HIDE DEF Shown, T, n
    <3> QED
      BY <3>3, <3>4
  <2> HIDE DEF Shown, T
  <2> QED
    BY <1>2, <2>1, <2>2
<1>6. Eq(iter)
  <2> HIDE DEF Eq
  <2> QED
    BY <1>5
<1>7. iter[{}] = <<>>
  <2> HIDE DEF iter, Shown
  <2> QED
    BY <1>6
<1>8. \A s \in SUBSET (1..n) : s # {} => iter[s] = Shown(iter[s \ {Max(s)}], segments[Max(s)])
  <2> HIDE DEF iter, Shown
  <2> QED
    BY <1>2, <1>6
<1>9. \A s \in SUBSET (1..n) : s # {} => Max(s) \in 1..n
  BY <1>2, MaxIs
<1>10. \A s \in SUBSET (1..n) : s # {} /\ iter[s \ {Max(s)}] \in T => iter[s] \in T
  <2> HIDE DEF iter, Shown, T, n
  <2> QED
    BY <1>2b, <1>8, <1>9
<1>11. \A s \in SUBSET (1..n) : iter[s] \in T
  <2>1. n \in Nat /\ iter[{}] \in T
    BY <1>2, <1>7
  <2> HIDE DEF iter, n, T
  <2> QED
    BY <2>1, <1>10, FoldStays
<1> QED
  BY <1>1, <1>2, <1>11

\* And so has what they make when joined.
LEMMA JoinedIsNat ==
    ASSUME Parts \in Seq(Nat \ {0}), TranscriptAssumption, NEW k \in 1..Len(Parts)
    PROVE  Joined(Parts, k) \in Nat
<1> DEFINE newest == SubSeq(Parts, Len(Parts) - k + 1, Len(Parts))
<1>1. Parts \in Seq(Nat) /\ Len(Parts) \in Nat
  OBVIOUS
<1>2. newest \in Seq(Nat)
  <2>1. \A j \in (Len(Parts) - k + 1)..Len(Parts) : Parts[j] \in Nat
    BY <1>1
  <2> QED
    BY <1>1, <2>1, SubSeqProperties
<1>3. FoldLeft(+, k - 1, newest) \in Nat
  <2> HIDE DEF newest
  <2>1. k - 1 \in Nat
    OBVIOUS
  <2> QED
    BY <1>2, <2>1, SumIsNat
<1> DEFINE body == FoldLeft(+, k - 1, newest)
<1>4. Joined(Parts, k) = StatusLen + (IF k = 0 THEN 0
                               ELSE body + IF k < Len(Parts) THEN MarkerLen ELSE 0)
  BY DEF Joined
<1>5. body \in Nat
  BY <1>3
<1>6. StatusLen \in Nat /\ MarkerLen \in Nat /\ k \in Nat
  BY DEF TranscriptAssumption
<1> HIDE DEF body
<1> QED
  BY <1>1, <1>4, <1>5, <1>6

\* Whatever the segments are, what is rendered fits and shows what is newest.
LEMMA Fits ==
    ASSUME segments \in Seq(SegmentRecord), TranscriptAssumption
    PROVE  RenderFits
<1> DEFINE n == Len(Parts)
<1> DEFINE fitting == {k \in 1..n : Joined(Parts, k) <= Limit}
<1>1. Parts \in Seq(Nat \ {0}) /\ n \in Nat /\ (Parts = <<>> <=> n = 0)
  BY PartsAreNats, EmptySeq
<1>2. \A k \in 1..n : Joined(Parts, k) \in Nat
  BY <1>1, JoinedIsNat
<1>3. {Limit, MarkerLen, StatusLen, MinBudget} \subseteq Nat /\ MarkerLen + StatusLen <= Limit
  BY DEF TranscriptAssumption
<1>4. Budget = Limit - MarkerLen - StatusLen
  BY DEF Budget
<1>5. CASE Parts = <<>>
  <2>1. Rendered = [full |-> 0, tail |-> 0, len |-> StatusLen]
    BY <1>5 DEF Rendered
  <2> QED
    BY <1>1, <1>3, <1>5, <2>1 DEF RenderFits
<1>6. CASE Parts # <<>> /\ fitting # {}
  <2>1. Rendered = [full |-> Max(fitting), tail |-> 0, len |-> Joined(Parts, Max(fitting))]
    BY <1>6 DEF Rendered
  <2>2. Max(fitting) \in fitting /\ \A y \in fitting : y <= Max(fitting)
    <3>1. fitting \in SUBSET (1..n)
      OBVIOUS
    <3> HIDE DEF fitting, n
    <3> QED
      BY <1>1, <1>6, <3>1, MaxIs
  <2>3. PICK m : m = Max(fitting)
    OBVIOUS
  <2>4. m \in 1..n /\ Joined(Parts, m) <= Limit /\ (m + 1 \in 1..n => ~(Joined(Parts, m + 1) <= Limit))
    <3>1. m \in fitting /\ \A y \in fitting : y <= m
      BY <2>2, <2>3
    <3>2. m \in 1..n /\ Joined(Parts, m) <= Limit
      BY <3>1
    <3>3. ASSUME m + 1 \in 1..n, Joined(Parts, m + 1) <= Limit PROVE FALSE
      <4>1. m + 1 \in fitting
        BY <3>3
      <4>2. m + 1 <= m
        BY <3>1, <4>1
      <4> QED
        BY <3>2, <4>2
    <3> QED
      BY <3>2, <3>3
  <2>5. m < n => m + 1 \in 1..n
    BY <1>1, <2>4
  <2> QED
    BY <1>1, <1>2, <1>3, <2>1, <2>3, <2>4, <2>5 DEF RenderFits
<1>7. CASE Parts # <<>> /\ fitting = {}
  <2>1. n > 0 /\ 1 \in 1..n /\ Joined(Parts, 1) \in Nat /\ Joined(Parts, 1) > Limit
    <3>1. n > 0 /\ 1 \in 1..n
      BY <1>1, <1>7
    <3>2. 1 \notin fitting
      BY <1>7
    <3> QED
      BY <1>2, <1>3, <3>1, <3>2
  <2>2. Last(Parts) \in Nat \ {0}
    BY <1>1, <2>1 DEF Last
  <2>3. CASE Budget > MinBudget
    <3> DEFINE tail == Shorter(Last(Parts), Budget)
    <3>1. Rendered = [full |-> 0, tail |-> tail, len |-> MarkerLen + tail + StatusLen]
      BY <1>7, <2>3 DEF Rendered
    <3>2. tail \in Nat \ {0} /\ tail <= Budget
      BY <1>3, <1>4, <2>2, <2>3 DEF Shorter
    <3> QED
      BY <1>3, <1>4, <2>1, <3>1, <3>2 DEF RenderFits
  <2>4. CASE ~(Budget > MinBudget)
    <3>1. Rendered = [full |-> 0, tail |-> 0, len |-> MarkerLen + StatusLen]
      BY <1>7, <2>4 DEF Rendered
    <3> QED
      BY <1>3, <2>1, <2>4, <3>1 DEF RenderFits
  <2> QED
    BY <2>3, <2>4
<1> QED
  BY <1>5, <1>6, <1>7

\* In every run the message that render makes is within the platform's limit, shows of
\* the newest part as much as there is room for, and as many parts as fit: one more
\* would be too long (TranscriptBuffer.render with its truncation from the oldest end).
THEOREM RenderedFits == Spec => []RenderFits
<1>1. BlockInv => RenderFits
  BY Fits, TranscriptAssumption DEF BlockInv, Shapes
<1> QED
  BY <1>1, BlockInvariance, PTL

-----------------------------------------------------------------------------
(* VoiceNotes: what a /clear says is true.                                 *)

\* A note that was cancelled was with the transcriber then, or had failed.
CancelledInTime ==
    \A n \in cancelled : stage[n] \in {"transcribing", "discarding", "dropped", "failed"}

VoiceInv == VoiceTypeOK /\ CancelledInTime /\ ClearKeepsItsWord /\ OnlyFailedStayPending

\* The messages of a note, and only those, name it.
LEMMA PairsApart ==
    /\ \A n, k \in Notes : Voice(n) \in Pair(k) \/ Status(n) \in Pair(k) => n = k
    /\ \A m \in Messages : m[2] \in Notes /\ m \in Pair(m[2])
    /\ \A n \in Notes : Pair(n) \subseteq Messages
    /\ \A n \in Notes : Voice(n) \in Pair(n) /\ Status(n) \in Pair(n)
    /\ \A n \in Notes : Pair(n) = {Voice(n), Status(n)}
BY DEF Pair, Voice, Status, Messages

\* No note has come in.
LEMMA InitVoice == VoiceInit => VoiceInv
<1> SUFFICES ASSUME VoiceInit PROVE VoiceInv
  OBVIOUS
<1> USE DEF VoiceInit
<1>1. VoiceTypeOK
  BY DEF VoiceTypeOK, Stages
<1>2. OnlyFailedStayPending
  BY DEF OnlyFailedStayPending
<1> QED
  BY <1>1, <1>2 DEF VoiceInv, CancelledInTime, ClearKeepsItsWord

\* Types.
LEMMA StepVoiceType == VoiceTypeOK /\ [VoiceNext]_voiceVars => VoiceTypeOK'
<1> SUFFICES ASSUME VoiceTypeOK, [VoiceNext]_voiceVars PROVE VoiceTypeOK'
  OBVIOUS
<1> USE PairsApart DEF VoiceTypeOK, Stages, Goes
<1>1. CASE UNCHANGED voiceVars
  BY <1>1 DEF voiceVars
<1>2. ASSUME NEW n \in Notes, _on_telegram_voice(n) PROVE VoiceTypeOK'
  BY <1>2 DEF _on_telegram_voice
<1>3. ASSUME NEW n \in Notes, Handles(n) PROVE VoiceTypeOK'
  BY <1>3 DEF Handles, StatusSent, StartTranscription, Discard, handle_message,
              register, Delete
<1>4. ASSUME NEW n \in Notes, Transcribed(n) PROVE VoiceTypeOK'
  BY <1>4 DEF Transcribed, complete
<1>5. ASSUME NEW n \in Notes, TranscriptionFails(n) PROVE VoiceTypeOK'
  BY <1>5 DEF TranscriptionFails
<1>6. ASSUME NEW m \in Messages, ClearPending(m) PROVE VoiceTypeOK'
  <2>1. /\ pending' = pending \ Pair(m[2]) /\ cancelled' = cancelled \cup {m[2]}
        /\ clearing' = clearing \cup Pair(m[2])
        /\ UNCHANGED <<platform, stage, chat, missed, wiping, undeleted>>
    BY <1>6 DEF ClearPending, cancel, ToDelete
  <2> QED
    BY <2>1
<1>7. ASSUME NEW m \in Messages, ClearNothing(m) PROVE VoiceTypeOK'
  <2>1. m[2] \in Notes /\ stage[m[2]] \in Stages /\ (m[2] \in cancelled) \in BOOLEAN
    OBVIOUS
  <2>2. <<stage[m[2]], m[2] \in cancelled>> \in Stages \X BOOLEAN
    BY <2>1, Zenon
  <2> QED
    BY <1>7, <2>2 DEF ClearNothing
<1>8. ASSUME NEW m \in Messages, _handle_clear_branch(m) PROVE VoiceTypeOK'
  BY <1>8 DEF _handle_clear_branch
<1>9. CASE _delete_message_ids
  BY <1>9 DEF _delete_message_ids, Delete
<1>10. CASE GlobalClear
  BY <1>10 DEF GlobalClear
<1>11. CASE ReplaceTrees
  BY <1>11 DEF ReplaceTrees, Delete
<1> QED
  BY <1>1, <1>2, <1>3, <1>4, <1>5, <1>6, <1>7, <1>8, <1>9, <1>10, <1>11 DEF VoiceNext

\* What was said to be nothing to clear; SMT confuses truth values in tuples.
NothingToClear ==
    /\ \A miss \in missed : miss # <<"transcribing", FALSE>>
    /\ platform = "telegram" => \A miss \in missed : miss[1] \notin Working

\* The two sides of what the user was told.
LEMMA Words ==
    /\ ClearKeepsItsWord
         <=> (\A n \in cancelled : stage[n] \notin {"handed", "node", "cleared"}) /\ NothingToClear
    /\ ClearKeepsItsWord'
         <=> (\A n \in cancelled' : stage'[n] \notin {"handed", "node", "cleared"})
             /\ NothingToClear'
BY Zenon DEF ClearKeepsItsWord, NothingToClear

\* What is pending and what was cancelled.
LEMMA StepRegistry ==
    ASSUME VoiceTypeOK, CancelledInTime, OnlyFailedStayPending, VoiceNext
    PROVE  CancelledInTime' /\ OnlyFailedStayPending'
<1>a. /\ stage \in [Notes -> Stages] /\ pending \subseteq Messages /\ cancelled \subseteq Notes
      /\ CancelledInTime /\ OnlyFailedStayPending
  BY DEF VoiceTypeOK
<1> USE PairsApart, <1>a DEF Goes, CancelledInTime, OnlyFailedStayPending
<1> DEFINE Rest == CancelledInTime /\ OnlyFailedStayPending
<1>2. ASSUME NEW n \in Notes, _on_telegram_voice(n) PROVE Rest'
  BY <1>2 DEF _on_telegram_voice
<1>3. ASSUME NEW n \in Notes, StatusSent(n) PROVE Rest'
  BY <1>3 DEF StatusSent
<1>4. ASSUME NEW n \in Notes, StartTranscription(n) PROVE Rest'
  BY <1>4 DEF StartTranscription, register
<1>5. ASSUME NEW n \in Notes, Discard(n) PROVE Rest'
  BY <1>5 DEF Discard
<1>6. ASSUME NEW n \in Notes, handle_message(n) PROVE Rest'
  BY <1>6 DEF handle_message
<1>7. ASSUME NEW n \in Notes, Transcribed(n) PROVE Rest'
  BY <1>7 DEF Transcribed, is_pending, complete
<1>8. ASSUME NEW n \in Notes, TranscriptionFails(n) PROVE Rest'
  BY <1>8 DEF TranscriptionFails
<1>9. ASSUME NEW m \in Messages, ClearPending(m) PROVE Rest'
  <2>1. PICK n \in Notes : n = m[2] /\ m \in Pair(n)
    BY PairsApart
  <2>2. /\ m \in pending /\ pending' = pending \ Pair(n) /\ cancelled' = cancelled \cup {n}
        /\ UNCHANGED stage
    BY <1>9, <2>1 DEF ClearPending, cancel
  <2>3. Voice(n) \in pending /\ stage[n] \in {"transcribing", "failed"}
    BY <2>1, <2>2
  <2> QED
    BY <2>2, <2>3
<1>10. ASSUME NEW m \in Messages, ClearNothing(m) PROVE Rest'
  BY <1>10 DEF ClearNothing
<1>11. ASSUME NEW m \in Messages, _handle_clear_branch(m) PROVE Rest'
  BY <1>11 DEF _handle_clear_branch
<1>12. CASE _delete_message_ids
  BY <1>12 DEF _delete_message_ids
<1>13. CASE GlobalClear
  BY <1>13 DEF GlobalClear
<1>14. CASE ReplaceTrees
  BY <1>14 DEF ReplaceTrees
<1> QED
  BY <1>2, <1>3, <1>4, <1>5, <1>6, <1>7, <1>8, <1>9, <1>10, <1>11, <1>12, <1>13, <1>14
     DEF VoiceNext, Handles

\* Only ClearNothing says that there is nothing to clear, and platform never changes.
LEMMA StepSaid ==
    ASSUME VoiceTypeOK, OnlyFailedStayPending, NothingToClear, VoiceNext
    PROVE  NothingToClear'
<1>1. ASSUME UNCHANGED <<platform, missed>> PROVE NothingToClear'
  BY <1>1, Zenon DEF NothingToClear
<1>2. ASSUME NEW m \in Messages, ClearNothing(m) PROVE NothingToClear'
  <2>1. PICK n \in Notes : n = m[2] /\ m \in Pair(n)
    BY PairsApart
  <2>2. /\ Free /\ m \notin pending
        /\ missed' = missed \cup {<<stage[n], n \in cancelled>>} /\ platform' = platform
    BY <1>2, <2>1 DEF ClearNothing
  <2>3. stage[n] = "transcribing" => n \in cancelled
    BY <2>1, <2>2, PairsApart DEF OnlyFailedStayPending
  <2>4. platform = "telegram" => stage[n] \notin Working
    BY <2>2 DEF Free
  <2>5. <<stage[n], n \in cancelled>> # <<"transcribing", FALSE>>
    BY <2>3, Zenon
  <2>6. <<stage[n], n \in cancelled>>[1] = stage[n]
    BY Zenon
  <2> QED
    BY <2>2, <2>4, <2>5, <2>6, Zenon DEF NothingToClear
<1>3. \/ UNCHANGED <<platform, missed>>
      \/ \E m \in Messages : ClearNothing(m)
  BY DEF VoiceNext, _on_telegram_voice, Handles, StatusSent, StartTranscription, Discard,
         handle_message, Transcribed, TranscriptionFails, ClearPending,
         _handle_clear_branch, _delete_message_ids, GlobalClear, ReplaceTrees
<1> QED
  BY <1>1, <1>2, <1>3

\* VoiceInv is inductive.
LEMMA StepVoice == VoiceInv /\ [VoiceNext]_voiceVars => VoiceInv'
<1> SUFFICES ASSUME VoiceInv, [VoiceNext]_voiceVars PROVE VoiceInv'
  OBVIOUS
<1>1. VoiceTypeOK'
  BY StepVoiceType DEF VoiceInv
<1>2. CASE UNCHANGED voiceVars
  <2>1. CancelledInTime' /\ OnlyFailedStayPending'
    BY <1>2 DEF VoiceInv, voiceVars, CancelledInTime, OnlyFailedStayPending
  <2>2. ClearKeepsItsWord'
    BY <1>2, Zenon DEF VoiceInv, voiceVars, ClearKeepsItsWord
  <2> QED
    BY <1>1, <2>1, <2>2 DEF VoiceInv
<1>3. CASE VoiceNext
  <2>1. CancelledInTime' /\ OnlyFailedStayPending'
    BY <1>3, StepRegistry DEF VoiceInv
  <2>2. NothingToClear'
    BY <1>3, StepSaid, Words DEF VoiceInv
  <2> QED
    BY <1>1, <2>1, <2>2, Words DEF VoiceInv, CancelledInTime
<1> QED
  BY <1>2, <1>3

\* And holds at all times.
LEMMA VoiceInvariance == VoiceSpec => []VoiceInv
BY InitVoice, StepVoice, PTL DEF VoiceSpec

\* In every run what the user is told of a /clear is true: a note that is said to be
\* cancelled never gets to the handler, and of nothing that is being transcribed it is said
\* that there is nothing to clear (PendingVoiceRegistry.cancel against complete).
THEOREM ClearKeepsItsWordHolds == VoiceSpec => []ClearKeepsItsWord
<1>1. VoiceInv => ClearKeepsItsWord
  BY DEF VoiceInv
<1> QED
  BY <1>1, VoiceInvariance, PTL

\* In every run the registry holds the notes that are being transcribed and, of the others,
\* only such as failed: a note that was handed on, cancelled or discarded has left it
\* (PendingVoiceRegistry.register, complete and cancel).
THEOREM OnlyFailedStayPendingHolds == VoiceSpec => []OnlyFailedStayPending
<1>1. VoiceInv => OnlyFailedStayPending
  BY DEF VoiceInv
<1> QED
  BY <1>1, VoiceInvariance, PTL
=============================================================================
