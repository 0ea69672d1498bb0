# Verification of the free-claude-code messaging bot and proxy

`free-claude-code` is a proxy that lets the Claude Code CLI talk to other model
providers, and a chat bot (Telegram, Discord) that runs that CLI for its users. This
directory holds TLA+ models of the parts that carry its state: what they are, what
makes them correct, and what TLC and TLAPS say about it. Paths below are relative to
`src/free-claude-code/`.

## 1. The system

Two programs in one process and one asyncio event loop.

*The bot.* A platform adapter turns chat messages into `IncomingMessage`s;
`ClaudeMessageHandler` makes each a node of a conversation tree, the tree's queue runs
its nodes one after the other, and each run starts a Claude CLI subprocess whose output
is parsed, rendered and sent back through a rate limiter that merges edits of the same
message. Trees and message ids are persisted by a session store that writes from a timer
thread.

*The proxy.* FastAPI routes take Anthropic requests, resolve a provider, and stream the
provider's answer back as Anthropic server-sent events, through a limiter that all
requests of a provider share.

| Component | State | Operations | Hard because |
|---|---|---|---|
| Message trees `messaging/trees/` | nodes, parents, node states, FIFO queue, processing flag, current node and task | create, add, enqueue, process next, mark error, cancel node / branch / tree / all, remove branch | commands cut into tasks that are suspended anywhere; cancellation is delivered later, or to a task that never ran |
| Handler `messaging/handler.py`, `event_parser.py` | captured session of each run | admit a message, process a node, handle CLI events, propagate errors | every send is an await in which the tree can change |
| Commands `messaging/commands.py` | none of its own | /stop, /clear, /stats | act in halves, with message deletion between them |
| Session store `messaging/session.py` | trees, node map, message log, dirty flag, timer, file | record, register, save, remove, clear, flush, load | timer thread beside the event loop, file written outside the lock, crashes |
| Message limiter `messaging/limiter.py` | queue of keys, merged calls, futures, pause | enqueue, merge, retry after flood, shutdown | calls are merged with waiting ones, retries overtake newer calls |
| CLI sessions `cli/` | pending and real sessions, id maps, lock, processes, pid registry | get or create, register, remove, stop all, start task, stop | lock held while a process stops; cancellation at every await |
| Provider limiter `providers/rate_limit.py` | window, block deadline, slots, retries | wait, acquire, block, retry | a block that arrives while others wait |
| Stream transports `providers/openai_compat.py`, `anthropic_messages.py`, `open_router/client.py`, `core/anthropic/sse.py` | open content blocks, tool buffers, usage | one handler per chunk kind, close, error in mid-stream | blocks must open and close in order for any order of chunks |
| Text parsers `core/anthropic/thinking.py`, `tools.py` | buffer, mode | feed, flush | tags and calls are cut into chunks anywhere |
| Transcript and rendering `messaging/transcript.py`, `messaging/rendering/` | open segments, stack of subagents | apply event, render, truncate | Tasks nest, run in parallel and are answered in any order, with ids that are missing or changed |
| Platforms `messaging/platforms/` | pending voice notes, connection | start, stop, send, edit, delete, voice | cancel races transcription; Discord handles messages concurrently |
| Voice `messaging/voice.py`, `transcription.py` | pending registry, loaded model | register, cancel, complete | same |
| Runtime lifecycle `api/runtime.py` | the platform, the handler, the restored trees | startup, shutdown | what a crash or a shutdown leaves of trees that are saved at some of their changes only |
| API `api/` | provider registry | create message, count tokens, stop | none |
| Provider registry and adapters `providers/registry.py`, `providers/*/` | cached clients | resolve, cleanup | pure request building otherwise |
| Configuration `config/` | settings | load | none |
| Tests `tests/`, smoke checks `smoke/` | | | not part of the program |

For each component the property that makes it correct, in a sentence. *Trees:* a tree is
a serial queue, a reply runs after its parent, every queued message is served or
stopped, and a stopped one stays stopped. *Store:* what was changed reaches the file and
what was cleared does not come back. *CLI sessions:* no process without somebody who will
stop it, nothing left of a finished run, and nobody waits for ever behind a process that
does not die. *Limiters:* the rolling window holds over any interval, blocks and pauses
are respected, slots and futures are neither lost nor given twice, the newest update is
the one that stays. *Streams:* the client gets a message whose blocks start, go on and
stop in order. *Transcript:* blocks are kept apart, and what a subagent says is hidden
exactly as long as its Task waits. *Parsers:* what the model wrote arrives as it was
meant, wherever the chunks end, and no later than it must. *Voice:* a note that was
cancelled is never handed on, and none is forgotten. *Lifecycle:* what was written is
known after a restart, and nothing that ran before is taken to be running.

## 2. Modules

| Module | Models | Used by |
|---|---|---|
| `TreeQueue` | one conversation tree, its tasks, the commands | `MCTreeQueue`, `TreeQueueProofs` |
| `SerialQueue` | abstract: a FIFO server for one job at a time | instance in `TreeQueue`, refinement proved in `TreeQueueProofs` |
| `SessionStore` | the store, its timer threads and its file | `MCSessionStore`, `RuntimeProofs` |
| `CliSessions` | the pool of CLI sessions with its lock and processes | `MCCliSessions`, `CliSessionsProofs` |
| `SlidingWindow` | the deque of time stamps of both limiters | `ProviderLimiter`, `MessagingLimiter`, `SlidingWindowProofs` |
| `RollingWindow` | abstract: at most `Limit` grants in any `Window` | instance in both limiters |
| `ProviderLimiter` | block, window, stream slots, retries, both transports | `MCProviderLimiter`, `ProviderLimiterProofs` |
| `MessagingLimiter` | queue with compaction, worker, fire-and-forget | `MCMessagingLimiter`, `MessagingLimiterProofs` |
| `ClientStream` | abstract: a well-formed message of content blocks | instance in `ClientEvents` |
| `ClientEvents` | the events the client receives, and that they implement `ClientStream` | both streams |
| `OpenAIStream` | chunks of an OpenAI-style provider to blocks | `MCOpenAIStream`, `StreamProofs` |
| `RouterStream` | OpenRouter's filter of native events | `MCRouterStream`, `StreamProofs` |
| `Transcript` | the CLI's lines, their events, and what the chat is shown of them | `MCTranscript`, `ChatProofs` |
| `ThinkTagParser` | the parser that separates thinking from text | `HeuristicToolParser`, `StreamProofs` |
| `HeuristicToolParser` | the parser that finds tool calls in text | `TextStream`, `StreamProofs` |
| `TextStream` | an answer on its way through both parsers | `MCTextStream`, `StreamProofs` |
| `VoiceNotes` | voice notes, their registry, /clear while they are transcribed | `MCVoiceNotes`, `ChatProofs` |
| `Lifecycle` | starts, restarts and the end of the process, with the nodes that are live, saved and written | `MCLifecycle`, `RuntimeProofs` |

The `MC*` modules only name model values, the texts and inputs to try, and symmetry sets.
Definitions called `Mutant…` stand before the one they distort; they
are bugs the code does not have, kept to show that each property notices one.

**Granularity.** Everything but the store's timers runs on one asyncio event loop. An
action is the stretch of code between two awaits that can really suspend: an
`asyncio.Lock` that is free, a queue that is not empty or an `async def` that does not
wait for anything does not suspend, and each module says in its head which of its awaits
do. In `SessionStore` a method body under the `threading.Lock` is one action, and the
write outside it is two, since `open(…, "w")` truncates the file before anything is in
it. In the streams each event that is yielded is an action.

**TreeQueue.** A task is named by the node it processes, since a node is enqueued once.
`pc[n]` is where it is: scheduled, reading the CLI's events, in the same place without a
tree (`orphan`), removing its CLI session, done. `cancelReq` is `task.cancel()` that was
called and not yet delivered; `DieUnstarted` is what asyncio does with a task cancelled
before its first step. A message is received (parent resolved), and admitted when its
status message has been sent. `/clear` acts in two halves. The processing of a node
includes its CLI's session id, error and exit events as the handler takes them. The
queue is a set ordered by turn, which keeps the invariants first-order; `QueueSequence`
turns it back into the sequence the program keeps. Trees share no state but the commands
that act on all of them.

**SessionStore.** One tree's data is the set of its node ids. `stage[w]` is where a
thread is: armed, fired, opening, writing. `Faults` says whether a write may last until
another one starts, may fail, and whether the process may die. `flush_pending_save`,
later changes and `Exit` in this order are the shutdown of `api/runtime.py`; `_load` is
the next start.

**CliSessions.** The handler never asks for an old session, so session, ids and process
are named by the run that made them. The lock is a FIFO: `lockQ` with, for each, those
that came `ahead`. `Sweeper` is whoever calls `stop_all`; with "shutdown" it does so
without cancelling a task first. `shielded` and `BackgroundStopped` are the
`asyncio.shield` around `stop()`, `KillTimeout` its five seconds. `inProgress` and
`dropped` are what `/stop` and `/clear` look at before they cancel a task: whether its
node has ended, and whether its tree is still known. They may cancel it anywhere, also
while its removal waits for the lock; `interrupted` is the history of that.

**Limiters.** Time is relative: the deque holds ages, deadlines are ticks left. A state
does not contain the clock, so it needs no bound: the runs explore all of time. Ages stop
counting at `Window`, from where on they do not matter. `transport` decides between the
two ways the transports use the limiter. `slipped` in `ProviderLimiter`, and `shown`
and `stale` in `MessagingLimiter` are history. An update `<<k, n>>` is the n-th of its key;
`futures` says whose futures wait for the one to be performed; `Fail` may or may not have
had its effect on the platform.

**Streams.** `phase`, `started`, `opened` and `last`, the variables of `ClientEvents`, are
what the client has received; the rest is the builder's or the filter's own account of it.
The refinement of `ClientStream` says that the two agree at every event. Texts are
abstracted to whether there are any, names of tools to whether they are "Task" or pieces of
it.

**Transcript.** The CLI prints a line; `parsed` holds the events `parse_cli_event` makes
of it, and `Process` is one turn of the handler's loop over them, between which it may be
cancelled. `style` says whether this CLI prints whole messages (as the bot runs it) or
streams their blocks (which parser and buffer support as well), and whether Task calls
carry ids, carry none although their results do, or have none at all. `waiting` and
`overtaken` are history on the CLI's side. A segment keeps how much was appended to it and
from which blocks; `open[i]` joins the three maps by index, `subagents` the two parallel
stacks. An id is a sequence of tokens, so that startswith is `IsPrefix`. `Rendered` is
`render` in lengths.

**Parsers and TextStream.** The parsers are functions from a parser's fields and a text to
the fields afterwards, with what the call returned among them; a text is a sequence of
characters, one of which stands for each word of a tag. A turn of `feed`'s loop is an
operator (`ParseOnce`; `Text`, `MatchFunction`, `ParseParameters`), the loop a recursive
function of the parser (`Parse`, `Turns`), a regular expression the set of the places it
matches at. A dict of parameters is kept as the assignments to it; `Dict` is what has
become of it when it goes out. `Separated` is the reference: the whole text read one character
after the other. `TextStream` is the loop of the OpenAI-style transport around them: a
chunk of any length comes, or the stream ends, where it should or before. An answer is a
sequence of parts, each with what is meant by it and how it is written; "raw" parts mean
nothing. `parsed`, what the first parser has yielded, is history, and so is `crowded`: that a
call came whole while another one was open.

**VoiceNotes.** A handler's coroutine is at `stage[n]` between two suspensions; the key
`Voice(n)` is the user's message, `Status(n)` the bot's, and an entry of the registry has
both. Telegram's library handles updates one after the other, which `Free` says; Discord's
starts a task for each. A node of a tree can only be cleared here, its life is in
`TreeQueue`. `cancelled` and `missed` are what commands told the user. Any deletion may
fail and is not tried again, as in `commands.py:119`; `undeleted` remembers which did.

**Lifecycle.** A node is known in three places: `live`, in the trees; `saved`, in the
store, as of its tree's last `save_tree`; `written`, in the file. Each handler says
which of its changes it saves. `phase` is where startup and shutdown are; `attempt`,
`running` and `polling` are the platform's start with its retries. /clear is left out,
so nothing leaves the trees. Writes are whole here, since `SessionStore` has their
steps, and a tree runs one node at a time, since `TreeQueue` shows when it does.

## 3. Runs

All runs finish with the bounds below and are expected to pass; the largest takes two or
three minutes.

| Run | States | Properties | Question | Bounds, and why they are enough |
|---|---|---|---|---|
| `tree_scoped` | 107,080 | `OneAtATime`, `ReplyAfterParent`, `StoppedNeverCompletes`, `DroppedTreeIsQuiet`, `BusyIsWorkedOn`, `ImplementsSerialQueue` | Is a tree a serial FIFO queue when users stop and clear single messages or branches? Do stopped nodes stay stopped, and is a busy tree worked on? | 3 nodes: a root, and two replies to it or in a chain, so that one runs, one waits and one is being sent; any command at any time, any number of times |
| `tree_all` | 375,139 | `NothingInLimbo`, `QueuedIsServed` | The same with global /stop and /clear: is nobody in limbo, is everybody served in the end? | 3 nodes |
| `store` | 423,875 | `SavedIsCurrent`, `LogIndexed`, `QuietIsSaved` | Does the file follow the store through crashes and failing writes? | a tree of up to two nodes, two message ids and a cap of one, so that the log overflows; two timers, one waiting while the other has fired |
| `cli_pool` | 387,169 | `SlotFreed`, `NoRunaway`, `SweepIsThorough`, `NothingHangs` | Is every process stopped by somebody, and does everybody get the lock? | 2 runs and the sweeper: one holds the lock, two wait; a run that is started once meets every interruption, alone, with its tree, with all others or at shutdown |
| `provider_pool` | 99,924 | `SlotsConserved`, `FewSlipThrough`, `ImplementsRollingWindow`, `EveryRequestEnds` | Slots, window, blocks, end of every request | 3 requests for 2 slots, 2 calls in 2 ticks: one waits for a slot while others wait for the window or sleep; one retry and the second round |
| `messaging` | 535,803 | `FuturesHeld`, `DoneIsShown`, `PauseRespected`, `ImplementsRollingWindow`, `EveryCallAnswered` | Queue, futures, pauses, window, answers | 2 keys and 3 updates, also all of one key: one performed, one waiting, one that replaces it; one call in 2 ticks so that the window always bites, one retry |
| `openai_stream` | 2,810,526 | `TaskInOnePiece`, `NeverEmpty`, `ImplementsClientStream` | Is it a message, whatever arrives in whatever order? | 2 tool calls, 3 parts of any kind, an error anywhere; the proofs lift the bound |
| `router_stream` | 26,052 | `ImplementsClientStream` | The same of overlapping and hidden blocks | 4 blocks; the proofs lift the bound |
| `transcript` | 1,194,989 | `StackWaits`, `BlocksKeptApart`, `RenderFits`, `HiddenUnlessOvertaken` | Does the stack of subagents follow the Tasks that wait, are blocks kept apart, does the newest part fit? | 5 events, up to 3 Tasks: enough to nest two, answer the older first and then say something; 2 block indices, used again by the next message; a tool whose id looks like a Task's; a limit that some segments exceed alone |
| `text_stream` | 249,868 | `ThinkingSeparated`, `NothingElseIsHeld`, `ReceivedAsMeant` | Does an answer arrive as it was meant, however it is cut? | every way to cut two parts out of eight kinds (text, blanks, thinking that looks like a call, calls with 0, 1 and 2 parameters, a Task) or three of the simplest; every text of up to 5 characters that tags, and of 4 that control tokens are made of, calls followed by 3 characters, and bullets followed by 7, more than `MaxHeld` = 6 (for 100) allow; `MaxToken` = 2 (for 80), so that a text may be too long for a token; the stream may end anywhere |
| `voice` | 487,484 | `ClearKeepsItsWord`, `OnlyFailedStayPending`, `EveryNoteSettles` | Are cancelled notes dropped, others handed on, and is none forgotten? | 2 notes, since a handler and the commands touch one note each and a global /clear all of them; any number of commands; any deletion may fail; both platforms |
| `lifecycle` | 4,586,798 | `WrittenIsRestored`, `OpenNodesAreOurs` | What is left after a crash or a shutdown? | 3 nodes, in any trees; 3 starts, so that what a restart has made of a file is written and restored again; 3 attempts to connect, as in the code |

`CHECK_DEADLOCK FALSE` is set where the system really comes to rest: all messages
handled, a process that is down or starts no more, all runs over, a message or a stream at
its end, all notes settled. In both limiters the clock goes on, and deadlock is checked.

Symmetry is used in `tree_scoped` (the replies are interchangeable) and `lifecycle` (all
nodes are), whose properties are safety properties; runs with liveness have none.

Type invariants, and some invariants that the listed ones rest on (`NoIdleBacklog`,
`DirtyIsScheduled`, `QueueIndexed`), are theorems for every instance (section 5); no run
repeats them but as a part of `NothingInLimbo`.

## 4. Fairness

* `tree_all`: the event loop runs tasks that are ready (`Start`, `Skip`, `DieUnstarted`,
  `Finish`); Telegram and Discord answer or fail (`Admit`/`SendFails`, the deletions
  before `RemoveBranch` and `ReplaceTreeQueue`); a CLI left alone exits or breaks, as
  nothing in the code limits its run time. No fairness on commands.
* `store`: threads run and a timer nobody resets goes off. `QuietIsSaved` is about a
  store that is quiet from some time on, as each change resets the timer.
* `cli_pool`: the loop, its timers, and the operating system, which ends a process that
  was killed. Nothing makes a CLI write, end its output or exit.
* `provider_pool`: the clock advances, and a request goes on: the provider answers, or
  the client's read timeout fires. No fairness on disconnects.
* `messaging`: clock, worker and retries go on; calls to the platform succeed or fail.
* `voice`: handlers and commands that were begun go on, and a transcription ends with a
  text or an error, as it does in a thread of its own. No fairness on users.
* The streams have no liveness: a provider need not go on. `Lifecycle` has none: nobody
  need start the process again.

Weak fairness suffices everywhere: locks and semaphores are modelled as the queues they
are. The window of a limiter is no queue, and a sleeper may find its place taken when it
wakes; there each request ends because the requests, and with them those that can
overtake it, are finitely many. Nothing is said of a stream of requests that never ends.

## 5. Proofs

TLC's runs hold for the sizes in the cfgs. TLAPS proves for *every* value of the
constants what the theorems of the `*Proofs` modules say; `PROJECT.json` lists them.
They rest on the named assumptions of the modules about their constants, and on nothing
else. Three of these are more than types: `PowersAssumption` (2^n is a natural number,
which the provers do not know of `^`); in `TranscriptAssumption`, that no tool's id is the
beginning of a Task's (all are minted alike, so a token of a Task's id is no id); and, in
theorems only, the absence of a fault, stated where it is used. `TreeQueueProofs`,
`CliSessionsProofs` and the proofs of the limiters are one component's each; `RuntimeProofs`
holds those of the store and of `Lifecycle`, `ChatProofs` those of `Transcript` and of
`VoiceNotes`, and `StreamProofs` those of both streams and of `TextStream`, whose names are
kept apart for that; `RouterStream` is taken as an instance with variables of its own.

* **TreeQueue.** `TypeCorrect`, `NoIdleBacklogHolds`, `NothingInLimboHolds` and
  `BusyIsWorkedOnHolds` hold for all commands. `LimboInv` makes the second half of
  `NothingInLimbo` inductive: whoever cancels a task has marked its node before, because
  the tree's current node and its current task are the same as long as the tree holds
  the node. `BusyIsWorkedOn` needs of it only that a node which is enqueued is not the
  current one; with that, whoever makes a node current starts its task, and whoever ends
  a task makes another node current. `OneAtATime`, `ReplyAfterParent`,
  `StoppedNeverCompletes` and `DroppedTreeIsQuiet` are theorems where no command stops
  the whole chat at once (section 6 tells how the first and the last fail otherwise).
  The first three are not inductive. `ScopedInv` says in addition that turns are given
  out in order and once (a parent's is earlier than its reply's), that the one task
  alive is the tree's current one and holds its flag, that what is queued has no task
  and comes later, and that a stopped node with a CLI has a cancellation on its way.
  `OneAtATime` follows from the second, `ReplyAfterParent` from order and queue
  together, and `DroppedTreeIsQuiet` is inductive with it. `ImplementsSerialQueueHolds`
  (no global command either) shows each step to be one of `SerialQueue` or none: a
  message submits (`EnqueueSubmits`), a task executes or releases
  (`ProcessNextReleases`), /stop and /clear withdraw (`CancelWithdraws`), dropping the
  tree closes. It needs `BusyWithCurrent`, that the tree is marked busy exactly when it
  has a current node, and lemmas about `ByTurn`, the sequence of a set in the order of
  its turns: there is exactly one (`OrderExists`, by a least counterexample, and
  `OrderUnique`), so that the last to come is appended, the first is the head, and those
  that stay do not overtake each other.
* **SessionStore.** `DirtyIsScheduled` is inductive over the type. `SavedIsCurrent` holds
  where writes do not overlap: `SaveInv` adds that there is one write at a time, of a
  snapshot that is current unless the store is dirty again, over a file it has emptied.
  `LogIndexed` needs that every copy of the log, waiting to be written or in the file, is
  `Proper`, as a restart makes a store of it (`LogInv`).
* **CliSessions.** `PoolInv` orders those at the lock (`LockOrder`), says who is there
  (`AtLock`), what a run's position implies for its process and pid (`ProcFollows`) and
  for the four maps (`MapsFollow`), that a sweep covers every real session that lives
  (`SweepFollows`), and where a run may be whose node is in progress or whose removal
  was interrupted (`NodeFollows`: /stop reaches a removal only if the run has no session
  id and its process is dead, which is why it leaves a session behind but no process).
  `SlotFreed`, `NoRunaway` and `SweepIsThorough` are read off it.
* **ProviderLimiter.** `SlotInv` keeps those in line apart from those that were handed a
  slot, so that a disconnect at any place of the queue gives back exactly what was held;
  the count is done with the theorems about cardinalities. `SlipInv` bounds, together with
  those that slipped past a block, those that still may: all of them hold slots, and whoever
  set the block held one too.
* **SlidingWindow.** The deque is `Layered`: at every age there is a place to cut it. This
  says "oldest first" in a way each step preserves without an induction over the
  deque, and makes `Fresh`, what is left when somebody looks, a suffix. Both limiters'
  `ImplementsRollingWindow` use it.
* **MessagingLimiter.** `QueueInv` (the queue and the map agree), `JobInv` (the worker has
  a job while at work), `HeldInv` (a future is held in one place), `VersionInv` (what is
  shown, performed and queued is ordered by version, but for keys of which an old update
  came again) and `PauseInv` (no pause begins while the worker waits for the window).
* **OpenAIStream.** `Built` says which indexes the client has open by the builder's
  flags and maps and that these are apart, `Tasks` what has become of the arguments of a
  tool that was announced as Task, while that is its name, `Said` why a message cannot
  come to its end without a block. From the first, every step is one of `ClientStream`
  or none.
* **RouterStream.** `Book` relates the filter's maps and sets, `Mirror` says that the open
  blocks, through `index_map`, are what the client has open. `Normalizes` assumes that
  streams do not break in the middle and blocks closed early are quiet.
* **TextStream.** `ThinkingSeparatedHolds` and `NothingElseIsHeldHolds` are about texts
  of any length, cut anywhere, and any limits. As it stands `ThinkingSeparated` is not
  inductive: that a reader makes the same of two texts does not say what a reader makes
  of them when more comes, since their ends may become tags. `ReadSoFar` says it for
  *every* text that may come yet, and that the buffer is the beginning of a tag while
  the stream goes on. A turn of the parser (`ParseOnce`) keeps it, since what it yields
  has no tag that a reader would see, and none that a reader could still come to see.
  For the second parser, `HeldSoFar` says that it waits (`WaitingParsers`): its buffer
  is one at which the last turn of the loop leaves the state as it is. That stripping
  control tokens leaves a bullet that comes first, and that a turn which changes the
  state leaves less to do (`Turned`, `Effort`), carry this through a call of `feed`.
  What the loops and the reader compute is defined by recursion, and the library's
  theorems about that cannot be used here; so `Recursion` proves, for a step given as a
  function and a measure it makes smaller, that the recursive definition has a solution,
  and `MeasureInduction` that what holds of a text if it holds of all smaller ones holds
  of all. `RoutesExist` does it for the fold over the chunks that one delta yields.
* **Transcript.** Two invariants, checked by TLC together before they were proved, and both
  inductive only with a good deal that no property mentions. `BlockInv` relates three
  places: the blocks the CLI streams, the events of the line that was read and not yet
  processed (`Lines`, `EventOK`), and the segments. Its core is `Streamed`: the text of a
  block that is streamed with index i is in the segment open at i and in no other, or in
  none, because its start has yet to be processed or a subagent hides it until the message
  ends; `Fresh` says that blocks whose events wait have fed nobody, which is what lets an
  index be used again after a missing stop. `BlocksKeptApart` follows. `StackInv` says what
  the stack, the events on their way and the CLI know of Tasks: with ids, each entry of the
  stack waits for its result or is being answered, older Tasks are below younger ones and
  those still on their way, and while no Task was overtaken all that wait are there or on
  their way (`StackGiven`); without, the numbers agree (`StackMadeUp`). The pop by id is a
  cut, and where it cuts follows from which ids are prefixes of which (`OthersDoNotMatch`).
  `StackWaits` and the action property `HiddenUnlessOvertaken` are read off it.
  `RenderFits` needs of the state only that segments have lengths, but speaks of folds:
  `FoldExists` and `FoldStays` show, by a least counterexample, that the community
  modules' folds satisfy their equation and keep to a set their step keeps to.
* **Lifecycle.** `WrittenIsRestored` is about what was written and what is live; between
  the two are the file and the store. `Restorable` says that each of the four carries on
  what the one before it knows (`Carried`), so that a restart, which goes round once, loses
  nothing. Its part `FailedStays` is what makes the last line inductive: a node that
  had failed comes to life only by its CLI telling a session. `save_tree` writes one tree only,
  and that the rest of the store is not behind on what counts is where `Carried` is weaker
  than equality: a failure that is not saved is no loss.
* **VoiceNotes.** `CancelledInTime` says where a note can be when it is cancelled;
  with it, what `complete` finds in the registry is what the user was told.

*Only model-checked:* liveness, which needs fairness (`QueuedIsServed`, `QuietIsSaved`,
`NothingHangs`, `EveryRequestEnds`, `EveryCallAnswered`, `EveryNoteSettles`); and
`ReceivedAsMeant`. What that one promises depends on how each part of an answer is written
for what is meant by it: a grammar, which only `MCTextStream` gives, by its examples. A proof
would need the grammar of all calls as an assumption and an induction over it, with every
cut of every call into deltas as a case.

## 6. What the models found

Observations made while modelling. Where a model can show them, it says how; some depart
from what a comment of the code says.

*Trees and handler.* A global /stop marks the tree free (`queue_manager.py:257`) while
the stopped node's task is still unwinding. A reply that comes now starts at once beside
it, against "Per-tree queue ensures ordered processing" (`handler.py:92`); and when the
stopped task has unwound, it starts the next queued one beside that, so that two stay
together for as long as there are replies (add "stopall" to `TreeScoped.cfg`:
`ReplyAfterParent` and `OneAtATime` fail). It also clears `current_node` of the task
that came after it, and a /stop then cancels nothing. A /stop on a node whose task has
not had its first step wedges the tree: asyncio ends such a task without running any of
`process_node`, so its `finally` clause does not hand the tree over, `is_processing`
stays set, and every later message waits for ever, against "without affecting other
nodes" (`queue_manager.py:270`; add "stop" to `TreeAll.cfg`: `QueuedIsServed` fails).
After a global /clear, a reply admitted while messages were being deleted goes on in the
old tree, where no command reaches it (add "clearall" to `TreeScoped.cfg`:
`DroppedTreeIsQuiet` fails in six states). `remove_branch` does not look at the queue. A
node that was admitted while the messages of its branch were deleted, or that had failed
with its parent, so that `cancel_branch` passes it over, is removed and stays queued.
When it is dequeued, the tree is marked busy with it and no task is started
(`processor.py:114`), so that every later message waits for ever (let `n` range over
`Nodes` in `BusyIsWorkedOn`: it fails within ten states). `BusyIsWorkedOn` says that these
two are the only ways in which a tree is left busy with nobody at work. A run that exits
with a code other than 0 is recorded as completed (`handler.py:376`, against
`trees/data.py:62`), since the "complete" event that follows the error is taken whatever
its status; a run without a session id stays in progress.

*Store.* A timer thread takes its snapshot, `clear_all` empties the store and writes, and
then the timer thread writes (`session.py:133`): the cleared trees are back after a
restart, against "persist an empty store" (`session.py:211`). The same race of two writes
loses a change (with `Faults = {"overlap"}`, `SavedIsCurrent` fails in nine states).
Shutdown flushes the store (`api/runtime.py:78`) before it stops the platform and the tasks
that still change it, and what they save then is lost with the daemon timer, although
`session.py:149` says "Call on shutdown to avoid losing data". (In `SessionStore`:
`flush_pending_save`, `save_tree`, `Exit`; the action property
`[][Exit => Loaded(file) = Snapshot]_vars` fails. `WrittenIsRestored` speaks of what was
written, for that reason.) A failed write is not retried until
the next change. Changes that keep coming within half a second of each other put the save
off without a bound. `remove_tree` (`session.py:263`) leaves behind the mappings of status
messages.

*Restarts.* Neither the failure of a node nor its start is saved (`handler.py` calls
`save_tree` for the session, the end, and commands): after a restart a node that failed is
"Lost during server restart" if nothing else of its tree was saved since. The messages that
show such nodes as queued or running are not edited. When `start_polling` fails, the
application is running already, and each later attempt fails for that reason alone
(`platforms/telegram.py`, `start`). Discord's `start` gives up after its wait, and the
client may connect later all the same.

*CLI sessions.* `stop_all` "ensures everything is dead" (`handler.py:653`), but misses a
process whose `remove_session` was interrupted after the session left its map
(`cli/manager.py:110`). At shutdown no task is cancelled
first, so a process that is being spawned escapes `stop_all`. A pid is unregistered while
its process may still run (`cli/session.py:216`). The removal of a finished run waits for
the manager's lock, which a stop may hold for ten seconds, and `except Exception`
(`handler.py:597`) does not catch the cancellation that reaches it there: a run whose CLI
ended without a session id is still in progress (`handler.py:381`), so /stop cancels it,
and its session stays pending for good; /clear of the tree (`cancel_tree`) cancels a run
in whatever state its node is, and may leave its session, and a process that nobody stops
before the next `stop_all`. `SlotFreed` and `NoRunaway` say that no other
interruption does. `get_or_create_session` never raises the
`RuntimeError` its caller turns into "Session limit reached".

*Provider limiter.* The block is looked at before the wait for the window and not after
it, so a 429 that arrives in between is not respected by those that wait; the docstring
(`rate_limit.py:17`) says that it "blocks all requests". `FewSlipThrough` says how many.
`set_blocked` may replace a long block by a shorter one (`rate_limit.py:181`). A limiter
that is rebuilt for new settings starts with an empty window (`rate_limit.py:109`).

*Messaging limiter.* A `fire_and_forget` update that failed is enqueued again after its
backoff. If a newer one of the same message waits there, its function is replaced by
the old one and its caller told of success; if it was performed already, it is
overwritten (`limiter.py:290`, against `limiter.py:74`; in `MessagingLimiter` the invariant
"a call that is done is shown, or a newer one is",
`state[c] = "done" => shown[KeyOf(c)] >= VersionOf(c)` for every call `c`, fails).
Shutdown cancels the worker and leaves the futures of its callers unresolved
(`limiter.py:217`).

*Streams.* When OpenRouter's stream breaks after events were passed on, the error block
is numbered from 0 again while other blocks are open, and a second `message_stop` may
follow (`open_router/client.py:256`): with `Faults = {"broken"}`, `router_stream` fails
in five states. Deltas of a block that was closed early are passed on (`Faults =
{"late"}`). In the OpenAI-style transport a tool is announced with the first piece of
its name. If the name goes on after "Task" ("Task", then "Output"), `register_tool_name`
makes it a longer one (`sse.py:72`), and the arguments that come after are passed on
raw, in pieces, to a block the client knows as Task (`openai_compat.py:137`), those held
back until then at the end; `TaskInOnePiece` is about tools whose name is Task in the
end; arguments that come before a name announce it as "tool_call"; a tool call without
name, id and arguments keeps the fallback block from being sent; and a tool call
detected in text ends with the stop reason `end_turn`.

*Parsers.* While a call is open, `feed` looks for parameters in its whole buffer before it
looks for the next bullet (`core/anthropic/tools.py:103`). A second call that comes with
its parameter in the same chunk gives it to the first, and is left without
(drop `~crowded` from `ReceivedAsMeant`). The bullet of a plain list is
held back as the beginning of a call: if a call follows within the 100 characters, the text
in between is dropped with it, and so it is if the answer ends there, like text after a call
that begins with "<" (`tools.py:149`). A blank after `<function=…>` at the
end of a chunk ends the call before its parameters come. The beginning of a control token
is kept only if some text comes before it, so one cut into three chunks is shown.

*Transcript.* "Inside a Task/subagent, we only show tool calls/results"
(`transcript.py:343`) holds but for parallel Tasks: when the one that started first is
answered first, the pop to its id forgets the other, whose text is then shown as if it
were the main conversation's (`transcript.py:302`); `HiddenUnlessOvertaken` says that this
is the only case. Task ids of which one is the beginning of another ("functions.Task:1",
"functions.Task:10") match each other. A made-up entry is closed by a result's id only if
that contains "task". A Task without an id below one that has one is never closed, since
it does not come to the top before its result does; no CLI mixes the two, and `style`
excludes it.

*Voice.* A voice note whose transcription fails stays registered as pending
(`platforms/telegram.py:637`), and a later /clear of it says that it was cancelled.
Telegram handles one update after the other, so a /clear does not reach a note that is
being transcribed, although `platforms/telegram.py:91` speaks of cancelling it during
transcription. On Discord it does, but for the two gaps of `ClearKeepsItsWord`. A note
that is pending survives a global /clear and is handed on afterwards; one that becomes a
node between the halves of a global /clear is dropped from the trees with them. Deletion is
"Best-effort" (`commands.py:96`): a message that the platform refuses to delete stays, and
the user is told "Cleared." (`EveryNoteSettles` allows for those, and for no others).

## 7. What is not modelled

Conversion of requests, token counts, error texts, rendering, configuration and the
adapters' request bodies are pure functions or read once at start: unit tests suit them
better. Telegram's and Discord's libraries appear as calls that succeed, fail, or ask
for a pause; the conversion of their updates is left out. The API's routes keep no state
between requests. Of the CLI's command line and environment nothing is modelled, of its
output only what the handler's control flow depends on. Transcription is one step; two
threads that both load the first model (`messaging/transcription.py`) are left out. The
smoke checks are no part of the program. `PROJECT.json` says of each component how much of
it is modelled.

Composition is by sharing what a module promises and no state: `Lifecycle` takes from
`TreeQueue` that a tree runs one node at a time and from `SessionStore` that a write is
whole, `OpenAIStream` takes from `TextStream` the order in which text, thinking and calls
arrive, `VoiceNotes` hands a message to `TreeQueue` where the tree becomes its node.

## 8. State of the project

All components that keep state over time are modelled, in this order: `TreeQueue` (the core
of the bot), `SessionStore`, `CliSessions`, `ProviderLimiter`, `MessagingLimiter`, the
streams, `Transcript`, the text parsers, `VoiceNotes`, `Lifecycle`; with the abstract
specifications `SerialQueue`, `RollingWindow` and `ClientStream`, and 44 theorems. All
safety invariants of the runs are theorems, but `ReceivedAsMeant`, and so are all action
properties and refinements; where one needs the absence of a fault or of a command, it says
so. What could be added: the rebuilding of a provider's
limiter for new settings.
