# A TLA+ verification of yururi

yururi is a Discord bot in Go. It listens to the messages of a few channels,
hands them to a Codex app-server process that it starts and feeds with prompts,
and lets that process act on Discord through a local MCP tool server. This
directory models the parts of it that keep state or run concurrently, checks
them with TLC and proves theorems about them with TLAPS. Paths below are
relative to the repository (`src/` is its root); `PROJECT.json` gives the lines
each definition stands for.

## 1. The system

```
discordgo goroutine per event ──► Dispatcher.Enqueue ──► queue of the channel
                                                              │ (worker goroutine)
                                                              ▼
                                            handleMessage: policy.Evaluate
                                                              │
                                                              ▼
                            Coordinator.RunMessageTurn (session of the channel)
                                                              │
   heartbeat tick ──► RunTurn ──────────────────────► codex.Client (one mutex)
   shutdown ────────► Close  ───────────────────────►        │ stdin/stdout
                                                              ▼
                                              codex app-server (one process)
                                                              │ HTTP
                                                              ▼
                       MCP server: tool policy, call budget, tool's work
                                                              │
                                                              ▼
                                discordx.Gateway: dedup, post ──► Discord
```

| Component | State it keeps | Operations | What makes it hard | What makes it correct |
|---|---|---|---|---|
| **Dispatcher** `internal/dispatch/dispatcher.go` | a map of workers, a bounded queue per channel, each worker's batch | `Enqueue`, `getOrCreateWorker`, `runWorker` | a goroutine per event; `Enqueue` takes up to four separate steps on the queue and never blocks; shutdown in the middle of a batch | bounded, one place per message, exact order, the callback's metadata describe what was merged, a full queue never silences a channel, nothing is left lying |
| **Intake** `cmd/yururi/handler_message.go`, `internal/policy/filter.go` | none of its own | `handleMessage`, `policy.Evaluate`, `workerKey` | the filter runs after coalescing, on one message of a batch; the prompt quotes that one, and the others are in a history of limited length | no message of a place that is not to be read gets into a turn; what was merged is shown |
| **Coordinator** `internal/orchestrator/coordinator.go` | `ThreadID`, `LastTurnID` per channel | `RunMessageTurn`, `storeSession`, `ResetSession` | steer, then start, then new thread; its mutex is held only for the map, operations of other channels come in between | sessions are not shared, name a turn of their thread, a prompt is not run again and again, every turn ends |
| **Codex client** `internal/codex/client.go` | the process with its two pipes, the next request id, the mutex held for whole operations | `StartThread`, `StartTurn`, `SteerTurn`, `RunTurn`, `Close`; `readUntilResponse`, `turnAggregator`, `handleServerRequest` | any error kills the one process all channels share; two attempts; ephemeral threads; contexts read at one place only; nothing matches a notification with the turn that waits | no process left behind, none after `Close`, everybody gets the mutex, a turn's result is its own, a question is answered |
| **Heartbeat** `internal/heartbeat/runner.go`, `cmd/yururi/handler_heartbeat.go` | a running flag | tick | no deadline of its own, competes for the client | one at a time, does not starve messages |
| **MCP tools** `internal/mcpserver/server.go` | the call budget per MCP session | every tool handler, `enforceToolUsage` | the clock is read before the mutex; turns are guessed from tokens and pauses | a turn keeps to its limits |
| **Tool policy** `internal/mcpserver/server.go` | patterns | `evaluate`, `matchToolPattern` | a loop with four indices that backtracks to the last star | it ends, and decides what the patterns mean |
| **Gateway** `internal/discordx/gateway.go` | recent contents per channel, typing loops | `SendMessage`, `ReplyMessage`, `StartTyping` | look-up, post and record are three steps; posts fail or their answer is lost | no repeat without an overlap, nothing suppressed that was not posted, a typing loop can be stopped |
| **Wiring** `cmd/yururi/app_runtime.go` | the root context | start, shutdown | workers, turns, heartbeat and client wait for each other; two-second limits of the shutdown steps | what is queued gets its turn, a prompt is run once, everything stops |
| **Configuration** `internal/config/config.go`, `cmd/yururi/runtime_helpers.go` | the lists of channels, the entries of other MCP servers | `Load`: file, environment, cleaning, validation; expansion of categories | three readers of the same lists, each trimming in its own way; a header written into arguments twice | what may be posted to is heard, what is heard may be read; the token that is meant is sent |
| **Workspace files** `internal/prompt/prompt.go` | Markdown files on disk | made at a start, edited by the model, read for every turn | nothing is locked, deaths in the middle of writes | a turn has all its instructions, memory is never overwritten |
| xAI search, output parsing, logging | none over time | | | see "Not modelled" |

`PROJECT.json` lists 40 hazards of this code, each at its line, with the
properties that would catch it going wrong.

## 2. The modules

In the order they were written, most important behaviour first.

| Module | Models | Built on |
|---|---|---|
| `ChannelMailbox` | what the dispatcher promises: a bounded mailbox per channel, without goroutines or timers | |
| `Dispatcher` | the dispatcher, one action per channel operation, select case or critical section | refines `ChannelMailbox` |
| `Intake` | the dispatcher with the program's handler, the policy and the prompt's history | extends `Dispatcher` |
| `CodexClient` | the client, its retry loop and the app-server process | |
| `Coordinator` | the turns of the channels, the heartbeat and the shutdown, on one client | extends `CodexClient` |
| `TurnStream` | the messages in both pipes, below the operations of the client | refines `Coordinator` |
| `PromptService` | what the whole promises of each message: the story of the message, and how often its prompt is taken up | |
| `System` | the program: dispatcher, handlers, turns, heartbeat and shutdown | extends `Coordinator`, contains `Dispatcher`, refines both and `PromptService` |
| `ToolUsage` | the course of a tool handler and the call budget | |
| `ToolPolicy` | the policy, one action per round of the matching loop | |
| `Gateway` | posting and the suppression of duplicates | |
| `Typing` | the typing loops and their cancel functions | extends `Gateway` |
| `Config` | `Load` and what reads its lists | |
| `Lists` | the loop that builds a list anew without what is blank, which `ToolPolicy` and `Config` share | |
| `Workspace` | the instruction files | |
| `DispatcherProofs`, `IntakeProofs`, `CoordinatorProofs`, `StreamProofs`, `SystemProofs`, `GatewayProofs`, `ToolUsageProofs`, `StartUpProofs` | theorems about every instance of the module of that name (`StreamProofs`: of `TurnStream`; `GatewayProofs`: of `Typing` too; `StartUpProofs`: of `ToolPolicy`, `Config` and `Workspace`) | the module, and the proofs of what it refines |
| `MC...` | the small instances TLC checks; `MCStartUp` has `ToolPolicy`, `Config` and `Workspace` in one | |

Operators whose comment starts with "Slip:" are not part of the model. Each is
the neighbouring definition with one plausible mistake, and shows that a
property notices it.

### Dispatcher

A discordgo event runs in a goroutine of its own, so each message is a process
whose place in `Enqueue` is `at[m]`; arrival order is not assumed. The places
are the points between two operations on shared state: `start` (before
`getOrCreateWorker`), `ctx` (the select on `d.ctx.Done`), `send`, `drain`,
`resend`. `dropped[m]` is the call's result. `worker[c]` is the place of
`runWorker`: `select` (idle), `collect` (inside the coalescing loop),
`handling`, `exited`. `first`, `latest`, `mergedCount` are its locals; `first`
stands for `enqueuedAt`. `fate`, `sent`, `batch` and `calls` are history: no
guard reads them. Go's select picks among ready cases at random, so a closed
context never forces an exit while a message is waiting. Time is abstract: the
coalescing timer may fire at any moment.

### Intake

`HandleMessage` is `CallHandler` with what the handler decides: one verdict of
`Evaluate`, on the latest message, for all messages of the batch; and the prompt
it builds. A message's id says when it was posted, and the events may come in
any order. `MessageHistory` is what Discord has before the quoted message, up to
the limit that `CalculateHistoryLimit` makes of `mergedCount` (its minimum,
margin and maximum are constants: 20, 8 and 100 in the code), or nothing, when
it cannot be read. `prompts` remembers, for each prompt, the messages it stands
for and those it shows. Its turn is `Coordinator`.

### CodexClient and Coordinator

`lock` is `c.mu`, which an operation holds from its first line to its return.
`step[k]` says where the operation of caller `k` is: `lock` (waiting), `try`
(the head of an attempt, the one place where `ctx.Err()` is read), `thread`,
`turn`, `stream` (waiting for `turn/completed`), then `ok` or `failed`. A
process is a generation number, a thread the generation that made it and a
number: a thread can be served only while its process is the running one,
because threads are started ephemeral. `Fail` is the whole error path of
`runWithSessionRetryLocked`: kill, and try again or return. The app-server is
external: it answers each request or dies. Its own faults are counted up to
`MaxFaults`; refusing a steer is not counted, since the turn to be steered has
always completed.

`Coordinator` gives the client its callers. `at[c]` is the place of
`RunMessageTurn` (one per channel, because the dispatcher calls the handler in
the channel's worker). The heartbeat is one process, because its runner skips a
tick while one is running. `ResetSession` is exported and tested, but called
from nowhere in the program; the model lets it happen at any time. `Shutdown` is
the cancellation of the root context followed by the call of `Close`.

### TurnStream

Below an operation of the client are messages. `toServer` and `toClient` are the
process's stdin and stdout; a message is its kind, the request it is about and
the turn it names. `Send` and `SendFirst` write a request with
`nextRequestIDLocked`; the `Read...` actions are the branches of
`readUntilResponse` and of the loop of `runTurnRequestLocked` on the first
message of `toClient`, with `Consume` for what `turnAggregator` makes of it.
Nobody reads between two operations, so what is left in the pipe is read by the
next one, whoever that is. The server works on the turns it has taken up
(`tasks`) side by side, sends the response, notifications, questions and
`turn/completed` in any order, and stops at a question until it is answered;
`SendExtra` sends something about a request that is over. The texts of a turn
are identified with the request they belong to: `agg.from` says whose.

### System

`System` puts `app_runtime.go` together. A channel's worker calls
`handleMessage`, whose place is `handler[c]` (`prepare`, `turn`, `return`), and
waits: so it is the dispatcher's `CallHandler` and `HandlerReturns` that begin
and end a turn of the coordinator. The dispatcher is an INSTANCE, its state
under its own names, except that its `at` is `place` here. One `ctxDone` is the
root context of all of them. `Serve(k)` is a step of the client for its caller
`k`. `taken[m]` counts how often the server took up a prompt about `m`, and
`robbed[c]` remembers that another caller stopped the process that had the
thread just made for `c`.

`PromptService` has none of that: a message is unseen, waits, is lost, is merged
behind another, is attended to, or is over. A channel is attended to one message
at a time, and only that message's prompt can be taken up, if the policy lets it
through and the client is not closed; a second time only after a fault. `StoryOf`
maps the program to it: a message is attended to while its channel's worker is in
the handler with it. The mistake that shows what is at stake is a handler that
runs the turn in a goroutine of its own (`AskWithoutWaiting`): each component
stays correct, and the prompt is taken up when the message is over.

### ToolUsage, ToolPolicy, Gateway, Typing

In `ToolUsage` a handler is permitted, reads the clock, waits for `toolUsageMu`,
is admitted or refused, and works. The clock reading can be old when the mutex
is got: that is the code's `time.Now()` before `Lock()`. The turns themselves
are history: the server does not know them.

`ToolPolicy` keeps the loop's indices as in the code, counting from 0. The
meaning of a pattern (`Matches`) says nothing of loops: the name can be cut into
as many parts as the pattern has characters, and each part is what its character
stands for (`Cuts`). Names and patterns are lower case; `Normalized` skips blank
patterns.

`Gateway` has the two critical sections of `dedupMu` and the post between them;
the post may succeed, fail, or succeed with its answer lost. Texts are compared
by signature; two of the three texts of the instance have the same one.

`Typing` has a loop per call of `StartTyping`. The critical section that
replaces the channel's cancel function is one step; leaving the loop and the
deferred delete, which takes away whatever function is there by then, are two
more.

### Config and Workspace

A string of the configuration is an id with or without blanks around it.
`ReadFile`, then one action per environment variable in the order of
`applyEnvOverrides`, then `Normalize`, `Validate` and `ResolveObserve`, each the
whole function. The arguments of an MCP server are a sequence of words that
tells apart what `ensureMCPRemoteAuthorizationHeader` tells apart; it is applied
twice when the token comes from the environment, before and after the arguments
are cleaned. What the gateway and the policy make of the lists are operators,
not steps. `observe_category_ids` appear as what Discord answers, any set of
channels. Not modelled: paths, strings and numbers that are only copied or
defaulted, and header names that differ from `Authorization` in case.

`Workspace` has a file absent, empty, as its template, or edited. Writing one
takes two steps, as `os.WriteFile` does, and a death may come in between: of the
program (`Die`), or of the app-server with the model's tools (`KillServer`,
which is what the error path of the client does). `LoadWorkspaceInstructions`
reads file by file. The model's tools are external: they edit any file at any
time, and a finished edit leaves the file not empty.

## 3. What is checked

| Run | Instance | Shows |
|---|---|---|
| `intake_safety` | four messages (one by the bot itself) for a queue of two, one more in a channel that is not read; histories of one or two messages | `OnePlace`, `HandlerToldTruth`, `LossLeavesOthers`, `ReportsCoverLosses`, `ExactOrder`, `PassedPlacesAllowed`, `MergedIsShown`, and the refinement `ImplementsMailbox` |
| `dispatcher_newest` | three messages, queue of one | **violation**: two `Enqueue` on a full queue lose the newest message |
| `intake_filter` | as `intake_safety` with three messages | **violation**: an allowed message is filtered with the bot's own post it was merged with |
| `coordinator_safety` | two channels, heartbeat, shutdown, three turns, two faults | types, `NoOrphan`, `NothingAfterClose`, `StoredPairMatches`, `TakenUpAtMostTwice`, `ThreadsNotShared` |
| `coordinator_fallback` | two turns, one fault | **violation**: the turn/start after a failed steer finds its thread dead |
| `turn_stream` | a channel, heartbeat, shutdown, two turns, a fault, a notification or question, a message about what is over | types, `ResultsAreOwn`, `AskIsUnderway`, `ExecutedAgainAfterFault`, `LagBounded`, and `TurnsEnd` and `CloseReturns` message by message |
| `system_safety` | three messages of two channels, queues of one, a fault | `TurnReachesServer`, `OnePromptPerMessage`, and the refinement `KeepsItsPromises` |
| `system_live` | two messages of one channel, a heartbeat, a fault | `QueuedGetsItsTurn`, `ShutdownCompletes` |
| `tool_usage` | two handlers, two tokens, two arguments and one that is denied, the code's own limits, five calls, clock to 3 | `CountsAgree`, `RecognisableTurnInBudget` |
| `tool_usage_budget` | the same without tokens, four calls | **violation**: a turn that pauses gets a second budget |
| `start_up` | every pattern of up to four characters, some pairs, against every name of up to four letters of two; lists of up to two of four entries, padded or blank, with and without overrides; every argument list of up to four words; three files, three edits, two deaths | `VerdictIsRight`, `LoopAdvances`, `Decides`; `AccessIsNested`, `TokenIsSent`; `InstructionsComplete`, `MemoryIsKept` |
| `gateway` | two senders, four calls, clock to 4, window of 1; five typing loops | `RememberedWasPosted`, `RepeatsNeedOverlap`, `NewestIsRemembered`; `OthersAreStopped`, `StopIsNewest` |

**Why the bounds are enough.** A queue of two against four messages lets the
queue be full, a drain make room, another call take the room, and the worker
empty the queue in between; a fifth step of the same kind adds nothing new (and
the theorems hold for every number). One further channel shows independence. Two
faults let both attempts of an operation fail and, with three turns, let a fault
fall into the steer, its fallback and the new thread. In `TurnStream` one
notification or question and one message about what is over (`MaxSaid`,
`MaxExtra`) are enough for a turn to be asked, and for the next one to read one
behind; the theorems hold for any number. In `System` two channels
(`system_safety`) let one stop the other's new thread, and one message more than
the queue holds is merged, evicted or waits; the liveness run has one channel
with traffic, whose contenders for the client are the heartbeat and `Close`.
`MaxTurns` there is the number of messages and ticks, so that no bound keeps a
message from its turn. In `ToolUsage` five calls are more than one budget, and a
clock with three ticks reaches both sides of the idle limit; in `Gateway` four
calls are a first post, its repeat inside the window, at its end, and after it.
Five typing loops (`MaxLoops`) are two that overlap, the delete by the first,
the orphan and its successor. A pattern of four characters has room for two
stars with letters after each, which is where backtracking to the last star
matters. A minimum of one, a margin of one and a maximum of two messages
(`MinLimit`, `Margin`, `MaxLimit`) reach the maximum with a batch of four. Four
words of arguments are a header's pair before or after a blank and a word more.
Three edits and two deaths (`MaxEdits`, `MaxCrashes`) tear a file in both ways
and start again after each.

Posts and typing loops have no state in common, nor have the three modules of
`MCStartUp`; they are run one at a time (`Apart` in `MCGateway`, and the first
conjuncts of `StartUpNext`). That bounds what is interleaved and not what either
does; `TypingLeavesPosting` proves it for the gateway.

`CHECK_DEADLOCK FALSE` stands in the runs of `ToolUsage` and `Gateway`, whose
call counter and clock are bounded and which therefore stop. The other modules
have a step that is enabled only when nothing is left to do (`Finished`,
`AllOver`), or can always go on, so that TLC's deadlock check is a real check
there.

**Fairness.** `System!SystemFairSpec`: the workers and handlers of every channel
and the heartbeat's return are weakly fair: a goroutine that can run does. The
worker's fairness is on the disjunction of its select's cases, never on one
case. `Serve(k)`, a step of the client for caller `k`, is strongly fair, because
`sync.Mutex` hands itself over to a goroutine that has waited for a millisecond:
a caller that could get `c.mu` again and again gets it. For the steps after that
weak fairness would do, since nobody else can disable them. Events, ticks,
faults and the cancellation are not fair: they need not come.
`TurnStream!StreamFairSpec` says the same message by message: strong fairness
for getting `c.mu`, weak fairness for what the caller that has it reads and
writes, and `ServerGoesOn` is weakly fair. That contains an assumption about the
server, as the fairness of `Serve` does: **it answers or dies.** The wait for
`turn/completed` looks at no context, so a server that stays silent blocks all
channels, the heartbeat and `Close`. `StartUpSpec`: the matching loop,
sequential code, goes on. Nothing else of a start is assumed to go on.

### Where the code and its documents disagree

1. `dispatcher.go:81` says "Queue full: drop one oldest item and prefer the
   newest message". Drain and second send are separate steps; another call can
   take the slot, and the newest message is lost too (`PrefersNewest`).
2. `docs/REARCHITECTURE.md:19` and `docs/SPEC.md:89` put the filter right after
   the receipt. The code filters a coalesced batch by its last message
   (`AllowedArePassed`).
3. `docs/REARCHITECTURE.md:18` has a failed steer fall back to `turn/start`. The
   failure has killed the process, and its threads are ephemeral: the fallback
   asks for a thread that no longer exists (`FallbackThreadAlive`).
4. `docs/MAJOR_UPDATE.md:28` and `docs/SPEC.md:153` limit the tool calls of a
   turn to three. Without a token a pause of eight seconds renews the budget
   (`TurnInBudget`).
5. `docs/MAJOR_UPDATE.md:45` forbids the same content within the window. Two
   calls side by side post it twice. `RepeatsNeedOverlap` shows that this, and a
   lost answer, are the only ways.
6. `docs/SPEC.md:95` ends a turn with "typing停止". Nothing stops a typing loop
   but its deadline and the next call for its channel; and a loop that was
   replaced deletes, when it ends, the cancel function of its successor.
   `OthersAreStopped` says exactly which loops escape.
7. `README.md:50` says that `CODEX_MCP_TWILOG_BEARER_TOKEN` can still be used.
   When the file has no `codex.mcp_servers` at all, the map is nil and
   `config.go:341` writes into it: `Load` panics (stage `panicked` of `Config`).
   The sample file has the entry.
8. `README.md:50` says that the `Authorization` header is added for
   `mcp-remote`. It is, at the end of the arguments; when these end with a
   `--header` that has no value, that one takes the added `--header` for it. It
   is the one exception in `TokenIsSent`.

Two more things that no document denies, and that a reader of the code would
hardly expect: a message can be lost without any fault, when another channel's
failed steer kills the process between the making of a thread and the turn in it
(`robbed` in `TurnReachesServer`); and an instruction file left empty by a death
in the middle of `os.WriteFile` is never made again, because `os.Stat` finds it
(`torn` in `Workspace`, excused in `InstructionsComplete`). And the guild's id
is not trimmed as the lists are: padded in the file, nothing is heard, while
posts are still allowed (`AccessIsNested`).

## 4. What is proved

The theorems hold for every value of the constants, hence for any number of
channels, messages, senders, turns and faults, and for any queue size and
window. `tlapm` checks every proof to its last leaf. `PROJECT.json` lists the
theorems; those with a "property" prove what a run checks on a small instance.

**Assumptions.** Each is named, stands in the module that declares the
constants, and is evaluated by TLC for the values of the runs.
`ConstantsAssumption` (`Dispatcher`): every message has a channel and the queue
has a size. `IntakeAssumption`: a message's channel in the dispatcher is its
`workerKey`. `HistoryAssumption`: messages have numbers, all different, and the
limits are numbers. `CallerAssumption` and `CoordinatorAssumption`: the callers
are the channels, the heartbeat and the shutdown, all different, and the bounds
are numbers. `StreamAssumption` and `TypingAssumption`: bounds are numbers.
`SystemAssumption`: those of the dispatcher, and turns for all messages and
ticks. `GatewayAssumption`: every text has a signature, the window is a number,
and "not in the map" is no time. `UsageAssumption`: limits are positive, what is
permitted is some of the arguments, and "no token" is no token.
`PolicyAssumption`: the star is no letter, names are made of letters, patterns of
letters and stars. `ConfigAssumption`: blank, the channels, the guild and the
tokens are different things, and what the file and the environment hold has the
types the code reads them as. `WorkspaceAssumption`: the files are a sequence,
not empty, and the bounds are numbers.

**Dispatcher** (`DispatcherProofs`). `TypesAndLocals` proves the types together
with `LocalsMatchBatch`: neither is inductive alone, since the record handed to
the handler is well typed only because a batch is never empty while the worker
collects or handles. `QueueIsBounded` needs no more than the types.
`HandlerIsToldTruth` follows from the locals, the calls made so far never
changing. `OnePlace` says of each message where it is, and that one whose call
has not returned is in no queue; together with the locals it is inductive as it
stands. `LossesLeaveOthers` counts nothing, it names a survivor: after a drain
the message that drained, which now goes to "resend"; after a failed resend the
head of the queue, which is full. The step that ends a survivor always leaves
another. `ReportsCover` rests on `Accounted`: a message that was given up has
reported it, and the evictions are at least the other reports and at most all of
them. A drain adds one to each side; giving up after a drain moves a report from
the others to the messages given up. The messages need not be finite in number:
the losses are. `TheOrderIsExact` is about the line of a channel: what its calls
were told of, then the batch, then the queue, one behind the other. `InOrder`
says of one channel that the line holds exactly what was sent and not lost, in
the order it was sent. A send appends to both; a receipt, an end of a batch and a
call only move the border between the parts; a drain and an exit take out a
part in the middle of the line or at its end, and in the same step make its
messages lost. That a message was never sent twice is `OnePlace`.
`DispatcherImplementsMailbox` maps the initial state, then each
action in turn to a step of `ChannelMailbox` or to a stutter; steps inside
`Enqueue` before the message is in the queue are the stutters.

**Intake** (`IntakeProofs`). Every intake step is a dispatcher step
(`IntakeIsDispatcher`), so the theorems above carry over.
`PassedFromAllowedPlaces` then follows from `OnePlace`: a batch is of one
channel, whose key fixes guild and channel, and so a verdict on its last message
is a verdict on the place of all of them. (That it is *not* a verdict on the
author of all of them is the second disagreement above.) `MergedAreShown`: a
batch has as many members as `mergedCount` says, since no message is in it twice
(`MembersAreFew`, from `OnePlace`), and finitely many messages lie between two
of them (`BetweenIsFinite`). A message merged behind the quoted one is then
within `MergedCount - 1` plus the strangers of it, and if these fit the margin
and the sum fits the maximum the history reaches back to it (`PromptFits`).

**Coordinator and client** (`CoordinatorProofs`). The invariant `Inv` has ten
parts; those that are not properties themselves are:

- `Calls`: which operation a caller is in follows from its place in
  `RunMessageTurn`. It is what lets a step of the client be read as a step of a
  turn.
- `Working`: who is at work holds `c.mu`, hence alone; and a turn streams from
  the process that made its thread. Without it `NoOrphan` fails at the start of
  a process: two attempts side by side would overwrite `c.session`.
- `Closing`: after `Close` nobody is beyond the look at its context. This is
  what `NothingAfterClose` rests on: a caller that gets the mutex afterwards
  reads the context, which the shutdown has cancelled first, and fails.
- `Owned`: threads are numbered in the order they are made, and the threads two
  channels know have no thread in common. A new thread has a number nobody
  knows.
- `Named`: a turn that succeeded has the id of its thread; it carries
  `StoredPairMatches` over the gap between the operation's end and
  `storeSession`.
- `Budget`: the heart of `TakenUpAtMostTwice`. A prompt was taken up at most
  once before the place "newTurn". Whoever has used up the count of its place
  has a turn that goes on, or one that succeeded, or a thread whose process is
  dead; and a dead thread takes nothing up. So each of the two threads a turn
  may use takes the prompt up once, however many retries the client adds.

**Messages** (`StreamProofs`). `StreamIsCoordinator`: every step of the messages
is a step of `Coordinator` or leaves its variables alone, so all of the above
holds with messages. The rest of the invariant says what is in the pipes.

- `Silent`: without a process nothing is under way. `Requests`: a request the
  server has not taken is the last one, its caller waits for it, and nothing was
  said about it yet.
- `Exec` is `Budget` counted where the server executes, which is earlier than
  where the client learns of it: a prompt whose response was lost counts.
- `Faultless`: until the first fault the session's process lives and each prompt
  executed once is undisturbed, so no retry comes.
- `Own`, as long as the server sends nothing about what is over: either nobody
  waits and nothing is under way, or everything under way is about the one
  request somebody waits for, with at most one response, one completion after
  which there is only the response, and one question or answer at a time.
- `LeftOver`, for `LagIsBounded`: the turns that have not ended, the completions
  not read and the requests not taken up are together at most what the server
  added about requests that are over, and one more while an operation waits for
  its turn's completion. Nearly every step moves something from one of the three
  counts to another. `AnswersKnown` is needed where an operation fails or ends:
  a turn that is over on both sides is no longer a task, and one not answered yet
  is the last request's.
  `ResultsAreTheTurns` follows at the step that ends the turn. Each of these
  bounds is needed: a second `turn/completed` would end the next turn.

**The program** (`SystemProofs`). `SystemIsCoordinator` and
`SystemIsDispatcher`: the program's steps are steps of both. The second is an
implication to an INSTANCE, through which the dispatcher's theorems are used.
`Handlers` joins the two: a channel is in a turn exactly while its worker waits
in `handleMessage` for it, about its `latest`. `Connected` and `Faultless` say
what holds until the first fault: the session's process runs, a prompt is taken
up in the operation that succeeds, and the thread just made is in the session's
process, unless the turn was robbed of it; from this `TurnsReachTheServer`.
`Taken` counts by message what `Budget` counts by channel, and the step that
hands a message over starts at zero because no message is handed over twice
(`OnePlace` again): `PromptsAreTakenOnce`.

`TheProgramKeepsItsPromises` is the refinement of `PromptService`, one lemma for
each kind of step: in `Enqueue` a message is accepted or lost, at the call of the
handler one message of the batch is attended to and the rest is merged behind it
(nobody else of the channel is attended to, because its worker was collecting),
at the return that message is over. Of the client's steps only `TurnAccepted`
shows, and it is `TakeUp` because of three invariants at once: the worker waits
in the handler for this turn (`Handlers`), nobody is past the look at the context
after `Close` (`Closing`), and the count was below its limit (`Taken`).

**Typing** (in `GatewayProofs`). `OthersAreStopped` is inductive with `StopIsNewest`
and with what `overlaps` means: a loop that began when no older one was left can
be deleted by its own defer only, or replaced by a call that cancels it.

**Call budget** (`ToolUsageProofs`). `Followed`: a turn that has admitted a call
left its time and its one token in the server's state, and as long as the turn
looks like one, the counts were not reset since it began, so they are at least
what it has spent. The case that matters is an admission after the first
(`NoResetWithin`): its time and the last call's are both of this turn, whatever
their order. A refusal resets nothing, because a fresh turn would have admitted
the call (`FreshAdmits`). `TheCountsAgree`: the calls that the map of hits
stands for are a finite set, an admission adds exactly one to it, and a reset
empties it.

**Gateway** (`GatewayProofs`). The invariant `History` relates the posts to the
map. `Overlaps`: two calls for one content at once were noted. `Ordered`: posts
are in the order of their times. `AboutToRecord`: whoever is about to record has
posted. `Tracked` makes it inductive: the newest post of a content whose calls
did not overlap is about to be recorded, or remembered with a time not before
it, or older than the window; and when some call is about to post, it is the
last of these. A purge with an old clock reading deletes only what is older than
the window by that reading, hence by any later one. `RepeatsTakeOverlap` follows
at the step that posts: the newest post before it is older than the window.

**Start** (`StartUpProofs`). Three components that share no state.

- *Policy.* The loop goes back to the last star only. `Round` is its invariant:
  the characters since the last star equal the name's since where the star ends
  (`EqualSince`), the name can be cut up to there (`CanEnd`), and **no way of
  cutting the whole name has that star end earlier** (`EndsNoEarlier`). The last
  is what makes a return to an earlier star useless: a star that is met anew
  takes over at the earliest place, and a mismatch excludes exactly one more
  (`RoundEnds`). From it `ThePolicyDecidesRightly`; `TheLoopAdvances` says that
  each round makes a triple of indices larger, and `PolicyTypeCorrect` bounds
  them, hence no slice is read outside its length and the loop is finite.
- *Configuration.* `AccessAlwaysNested` follows from what the lists are at each
  stage (`ListsValid`): clean after `Normalize`, nested after `Validate`, which
  looks at what later readers see only because all of them are clean by then.
  `TheTokenIsSent` follows the header through the two applications and the
  cleaning between them: taking blanks out of the arguments keeps which of them
  are values of a `--header` (`HeadersPair`), but for one at the end.
- *Files.* `TheInstructionsAreComplete` and `TheMemoryIsKept` rest on
  `FilesAccounted`: a file that is empty is being written now, by the program or
  by the model, or is one of those a death left so.

**Induction.** The library's induction theorems take an operator as a parameter,
which the installed provers cannot instantiate. What these proofs need of it is
one fact about sets, `UpToInduction`: a set that has 0, and with each number its
successor, has all of them; it follows from the well-foundedness of `<`, which
the library states about a relation. Recursive functions over a sequence
(`Without`, `IsValue`, the fold behind `FlattenSeq`) are chosen by their equation,
so that an equation must first be shown to have a solution; `StepsDefine` does
that for every recursion that goes from a place to the next. What such a function
computes is then shown with `UpToInduction` for the sequence at hand.

**Only model-checked.** The liveness properties: `QueuedGetsItsTurn`,
`ShutdownCompletes`, `TurnsEnd`, `CloseReturns`, `Decides`. Fairness and ENABLED
are out of the prover's reach. (`TheLoopAdvances` with the types is the argument
for `Decides`, but for the fairness.) Every invariant, action property and
refinement of a run is proved. `QueueBounded` and `LocalsMatchBatch` are proved
and in no run: the mailbox, which TLC checks, has no larger queue, and
`HandlerToldTruth` tells what the locals are for.

## 5. What is not modelled

- **xAI search** (`internal/xai`): a request per call, no state.
- **Decision output parsing** (`internal/codex/output.go`): its result is
  logged.
- **Logging**.
- Inside modelled components: the wording of prompts and texts, the JSON of
  messages, the choice `pickOptionLabel` makes (the answer counts, not what it
  says); reads and reactions of the gateway, and what each MCP tool does besides
  posting; the HTTP server of the MCP library; the cron schedule (a tick may
  come at any time); configuration that is only copied or defaulted.
- The two-second limits of the shutdown steps and the exit of the program behind
  them. Time has no measure here: an operation that outlasts the limit cannot be
  told from one that does not, and `ShutdownCompletes` is about a program that
  is not ended before.
- The limits of the pipes' sizes: the client reads nothing between two
  operations, and a server that writes much then would block.
- A server that stays silent for ever. The code waits for it for ever as well;
  the liveness results are about servers that answer or die.
- `toolUsageBySess` loses no entry over the program's life. Sessions are a fixed
  set here, so that growth cannot show.

## 6. What comes next

1. A turn that calls tools: `TurnStream`, `ToolUsage` and `Gateway` on one
   process, where a retried turn repeats a post and the handlers of a dead
   process go on.
2. The shutdown's steps with their limits, as choices between a step that
   completes and one that is given up, with the Discord session's `Close`.
3. Pipes of limited size in `TurnStream`.
