# Verification of the picoclaw agent

TLA+ models of the concurrent core of the agent in `src/picoclaw` (Go): the
loop that dispatches messages to workers, a single turn, the tree of sub-turns,
the message bus, a session's history, its files and its context in Seahorse, the
chain of LLM candidates, and what surrounds them: tool servers, media files,
channel manager, cron, runtime event bus and the launcher of the gateway
process. TLC checks them on small instances, TLAPS proves the most important
invariants for every value of the constants.

## The system

| Component | State | Operations | Hard because |
|---|---|---|---|
| Agent loop dispatcher (`pkg/agent/agent.go`, `agent_steering.go`, `steering.go`, `agent_stop.go`) | `activeTurnStates`, steering queues, `workerSem`, armed stops | `Run`, one worker goroutine per claimed session, `Continue`, `/stop` | session claims, slots and queues are three unrelated structures, each atomic by itself, and handed over between goroutines that may panic or be cancelled |
| Turn pipeline (`turn_coord.go`, `turn_state.go`, `pipeline_*.go`) | messages sent to the LLM, stored history, restore point, pending steering, abort flags | LLM call, retry, tool execution, poll, finalize, roll-back | steering, interrupts and aborts may come between any two steps; another goroutine rewrites the history |
| Sub-turns (`subturn.go`) | semaphore, `childTurnIDs`, `pendingResults`, contexts | `spawnSubTurn`, delivery, `Finish` | slots, full channels, panics, ends in any order, cascading aborts |
| Message bus (`pkg/bus/bus.go`) | five channels, `closed`, `done`, a WaitGroup | publish, receive, `Close` | a send on a closed channel panics; close under blocked publishers |
| Legacy context manager (`context_legacy.go`, `context_budget.go`) | stored history and summary, the summaries being made | compression, summary in the background, `/clear` | reads, calls a model and writes back with no lock between; moves what a turn remembers of the history |
| Session store (`pkg/memory/jsonl.go`, `pkg/session`) | a log and a metadata file per session | append, truncate, set, compact, promote | crashes between two writes |
| Seahorse context manager (`pkg/seahorse`, `context_seahorse.go`) | tables of messages, summaries and context items beside the history | ingest, leaf and condensed compaction, `/clear`, bootstrap | two condensers read, call a model and replace a range that may have changed; rows, items and history are written one after the other |
| Fallback chain (`pkg/providers/fallback.go`, `cooldown.go`, `ratelimiter.go`) | error counts, cooldown ends, token buckets | try candidates in order | shared by all turns; a look and its use are two steps |
| MCP manager (`pkg/mcp/manager.go`) | table of servers, `closed`, a WaitGroup, locks for replacements | `ConnectServer`, `CallTool`, replacement of a lost session, `Close` | a flag, a counter and a lock that are not taken together; several calls find one session lost |
| Media store (`pkg/media/store.go`) | references to files, counts by path | store, `ReleaseAll`, `CleanExpired` | files are looked for before the lock is taken and deleted after it is given back |
| Channel manager (`pkg/channels/manager.go`) | channels, workers with queues, contexts | `StartAll`, `Reload`, `StopAll`, dispatch, send with retries | a lock held while waiting, sends without it, functions deferred to a goroutine, queues closed by name |
| Cron (`pkg/cron/service.go`, `pkg/tools/cron.go`, `cmd/picoclaw/internal/cron`) | jobs in memory and in a file, next runs, a wake-up channel | timer loop, job edits by the tool and by the command, reload | lost wake-ups, restarts, edits during a run, two services and a second process on one file |
| Runtime events (`pkg/events`) | subscriptions with bounded channels | publish, overflow policies, close | dropping and closing under concurrent publishers |
| Gateway launcher (`web/backend/api/gateway.go`, `pkg/pid/pidfile.go`) | the process tracked, its status, the PID file | start, stop, restart, status, shutdown | processes end by themselves; a restart waits without the lock; two parties own the file |
| Channel adapters, tools, LLM clients, audio, evolution, heartbeat, gateway, configuration, the rest of the command line, web, Android, browser server | | | I/O and data conversion; see PROJECT.json |

The channels publish to the bus's inbound stream. `Run` receives from it,
routes a message to a session key and either starts a worker for the session
or puts the message in its steering queue. A worker runs turns; a turn polls
the queue of its session, calls the LLM through the fallback chain and runs
tools; a tool may spawn sub-turns, which run the same pipeline on a store of
their own, call a tool server, keep files in the media store, or edit cron jobs.
At its end a turn may leave the session's history to the background summary;
with Seahorse, each message goes to its tables as well, from which the next
context is taken, and a goroutine condenses what a turn summarised. Answers are
published to the outbound stream, which the channel manager's dispatcher moves to the channels' workers. Every part
publishes runtime events. The launcher starts all of this as one process.

What makes each part correct:

- dispatcher: a session is claimed only while somebody will free it, slots are
  given back exactly once, a queued message is in one queue once and is read,
  one worker at a time per session, `/stop` hits its own session;
- turn: tool calls stay paired with results, steering is neither lost nor
  doubled, aborts roll back, the turn ends;
- sub-turns: limits hold, a result is delivered or an orphan, aborts reach the
  children, nobody waits for ever;
- bus: no send on a closed channel, every accepted message accounted for,
  `Close` returns;
- history and store: a message is forgotten only where the code means to, or
  with a known cause; what was cleared or truncated stays away;
- Seahorse: the context has every message of the history once and in order,
  itself or in a summary, whatever two condensers do; nothing cleared comes back;
- MCP: no session with a server is left open, closed under a call or replaced
  twice;
- media: a reference has its file, a borrowed file is not deleted;
- fallback chain: rates and cooldowns hold under calls that overlap;
- channel manager: a reload leaves other channels and their order alone, a
  changed channel works again, `StopAll` returns, every drop has a cause;
- cron: an enabled job keeps a next run in memory and on disk, runs when due,
  and a one-shot job runs once;
- events: a close loses nothing accepted, handlers see a publisher's events in
  order, nobody is left waiting;
- launcher: what it shows agrees with what it tracks, its end stops its child.

## Modules

- **AgentLoop** models `Run`, its workers and `/stop`. A worker is named by the
  message it was started for. Each action is one atomic look at, or change of,
  the shared state: `ReceiveClaim` is `LoadOrStore` with its goroutine start,
  `ReceiveBusy` and `Enqueue` are the two halves of the busy path (audio is
  transcribed between them), `StopClear`, `StopLook`, `StopAbort`, `StopRefused`,
  `StopRecheck`, `StopArm` are the steps of `tryHandleStopCommand` (`HardAbort`
  refuses an entry that is no turn, and then the handler looks once more);
  `TakeStop` and `SkipMessage` are a worker that meets an armed stop;
  `ContinueClaim`, `ContinueDequeue`, `ContinueTurn` those of `Continue`;
  `ReleaseSlot`, `CleanupObserve`, `CleanupRelease`, `Panic`, `PanicCleanup` are
  the worker's deferred calls. `activeTurnStates` is `active`: an entry is the
  pointer, named by owner and kind. A turn is `turn`/`finalize` with polls.
- **Turn** models one root turn (`runTurn` and the pipeline) with the user's
  steering, a graceful interrupt and the goroutine of a `/stop` (`HardAbort`)
  beside it. A message is a record of its role and origin. Compression, what is
  trimmed from the messages sent when the history does not fit the context
  window (`Trims`) and the matching of tails are operators over sequences of these.
- **SteeringQueue** is what a poll takes from a steering queue and what it
  leaves, by mode; both modules above extend it.
- **SubTurn** models `spawnSubTurn` from the semaphore to the last deferred
  call, delivery, polling, and `HardAbort` with its cascade. Turns are numbers,
  0 the root. `doomed` is a history variable: the target's children when the
  abort was requested.
- **MessageBus** models publish, receive and `Close`, one step per operation on
  a channel, the mutex or the WaitGroup. A ready `select` takes any ready case.
- **Mailbox** is what the bus promises: publications are accepted or refused,
  accepted ones are delivered in order or discarded by a close, and after a
  close nothing is accepted.
- **JSONLStore** models one session's log and metadata file and the legacy
  session it may take over. An operation under the session's mutex is a step, or
  two when it writes both files; a torn append, a failing second write and a
  crash are steps of their own. `owed`, `removed`, `tears` and `cut` are history
  variables that the properties speak of.
- **SessionHistory** is the same session from above: the worker's turns with
  their restore points (history and summary are read one after the other, anew
  after each compression) and, when a turn is aborted, the roll-back to them,
  `/clear`, `forceCompression` inside a turn, and the goroutine of
  `summarizeSession`, each call of the store one step. The user may speak in the
  middle of a turn. A summary is the set of messages it was made from; where a
  history may be cut (`findSafeBoundary`, what a compression keeps) is computed as
  in the code, on roles.
- **Seahorse** models one session under that context manager: the worker's turns
  (a message goes to the history, to the rows, then to the items), the leaf
  summaries it writes at a turn's end or when the context overflows, `/clear`,
  and `compactCondensed` as both the worker and the goroutine run it - pick,
  read again, replace. `ReplaceContextRangeWithSummary` keeps its ordinals'
  arithmetic (`Inserted`, `Resequenced`). `Bootstrap` follows a start or a
  `SeahorseCrash`. Each SQLite transaction is a step; where token counts decide,
  either may happen. `missed`, `again`, `overlap`, `clash` and `wiped` are history
  variables.
- **MCPManager** models `CallTool` step by step (look under the lock, look
  again, count, call, and the replacement of a lost session), `ConnectServer` and
  `Close`. A session is a number; the server may forget any.
- **MediaStore** models `Store` as its `os.Stat` and its part under the lock,
  `ReleaseAll` and `CleanExpired` as a part under the lock and the deletions
  after it.
- **Fallback** models calls that walk the chain: `Look` reads the cooldown,
  `Acquire` and `Wait` are the token bucket's two entries, `Run` ends with
  success, or a failure of either kind marked on the shared tracker. Time is in
  ticks. `promised` and `granted` are history variables.
- **ChannelManager** models `StartAll`, `Reload` (one step under `m.mu`, then
  its deferred functions one by one), `StopAll`, register and unregister, the
  dispatcher with its look and its send as two steps, and a worker's loop with
  rate limit, retries and cancellation. A channel that was stopped refuses a
  message, unless it only edits a placeholder (`preSend`). When the gateway has
  stopped, closing the bus drains its stream (`Drain`) and the dispatcher ends with
  it. Media messages take a copy of this path. `touched`, `broken` and `overtaken` are
  history variables.
- **Cron** models `runLoop` (read the deadline, enter the `select`, wake up,
  collect what is due, execute), the tool's operations - an update is a read and
  a write -, the replacement of a service by a reload or a crash, and the command
  `picoclaw cron`: a process of its own that reads the file (`CliOpen`) and later
  saves all it read with one job changed (`CliSave`), gateway or not.
- **EventBus** models `Publish` along its snapshot of subscriptions under the
  three overflow policies, the goroutine of a subscription, and the stages of
  closing one: off the bus ("leaving"), `closing` closed ("marked"), no more entries
  ("closed"), the input closed ("shut"). `Send` is the look at `closing`, `Offer` the
  first try after it, which a close that begins in between does not stop.
- **Launcher** models the HTTP handlers that start, stop, restart and report, the
  start the launcher makes by itself, the goroutines that wait for a process and
  probe it, and the processes with the port they bind and the PID file they write
  and remove. A child that has ended exists until `cmd.Wait` has returned for it
  (`Reap`): `kill(p, 0)` finds it (`Exists`), while `ps` shows that it is no gateway
  (`Found`, `IsGateway`). A restart ends its process by force when it takes long
  (`RestartKill`), and keeps one that is no gateway (`RestartRefused`).
- **AgentLoopProof**, **TurnProof**, **SubTurnProof**, **MessageBusProof**,
  **JSONLStoreProof**, **SessionHistoryProof** (of `SessionHistory` and
  `Seahorse`), **SharedProof** (of `Fallback`, `MCPManager`, `MediaStore` and
  `Launcher`) and **ServicesProof** (of `EventBus`, `Cron`, `ChannelManager` and
  the three in `MCServices`) hold the theorems; **MC*** give TLC its instances.
  **MCDispatch**, **MCShared** and **MCServices** hold several modules side by side: a variable `part` chooses in the initial state which one runs,
  the others rest. The parts share no state, so a run of all of them is an
  interleaving of runs of each, and a property of one part holds of the
  interleaving when it holds of its own steps; nothing is lost by running one at
  a time. A module with theorems is extended there (hence `TurnInit`, `ChainNext`,
  `MCPSpec` and the like, names kept apart), so that what is proved and what the
  run checks is one definition; the others are instances.

Operators named in PROJECT.json as `as` of a mutant (`StopAbortUnchecked`,
`KeepCountFixed`, ...) stand next to the definition they vary and are used by
no specification: they are slips of the code that the properties detect.

## Runs

| Run | Shows | Bounds and why they are enough |
|---|---|---|
| `message_bus` | safety, liveness and refinement of the bus | two streams, one of them with a drop budget, and buffers of one, so that publishers wait; two concurrent closers |
| `agent_loop`, loop | safety of the dispatcher | two sessions and one slot, so that workers wait for each other; queues of two, so that one holds more than a poll takes; three messages, so that a worker's end meets the start of the next and a third message meets both |
| `agent_loop`, turn | safety of a turn | two steering messages (the second arrives while the first is handled), one iteration beyond which only steering goes, two tool calls (one runs, one is skipped), one retry, two old turns (a compression has a middle) |
| `agent_loop_live` | workers end, sessions are freed, a turn ends | one session, three messages, polls of the whole queue; one steering message, one old turn |
| `subturn` | limits, delivery, abort of a sub-turn | one child of the root and two more below it, one slot, a channel of one: every wait the code can have |
| `shared`, files | what a session shows after torn appends, crashes and failing writes | four messages (one torn, one glued to it, one hidden, one kept), one legacy message, two faults (one makes the metadata stale, the next meets it) |
| `shared`, history | what a session forgets | five messages, one of them inherited, a threshold of three and two kept: two summaries with a turn between them, the second made on top of the first, a batch that is split, roll-backs beside a summary and a compression; one `/clear` |
| `shared`, context | what Seahorse's context keeps | "short": two leaf summaries and one message more, a `/clear`, one crash or failure; "long": four summaries and one message more, no faults: two condensers work at once and candidates need not be neighbours. A gap of four between ordinals, so that one insertion fits and a later one renumbers; fan-outs of two, a fresh tail of one |
| `shared`, tool server | sessions with a tool server | two callers, three calls, two lost sessions and four sessions: one is replaced twice while `Close` runs |
| `shared`, media | references and files | two files, two scopes, three references: one file referred to twice with either policy |
| `shared`, chain | rates and cooldowns | two calls that overlap on two candidates in either order, three ticks, a longest cooldown as long as the window, buckets of one |
| `shared`, launcher | handle, status and processes | two requests at a time, three in all; a gateway that ran before and two of the launcher's own: the process replaced, its successor, and one nobody owns |
| `services`, channels | reloads against traffic, `StopAll` returns | two channels with one reload (one changes, one must not notice) and one channel with three (a later one meets what an earlier one deferred; the third, before any message, what that undid), one changed name per reload; two messages in the first, so that one waits at a full queue, and one in the second, queues of one, one retry |
| `services`, cron | schedule, file, one-shot jobs | one job, as jobs meet only in the file that holds them all; two services, two operations of the tool or the command and two instants, one to schedule at and one to run at |
| `services`, events | closing under publishers | one subscription that blocks and is used once and one that drops its oldest event, buffers of one: three events of one publisher at the first, two of one at both, two and one of two publishers at the second |
| `serialized`, `stranded`, `turn_once`, `subturn_cascade`, `channel_reload`, `seahorse_bootstrap` | what a doc or a comment says and the code does not do | the smallest instances with the counterexample |

Larger instances, run once and not kept because of their time, showed nothing
more: seven messages in the history (15 million states), three ticks of cron,
four requests to the launcher (3 million states), three calls of the chain (1.5 million states).

Each part of `shared` and `services` states what it keeps as one property, a
conjunction of properties its module names and explains: `FilesAreKept`
(`LossBounded`, `TruncatedStaysAway`), `HistoryIsKept` (`LossNeedsOverlap`,
`ClearedStaysAway`), `ContextIsKept` (`HistoryIsCovered`, `CoveredOnce`,
`OldestFirst`, `NeighboursOnly`, `WipedStaysAway`), `CandidatesAreSpared`
(`RateIsKept`, `CoolingIsSpared`, `CooldownHolds`), `ToolSessionsAreKept`
(`SessionsAreHeld`, `ClosedUnderNobody`, `ReplacedOnce`), `MediaIsKept`
(`ReferredIsThere`, `BorrowedIsKept`, `CountsAgree`), `LauncherKeepsTrack`
(`TrackedIsNotStopped`, `ChildrenAreStopped`), `JobsAreKept`
(`EnabledIsScheduled`, `SleepsNoLonger`, `FileIsCurrent`) and `ChannelsDeliver`
(`UntouchedFlows`, `DropHasCause`, `SentInOrder`, `CrashHasCause`).

The sessions of `agent_loop` are interchangeable, and so are the callers, files
and clients of `shared`, hence the symmetry sets; runs with liveness properties use
none. Deadlock is checked, and a system that is really over stutters by an
action that says so, except in `services` and `channel_reload`: a gateway whose
dispatcher panicked has stopped, as has a bus that is closed or a cron service
at the bound of its clock, and there is no one state in which all are over.

### The findings

- `Serialized`: a worker's last deferred call removes whatever entry of its
  session has an ID with the prefix `pending-`. A worker that already freed the
  session removes its successor's claim, and two workers run turns of one
  session.
- `NothingStranded`: the busy path enqueues long after it looked.
- `InjectedOnce`: steering that arrives during a direct answer is both copied
  to the local list and appended to it again.
- `StopCascades`: a root turn does not know the agent loop, which the cascade
  needs.
- `RestartedHasWorker`: a reload removes a changed channel by name after it has
  started its new worker, and so takes that one away.
- `BootstrapReconciles`: Bootstrap compares only as many rows as the history has
  messages, so that the messages of an aborted turn, which the history no longer
  has, stay in Seahorse's context after a restart.

### Observations

Met while modelling and part of the models; each is an exclusion that a
property names, or a behaviour no document speaks against.

- Turn: the final answer, and everything of a turn aborted during a retry's
  pause, is stored after the roll-back. Sub-turns: nothing calls `Finish` for a
  sub-turn that ends by itself, so that a full channel keeps its senders.
- Channel manager: the dispatcher's `select` may send on a queue closed since it
  looked, which panics and ends the process; `Reload` meets a nil channel when a
  name's last start failed, when the goroutine of an earlier reload has yet to
  register it, or when that goroutine unregistered it after a later reload had
  started it (`CrashHasCause`; three reloads that overlap). It replaces `dispatchTask`, so that
  a later `StopAll` cancels a context the first workers do not run under.
- Cron: a wake-up that comes between the plan and the `select` is lost, and the
  loop sleeps on for up to an hour (`SleepsNoLonger` names it). A one-shot job
  that is rescheduled while it runs is deleted when the run ends; one whose time
  passed while the service was down never runs; a job disabled after it was
  collected still runs; a replaced service may save its jobs over the file
  (`FileIsCurrent` excludes it), and so does the command `picoclaw cron`, whose
  change a running gateway never sees and the next save of its service undoes.
- History: a batch longer than `maxSummarizationMessages` drops the old summary;
  a compression writes back a summary it read before a newer one; the number of
  messages to keep is counted before the model is called; a roll-back writes back
  history and summary as the turn read them, over what a summary and its
  truncation changed meanwhile; a cleared session takes its legacy history over
  again; sessions of routed agents are never summarised, as the lookup is by the
  default agent.
- Seahorse: a condenser reads a range of ordinals, calls the model and replaces
  the range whatever is in it by then; the other condenser, an insertion that
  renumbers or a `/clear` between the two makes messages disappear or a cleared
  summary come back (`clash` excludes it). A failure or crash between rows and
  items leaves rows that no context shows (`missed`); Bootstrap may add a message
  that a summary stands for already, or one that belongs in front of what the
  context has (`again`).
- MCP: a call that passed the look at `closed` and is counted after `Close`
  stopped waiting has its session closed under it, although `Close` is to "Wait
  for all in-flight CallTool calls to finish before closing sessions"
  (`manager.go:674`); `CallsFinishFirst` names it.
- Media: a `Store` whose `os.Stat` falls before the deletion of the same path
  registers a file that is then gone (`raced`). `ReleaseAll` has no caller in
  production (`agent.go:299` is commented out).
- Fallback: an agent with one candidate bypasses the rate limiter
  (`pipeline_llm.go:250`); only the chain's statically last candidate waits for
  a token, so that a saturated first and a cooling last one fail at once; a call
  that waited does not look at the cooldown again; a late success clears a newer
  cooldown; failures of calls that overlap count as failures in a row; a reload
  starts with full buckets and no cooldowns.
- Launcher: a second start, or a status request that looked before a start,
  attaches to the launcher's own child as if it were not, and its end no longer
  stops it; a start right after a stop attaches to the process that is going
  down; a start whose precondition fails forgets a child that runs.

### Fairness

Goroutines are scheduled: weak fairness of each worker, of `Run`'s handling of
a message it has taken, of a publisher and of `Close`; of the channel manager's
dispatcher, each worker, each reload's goroutine and `StopAll`'s end; of each
cron loop; of each runner, close and started publication of the event bus;
of a turn's own steps (`FairDispatchSpec`).
LLM calls, tools, sends, cron jobs and semaphore waits carry timeouts, so a step
that is enabled happens; event handlers return (the bus documents that they
must). The clock of cron ticks. Not assumed: that messages arrive, that contexts
end, that consumers keep consuming, that a parent polls its results, that
anybody calls an operation. The parts of `shared` have no liveness properties and
no fairness.

## Proofs

`AgentLoopProof` (constants arbitrary under `LoopAssumption`):

- `TypeCorrect`: `TypeOK` is inductive.
- `ClaimHasOwnerCorrect`: inductive with `TypeOK` and `Fresh` (a message not
  yet received has no worker): without it a new claim could be owned by a
  worker that is over. The theorem assumes that Continue does not panic between
  its claim and its turn; there the code leaves the session claimed for ever.
- `SlotsBoundedCorrect`: the invariant says which steps hold a slot; the
  semaphore's set is exactly those workers.
- `QueuedOnceCorrect` needs `FateInv`: a message not received yet is inbound,
  one with a worker is never queued, and the one `Run` prepares for a queue is
  in none, or enqueuing it could put it there twice. `BatchAndRest`: what a poll
  takes and what it leaves are the queue's messages, apart.
- `StopIsScopedCorrect`, an action property, needs `StopInv`: what `Run` handles
  in its steps for a `/stop` is one, an entry of `activeTurnStates` belongs to
  its owner's session, and a stop is armed only where a `/stop` was sent.

`TurnProof` (under `TurnAssumption`: any numbers of steering messages,
iterations, tool calls, retries and earlier turns, either steering mode):

- `TurnTypeCorrect`: `TurnTypeOK` is inductive with `PlaceInv` (which variables
  mean something where the turn is) and `StoreInv` (before an abort the history
  begins with a user message: a compression that keeps nothing else would not
  have one to cut at).
- `CallsAnsweredCorrect` needs `PairInv`: the history, the messages sent and what
  the turn has stored pair calls and results, but for the group of the response
  at work, which is its calls and the results so far (`Group`), at the end.
  `Joined` says that histories that pair still do one after the other,
  `GroupGrows` that a result more keeps the group one, `Suffix` and
  `CompressedType` that a compression cuts where no group is open, `TrimsType` that
  a trimmed history pairs. After a compression the messages are the trimmed
  history and the longest tail the history shares with what the turn has stored
  (`LongestMatch`); such a tail does not begin with a result (`TailStart`), so that
  it cuts no group (`TailPaired`).
- `TakenIsInjectedCorrect` needs `SteerInv`: each steering message sent is in the
  queue, in the list about to be injected or in the conversation, and that list
  is empty wherever a turn may complete.
- `AbortedIsRolledBackCorrect` needs `RestoreInv`: the restore point begins the
  history and what `HardAbort` has read, so that whichever roll-back comes last
  cuts back to it.

`SubTurnProof` (under `SubTurnAssumption`), on `TypeOK` and `CallInv` (where a
call has not been it has left no trace):

- `SlotsBoundedCorrect`: a slot is held by exactly the calls between admission
  and end, and its set is kept below `MaxConcurrent` by the admission.
- `AbortReachesChildrenCorrect` needs `AbortInv`: each child the target had is
  finished, over, or in the set still to be visited, or the target itself is.
- `ResultOnceCorrect` needs `ResultInv`: a channel holds each call at most once,
  and exactly those sent to it and not read.

`MessageBusProof` (under `BusAssumption`), each invariant on top of the last:

- `TypeCorrect` needs `CountInv`: the WaitGroup counts the publications in
  flight, or its counter could become negative.
- `NoSendOnClosedCorrect` needs `PhaseInv`: from the moment `Close` has seen
  the counter at zero nobody is in flight and, as `closed` was raised under the
  mutex before, nobody enters.
- `AccountedCorrect` needs `PlaceInv`: every message is in at most one place,
  and its result says whether it is in one.
- `ClosedIsEmptyCorrect` needs `DoneInv`: a finished close leaves empty buffers.
- `BusImplementsMailbox`: with all of these every step of the bus is a step of
  `Mailbox` or a stutter, under the mapping `outcome`, `phase`.

`JSONLStoreProof` (under `StoreAssumption`: any numbers of messages and of
legacy messages, any sets of arguments). What the store shows, `History`, counts
the lines that parse (`Nth`, `Upto`) instead of filtering them with the library's
recursive `SelectSeq`, about which nothing can be proved; `NthIs` and `UptoGrows`
say that this picks each such line once and in order.

- `StoreTypeCorrect`: `TypeOK` is inductive with `StoreInv`: messages come in
  order and one that is offered is in no file yet, no line but a corrupt one is
  in a file twice, and what an operation's second write relies on is still as
  its first write left it.
- `FilesAreKeptCorrect`, both halves of `FilesAreKept`. `LossInv`: what is owed
  and not shown (`Lost`) is bounded by the torn appends, and a line still torn
  is one loss in store, because the next append would be glued to it; a
  promotion starts only where nothing is shown. `AwayInv`: what was removed is
  not among the lines shown, nor in what a compaction is about to write.
- `TruncateKeepsCorrect`, an action property: `UptoSplit` and `TruncateHides`
  give the line at which `TruncateHistory` sets the skip, and `TruncateKept` what
  is shown behind it. It needs no more than `TypeOK`, so it holds
  after any interrupted operation too, and whatever `count` says.

`ServicesProof` (for every value of the constants that meets
`EventBusAssumption`, `CronAssumption` or `ManagerAssumption`, hypotheses of the
theorems, which `MCServices` assumes):

- `NoSendOnClosedCorrect` needs to know where a publisher stands: one that
  waits is counted, and the channel is closed only after the last has left.
- `HandledInOrderCorrect`: what a subscription has handled, has in hand, has
  queued and is about to be given by a publisher are ordered numbers.
- `CloseIsCleanCorrect`: with these and that a runner which ends leaves an empty
  queue, no accepted event is lost by a close. It is the property `CloseIsClean`
  that `services` checks.

- `CronTypeCorrect`, `JobsAreKeptCorrect` and `OneShotOnceCorrect`, of the
  properties `JobsAreKept` and `OneShotOnce` of `services`. `Inv` speaks of every
  copy of a job, in a service's memory, in the file and in a tool call that will
  write it back; `CliInv` of those in the hands of the command `picoclaw cron`. `JobsInv`: a one-shot job with a next run is enabled and runs at
  its own time, and a copy has the schedule of its job. `KeptInv` extends the
  sleep to the time between the plan and the `select`. `OnceInv` is the argument
  for one-shot jobs: a time that was taken up has passed, so no recomputation
  gives it again, and a job or copy that still has it as its next run is in the
  hands of the loop, which deletes it before it looks again (`DueIsNew`,
  `OnlyCheckTakes`). It need not hold of a replaced service, which never checks
  again; and a service that starts computes every next run anew.

- `ManagerTypeCorrect` and `ChannelsDeliverCorrect`, the property
  `ChannelsDeliver` of `services`, with `ManagerInv`. Messages: each is in one of
  the places a message can be (`InPlace`), and places are ordered (`InOrderOut`):
  what a worker holds is older than what the dispatcher and the stream hold, so
  a message of a channel with one worker is settled only after those before it.
  Channels: `Untouched` keeps for a name what `StartAll` gave it; that no reload
  stops its object needs that objects of later reloads are others
  (`ObjectsInv`), which is where the numbers of `Numbered` count. Crashes:
  `MissingHasCause` holds before the crash, of every configured name without an
  object. It needs `Follows`: a call that unregisters a name its own reload
  started again comes before the call that registers it, so that the name is
  awaited when it is forgotten; `overtaken` is the case that is left. And
  `ClosedIsOwned`: while the manager runs, a closed worker that a name still has is
  one somebody waits for with the lock, so no other unregistration finds it. The
  proof showed that the list of causes was short of the last one with three
  reloads, which one run with two had not reached.

- `ServicesTypeCorrect`, the property `TypesOK` of `services`: the three invariants
  together, since a step of one part leaves the others' variables alone
  (`EachTakesItsSteps`); this is what lets the run check one part at a time.

`SessionHistoryProof` (likewise, under `HistoryAssumption`, which `MCShared`
assumes): `HistoryTypeCorrect` and `HistoryIsKeptCorrect`, the property
`HistoryIsKept` of `shared`.

- The argument for what is lost: `Doomed` is what the truncation under way would
  take although no summary has it. `ReadHistory` starts with none, because the
  batch is exactly what `keepCount` leaves out (`CutFacts`, from
  `findSafeBoundary`); each message added meanwhile pushes one more out, and is
  counted in `late`. So `LossInv` bounds `Missing` and `Doomed` together; bounding
  what is lost alone is not inductive, the truncation would jump. It needs
  `BatchInv`, that what a summary was made from is in it or given up when the
  truncation comes, and `PackInv`, that the history a compression is about to
  set has all it did not drop and is cut no deeper: it keeps a later part, or
  one message, of the history it read (`KeptFacts`). `PointInv` says the same of the
  restore point: it has what the history has but for the turn's own messages,
  which are `undone` when it is written back.
- `ClearInv` follows what was cleared wherever it could come back from: the
  history, the summary, the history and summary a compression holds, the batch
  and base of a summary in the making. Only the last can hold any, and those are
  `afloat`.
- Messages are numbered in their order (`Ranked`), so a history is no longer
  than the number of messages. `LeastExists`, `MaxIsIn` and `MiddleExists` say that
  the choices in `SafeBoundary` and `Kept` exist; the last is by the pigeonhole
  principle. TLC checked the whole invariant on the instance of `shared`.

Under `SeahorseAssumption` (which `MCShared` assumes as well), for any fan-outs,
fresh tail, gap between ordinals and numbers of messages, summaries and faults:

- `ContextIsWellTyped` and `SeahorseKeepsContext`, the property `ContextIsKept` of
  `shared`, from `SeahorseInvariant`: `SeaInv` is inductive. Its parts outside
  `Clean` hold at all times; `Clean` and the order hold until a clash, which is a
  replacement of a range that was touched after it was read.
- Rows: a message is stored once and in order (`SeaRows`), which is what
  Bootstrap's comparison of rows and history rests on.
- Names: an item in the table or in a condenser's hands `Fits`: a summary's
  number is its own, so two items that are equal are one (`Distinct`,
  `SeaNames`). A message's item stands for that message only.
- The worker: the messages a leaf summary is made of stay where they are, behind
  the summaries (`Leafing`), although the goroutine may shrink what is in front
  of them: no depth rises along the context (`Deepest`).
- A condenser: while it waits for the model, its picks are of one depth and the
  first of that depth (`Foremost`), so those still there are neighbours; and if
  another condenser replaced some, what they stood for is still covered
  (`Waiting`). A range untouched since it was read holds the picks and nothing
  else, so replacing it keeps every message (`SpanReplaced`, `SpanKeepsApart`).
- `Complete` says where each message of the history is, `Single` and `InOrder`
  that nothing is there twice or out of order unless condensers overlapped or
  Bootstrap added it again.
- The proof found that `OldestFirst` needs more of `again` than a message twice in
  the context: an aborted turn's message may be summarised, and a Bootstrap after
  it adds an earlier message whose ingestion had failed, behind it. It takes two
  faults; the run has one.

`SharedProof` (likewise; `MCShared` assumes the four assumptions). Under
`FallbackAssumption`:

- `CandidatesAreSparedCorrect`, the property `CandidatesAreSpared` of `shared`.
  Rates: the grants since any instant, and the tokens left, are bounded by the
  burst and what the span refilled. Cooldowns: `promised` is the later of a
  candidate's two ends, which needs that the tables grow and no cooldown is
  longer than the failure window, since a count that starts over could
  otherwise set an earlier end. Runs: a call runs only where it looked.

Under `MCPAssumption`, `MediaAssumption` and `LauncherAssumption`:

- `ToolSessionsAreKeptCorrect`, the property `ToolSessionsAreKept` of `shared`,
  and `MCPTypeCorrect`. `CountInv` says the WaitGroup counts exactly the calls
  between `Add` and `Done`, so that from the end of the wait whatever is in
  flight is late (`CloseInv`). `BusyInv` says that one call at most replaces a
  session, that in the table, because it looks again under the lock; `FreshInv`
  that nobody else knows the new one. With them a closed session is either lost
  or closed by `Close` (`ClosedInv`), a good one is in the table or about to be
  (`GoodInv`), and one that is open has a holder (`HeldInv`).
- `MediaIsKeptCorrect`, the property `MediaIsKept` of `shared`, and
  `MediaTypeCorrect`. `MediaInv` says why the deletions after the lock do no
  harm but in a race: when a path is doomed it has no reference left, because
  the counts are right (`OfType`, `ReleasedMedia`), a reference that comes while
  it is doomed is a race, and no borrowed path is eligible.
- `LauncherKeepsTrackCorrect`, the property `LauncherKeepsTrack` of `shared`, and
  `LauncherTypeCorrect`. `StopsItsChild`: while the launcher runs, a live child
  that was neither told to stop nor met alive by a later handler is the one it
  tracks and owns, so that `StopGateway` reaches it. `RequestsInv` counts the
  attachments against the requests made, which bounds them.

Only model-checked: all liveness properties (their proof needs `ENABLED`, out
of the prover's reach), among them `ManagerAdvances`; and `TypesOK` of `MCShared`,
which only says that the part at work is well typed. Each part's type invariant
is a theorem of its own (`HistoryTypeCorrect`, `ContextIsWellTyped`,
`StoreTypeCorrect`, `MCPTypeCorrect`, `MediaTypeCorrect`, `LauncherTypeCorrect`),
but for `ChainTypeOK`: its bounds are those of the run's chains of two, and the
proof of `CandidatesAreSparedCorrect` uses weaker types.

## What is not modelled

- In the dispatcher: the reload of the configuration, `ProcessDirect` and
  `ProcessHeartbeat`, `Steer` and `InterruptHard` (exported, without a caller
  in the repository). Removing one's own entry (`Load`, compare, `Delete`) is
  one step. Errors of initialising hooks and MCP inside `Continue` cannot occur,
  as `Run` has done it.
- In a turn: turns without history, streaming, side questions, errors of the
  store that are only logged, a second worker on the same session (the
  `serialized` finding), the background summary (in SessionHistory).
- In sub-turns: token budgets; `Finish(false)`, which nothing in the repository
  calls, and with it the early exit of non-critical sub-turns. Siblings below
  the root never interact, so one child of the root is enough.
- In the session store: aliases' resolution, a legacy session's summary, scopes,
  time stamps, invalid "thought" messages (filtered on every path), two keys with
  one file name, and the metadata operations that leave log, skip and summary
  alone.
- In the history: the texts, token counts (a turn may be heavy or not), the
  omission of over-long messages from a summary. The goroutine of a `/stop` cuts
  the history itself, too (`HardAbort`, `steering.go:543-549`); this cut is in Turn,
  where `AbortedIsRolledBack` speaks of it, and not here: one that comes after its
  turn's end, beside the summary or the next turn, is in no run.
- In Seahorse: token counts, the texts of summaries, assembling and searching
  the context, repairs of the database, several sessions in one database (they
  share no rows).
- In the MCP manager: loading several servers at once, which meet only in the
  table's lock; transports; listing tools.
- In the media store: resolving a reference, which only reads; files that
  cannot be deleted.
- In the fallback chain: how candidates are resolved and errors classified, and
  the reload that replaces chain, tracker and buckets.
- In the channel manager: media queues, synchronous sends, splitting of long
  messages, the contents of placeholders, typing, the HTTP server, the janitor,
  and messages for internal channels, which the dispatcher skips before it takes
  the lock (`manager.go:1652`) and which touch nothing.
- In cron: cron expressions (as a period), errors of the file, time zones. Two
  commands at once would read and save like the one that is modelled.
- In the event bus: subscribing while events are published, filters, concurrent
  handlers, channel subscriptions, counters; on the message bus: events and
  statistics, except the drop counter.
- In the launcher: logs, the comparison of configurations, reuse of PIDs; the
  "error" that a status request answers once a start has taken too long, which
  changes the answer and not the stored status (`gateway.go:892-915`); a
  reader of the PID file that finds a dead process removes it in the same step,
  although two processes may race there.
- Everything PROJECT.json lists as `not_modelled`.

## Plan

1. A composition of `AgentLoop` and `Turn` through an abstract turn that both
   agree on.
2. The reload as a whole: what it stops, replaces and starts in every service,
   and the turns that still run on the old ones.
3. The state of evolution, and several MCP servers that are loaded at once.
