-------------------------------- MODULE Turn --------------------------------
(***************************************************************************)
(* One root turn of a session (pkg/agent: turn_coord.go, pipeline_*.go,    *)
(* turn_state.go), against the goroutine of a /stop (HardAbort,            *)
(* steering.go) that rolls the session's history back under it, a user     *)
(* that keeps sending messages to the session's steering queue, and a      *)
(* graceful interrupt.                                                     *)
(*                                                                         *)
(* The turn alternates LLM calls and tool executions.  Steering messages   *)
(* are taken at its poll points and injected before the next LLM call.     *)
(* What the LLM, the tools and the hooks answer is nondeterministic.       *)
(* Streaming, media, events, token budgets and the wording of messages are *)
(* left out; so are turns without history and those of sub-turns, which    *)
(* run on a store of their own.                                            *)
(***************************************************************************)
EXTENDS SteeringQueue, Integers, FiniteSets

CONSTANTS
    NumSteering,     \* bound: messages that arrive for the session meanwhile
    MaxIterations,   \* the agent's MaxIterations
    MaxCalls,        \* bound: tool calls of one LLM response
    MaxRetries,      \* MaxLLMRetries
    OldTurns         \* bound: earlier question/answer pairs of the session

ASSUME TurnAssumption ==
    /\ NumSteering \in Nat
    /\ MaxIterations \in Nat
    /\ MaxCalls \in Nat \ {0}
    /\ MaxRetries \in Nat
    /\ OldTurns \in Nat
    /\ SteeringMode \in {"one-at-a-time", "all"}

VARIABLES
    pc,             \* where runTurn is
    status,         \* how the turn ended, "running" until it has
    iteration,      \* LLM iterations begun
    retry,          \* retries of the current LLM call
    queue,          \* the session's steering queue
    sent,           \* steering messages sent so far: 1 .. sent
    continuation,   \* a turn of Continue, started with steering messages
    pending,        \* runTurn's local pendingMessages
    execPending,    \* exec.pendingMessages
    messages,       \* exec.messages: what the LLM is sent
    history,        \* the session's stored history
    persisted,      \* ts.persistedMessages: all the turn stored, in order
    restorePoint,   \* ts.restorePointHistory
    calls,          \* the number of tool calls of the current response
    next,           \* the index of the tool call in turn
    handled,        \* exec.allResponsesHandled
    graceful,       \* the graceful interrupt: "no", "requested" or "used"
    terminal,       \* exec.gracefulTerminal: this LLM call offers no tools
    hardAbort,      \* ts.hardAbort
    stop,           \* where HardAbort's goroutine is
    stopRead        \* the history HardAbort has read

llmVars == <<iteration, retry, terminal>>
steerVars == <<queue, sent, continuation, pending, execPending>>
storeVars == <<messages, history, persisted, restorePoint>>
toolVars == <<calls, next, handled>>
signalVars == <<graceful, hardAbort, stop, stopRead>>
turnVars == <<pc, status, llmVars, steerVars, storeVars, toolVars, signalVars>>

-----------------------------------------------------------------------------
(* A message: user messages are the session's earlier ones (n < 0), the     *)
(* turn's own (n = 0) and steering message n; "calls" is an assistant       *)
(* message with k tool calls made in iteration n, "tool" the result of the  *)
(* k-th of them; "assistant" is any other answer.                           *)
Msg(role, n, k) == [role |-> role, n |-> n, k |-> k]
ProviderMessages == [role : {"user", "calls", "tool", "assistant"}, n : Int, k : Nat]

Steered(q) == [i \in DOMAIN q |-> Msg("user", q[i], 0)]
Old == [i \in 1 .. 2 * OldTurns |->
           Msg(IF i % 2 = 1 THEN "user" ELSE "assistant", -((i + 1) \div 2), 0)]

(* The session's store: AddFullMessage and recordPersistedMessage, next to   *)
(* the append to exec.messages.                                              *)
Add(ms) ==
    /\ messages' = messages \o ms
    /\ history' = history \o ms
    /\ persisted' = persisted \o ms
    /\ UNCHANGED restorePoint

(* forceCompression: the kept part begins at the user message in the middle; *)
(* a history that is a single turn keeps its user message alone.             *)
UserStarts(h) == {i \in DOMAIN h : h[i].role = "user"}
Middle(S) == CHOOSE i \in S :
                 Cardinality({j \in S : j < i}) = Cardinality(S) \div 2
Compressed(h) ==
    CASE Len(h) <= 2 -> h
      [] Len(h) > 2 /\ UserStarts(h) = {1} -> <<h[1]>>
      [] OTHER -> SubSeq(h, Middle(UserStarts(h)), Len(h))

(* trimHistoryToFitContextWindow: the oldest turns are left out of what the  *)
(* LLM is sent, as many as it takes.                                         *)
Trims(h) == {h, <<>>} \union {SubSeq(h, i, Len(h)) : i \in UserStarts(h)}

(* matchingTurnMessageTail: the longest tail of the history that is also a   *)
(* tail of what the turn has persisted, and the history without it.          *)
LastOf(s, size) == SubSeq(s, Len(s) - size + 1, Len(s))
Matches(h, p) == {size \in 0 .. Len(h) : size <= Len(p) /\ LastOf(h, size) = LastOf(p, size)}
TurnSize(h, p) == CHOOSE n \in Matches(h, p) : \A k \in Matches(h, p) : k <= n
WithoutTurn(h, p) == SubSeq(h, 1, Len(h) - TurnSize(h, p))
TurnTail(h, p) == LastOf(h, TurnSize(h, p))

(* Continue starts its turn with the messages it dequeued and no user        *)
(* message of its own; it does not poll before its first LLM call.           *)
TurnInit ==
    /\ pc = "start" /\ status = "running"
    /\ iteration = 0 /\ retry = 0 /\ terminal = FALSE
    /\ continuation \in BOOLEAN
    /\ continuation => NumSteering > 0
    /\ queue = <<>>
    /\ sent = IF continuation THEN 1 ELSE 0
    /\ execPending = IF continuation THEN <<1>> ELSE <<>>
    /\ pending = execPending
    /\ messages = <<>> /\ history = Old /\ persisted = <<>> /\ restorePoint = Old
    /\ calls = 0 /\ next = 0 /\ handled = FALSE
    /\ graceful = "no" /\ hardAbort = FALSE /\ stop = "none" /\ stopRead = <<>>

-----------------------------------------------------------------------------
(* Others: the user, a /stop and a graceful interrupt. *)

SteeringArrives ==
    /\ sent < NumSteering
    /\ sent' = sent + 1
    /\ queue' = Append(queue, sent + 1)
    /\ UNCHANGED <<pc, status, llmVars, continuation, pending, execPending,
                   storeVars, toolVars, signalVars>>

(* requestGracefulInterrupt refuses a turn that is being aborted. *)
Interrupt ==
    /\ pc # "done" /\ graceful = "no" /\ ~hardAbort
    /\ graceful' = "requested"
    /\ UNCHANGED <<pc, status, llmVars, steerVars, storeVars, toolVars,
                   hardAbort, stop, stopRead>>

StopGoes(from, to) ==
    /\ stop = from
    /\ stop' = to
    /\ UNCHANGED <<pc, status, llmVars, sent, continuation, pending, execPending,
                   messages, persisted, restorePoint, toolVars, graceful>>

(* /stop clears the queue and finds the turn registered. *)
StopLoads ==
    /\ StopGoes("none", "loaded")
    /\ pc # "done"
    /\ queue' = <<>>
    /\ UNCHANGED <<history, hardAbort, stopRead>>

RequestHardAbort ==
    /\ StopGoes("loaded", "requested")
    /\ hardAbort' = TRUE
    /\ UNCHANGED <<queue, history, stopRead>>

(* HardAbort's roll-back: GetHistory, then SetHistory of its first           *)
(* initialHistoryLength messages.                                            *)
StopReads ==
    /\ StopGoes("requested", "read")
    /\ stopRead' = history
    /\ UNCHANGED <<queue, history, hardAbort>>

StopWrites ==
    /\ StopGoes("read", "done")
    /\ history' = IF Len(Old) < Len(stopRead)
                  THEN SubSeq(stopRead, 1, Len(Old)) ELSE history
    /\ UNCHANGED <<queue, hardAbort, stopRead>>

Stop == StopLoads \/ RequestHardAbort \/ StopReads \/ StopWrites

-----------------------------------------------------------------------------
(* runTurn. *)

Moves(from, to) ==
    /\ pc = from
    /\ pc' = to
    /\ UNCHANGED <<sent, continuation, stop, stopRead>>

Ends(from, s) ==
    /\ Moves(from, "done")
    /\ status' = s

(* A stop armed before the turn existed aborts it here; so does HardAbort.   *)
StartAborted ==
    /\ Moves("start", "restore")
    /\ hardAbort' = TRUE
    /\ UNCHANGED <<status, llmVars, queue, pending, execPending, storeVars,
                   toolVars, graceful>>

(* SetupTurn: the history is compressed if it is over the budget, and        *)
(* trimmed for the LLM if it still is; the restore point is taken, and the   *)
(* user's message is stored.                                                 *)
Setup ==
    /\ Moves("start", "guard")
    /\ ~hardAbort
    /\ LET root == IF continuation THEN <<>> ELSE <<Msg("user", 0, 0)>>
       IN  \E h \in {history, Compressed(history)} :
             /\ restorePoint' = h
             /\ \E t \in Trims(h) : messages' = t \o root
             /\ history' = h \o root
             /\ persisted' = root
    /\ UNCHANGED <<status, llmVars, queue, pending, execPending, toolVars,
                   graceful, hardAbort>>

(* The loop's condition, and its check of the abort. *)
MoreWithoutPending == iteration < MaxIterations \/ graceful = "requested"
More == iteration < MaxIterations \/ execPending # <<>> \/ graceful = "requested"

Guard ==
    /\ \/ Moves("guard", "iterate") /\ ~hardAbort /\ More
       \/ Moves("guard", "finalize") /\ ~hardAbort /\ ~More
       \/ Moves("guard", "restore") /\ hardAbort
    /\ UNCHANGED <<status, llmVars, queue, pending, execPending, storeVars,
                   toolVars, graceful, hardAbort>>

(* One iteration up to its LLM call: what is pending is injected.  After     *)
(* the first iteration the messages the last LLM call left in exec are       *)
(* appended to the local copy.                                               *)
Polls == iteration = 0 /\ ~continuation
ToInject ==
    CASE iteration > 0 -> pending \o execPending
      [] Polls -> pending \o Batch(queue)
      [] OTHER -> pending

Iterate ==
    /\ Moves("iterate", "llm")
    /\ iteration' = iteration + 1
    /\ retry' = 0
    /\ queue' = IF Polls THEN Rest(queue) ELSE queue
    /\ Add(Steered(ToInject))
    /\ pending' = <<>>
    /\ execPending' = <<>>
    /\ terminal' = (graceful = "requested")
    /\ graceful' = IF graceful = "requested" THEN "used" ELSE graceful
    /\ UNCHANGED <<status, toolVars, hardAbort>>

(* CallLLM.  A call fails once the abort has cancelled its context; an       *)
(* answer may have come in just before.                                      *)
LLMAnswers ==
    /\ Moves("llm", "answered")
    /\ ~hardAbort
    /\ UNCHANGED <<status, llmVars, queue, pending, execPending, storeVars,
                   toolVars, graceful, hardAbort>>

LLMCancelled ==
    /\ Moves("llm", "restore")
    /\ hardAbort
    /\ UNCHANGED <<status, llmVars, queue, pending, execPending, storeVars,
                   toolVars, graceful, hardAbort>>

(* A failed call ends the turn in error, as does a hook that aborts it       *)
(* before or after the call; a transient failure is retried after a pause.   *)
LLMFails ==
    /\ \E from \in {"llm", "answered"} : Ends(from, "error")
    /\ UNCHANGED <<llmVars, queue, pending, execPending, storeVars, toolVars,
                   graceful, hardAbort>>

LLMTransient ==
    /\ Moves("llm", "backoff")
    /\ ~hardAbort
    /\ retry < MaxRetries
    /\ UNCHANGED <<status, llmVars, queue, pending, execPending, storeVars,
                   toolVars, graceful, hardAbort>>

BackoffUncounted ==
    /\ Moves("backoff", "llm")
    /\ UNCHANGED <<status, llmVars, queue, pending, execPending, storeVars,
                   toolVars, graceful, hardAbort>>

(* The abort wakes the sleeper, which breaks off the call without marking it *)
(* aborted: the turn is finalized.                                           *)
Backoff ==
    /\ \/ Moves("backoff", "llm") /\ retry' = retry + 1
       \/ Moves("backoff", "finalize") /\ hardAbort /\ UNCHANGED retry
    /\ UNCHANGED <<iteration, terminal, status, queue, pending, execPending,
                   storeVars, toolVars, graceful, hardAbort>>

(* The context window is exceeded: the stored history is compressed and the  *)
(* messages are built from it again, less what it takes to fit, but with     *)
(* what the turn itself has stored; if that does not fit the call fails.     *)
ContextOverflow ==
    /\ Moves("llm", "llm")
    /\ ~hardAbort
    /\ retry < MaxRetries
    /\ retry' = retry + 1
    /\ history' = Compressed(history)
    /\ restorePoint' = WithoutTurn(history', persisted)
    /\ \E t \in Trims(restorePoint') : messages' = t \o TurnTail(history', persisted)
    /\ UNCHANGED <<iteration, terminal, status, queue, pending, execPending,
                   persisted, toolVars, graceful, hardAbort>>

(* A hook's hard abort, before or after an LLM call or a tool. *)
HookHardAborts ==
    /\ \E from \in {"llm", "answered", "approve", "append"} : Moves(from, "restore")
    /\ hardAbort' = TRUE
    /\ UNCHANGED <<status, llmVars, queue, pending, execPending, storeVars,
                   toolVars, graceful>>

(* An answer without tool calls, or to the call that offered none: steering  *)
(* that arrived meanwhile keeps the turn going, its answer is dropped.       *)
DirectAnswer ==
    /\ \/ Moves("answered", "guard") /\ queue # <<>>
       \/ Moves("answered", "finalize") /\ queue = <<>>
    /\ execPending' = execPending \o Batch(queue)
    /\ pending' = execPending'
    /\ queue' = Rest(queue)
    /\ UNCHANGED <<status, llmVars, storeVars, toolVars, graceful, hardAbort>>

ToolCalls(n) ==
    /\ Moves("answered", "tool")
    /\ ~terminal
    /\ Add(<<Msg("calls", iteration, n)>>)
    /\ calls' = n /\ next' = 1 /\ handled' = TRUE
    /\ pending' = execPending
    /\ UNCHANGED <<status, llmVars, queue, execPending, graceful, hardAbort>>

LLM == \/ LLMAnswers \/ LLMCancelled \/ LLMFails \/ LLMTransient \/ Backoff
       \/ ContextOverflow \/ DirectAnswer \/ \E n \in 1 .. MaxCalls : ToolCalls(n)

-----------------------------------------------------------------------------
(* ExecuteTools. *)

ToolResult(i) == Msg("tool", iteration, i)

NextToolOneOver ==
    /\ \/ Moves("tool", "approve") /\ ~hardAbort /\ next <= calls + 1
       \/ Moves("tool", "restore") /\ hardAbort /\ next <= calls
       \/ Moves("tool", "afterTools") /\ next > calls + 1
    /\ UNCHANGED <<status, llmVars, queue, pending, execPending, storeVars,
                   toolVars, graceful, hardAbort>>

NextTool ==
    /\ \/ Moves("tool", "approve") /\ ~hardAbort /\ next <= calls
       \/ Moves("tool", "restore") /\ hardAbort /\ next <= calls
       \/ Moves("tool", "afterTools") /\ next > calls
    /\ UNCHANGED <<status, llmVars, queue, pending, execPending, storeVars,
                   toolVars, graceful, hardAbort>>

(* The turn's profile, a hook or an approval denies the call: it gets a      *)
(* result that says so, and the next call follows without a poll.            *)
ToolDenied ==
    /\ Moves("approve", "tool")
    /\ Add(<<ToolResult(next)>>)
    /\ next' = next + 1
    /\ handled' = FALSE
    /\ UNCHANGED <<status, llmVars, queue, pending, execPending, calls,
                   graceful, hardAbort>>

(* The tool runs, or a hook responds in its place. *)
ToolStarts ==
    /\ \/ Moves("approve", "running")
       \/ Moves("approve", "append")
    /\ UNCHANGED <<status, llmVars, queue, pending, execPending, storeVars,
                   toolVars, graceful, hardAbort>>

ToolReturns ==
    /\ \/ Moves("running", "append") /\ ~hardAbort
       \/ Moves("running", "restore") /\ hardAbort
    /\ UNCHANGED <<status, llmVars, queue, pending, execPending, storeVars,
                   toolVars, graceful, hardAbort>>

ToolHookAborts ==
    /\ \E from \in {"approve", "append"} : Ends(from, "error")
    /\ UNCHANGED <<llmVars, queue, pending, execPending, storeVars, toolVars,
                   graceful, hardAbort>>

(* The result is stored and steering polled.  Pending steering or an         *)
(* interrupt skips the calls that remain: each gets a result that says so.   *)
SkipUnanswered ==
    /\ Moves("append", "afterTools")
    /\ execPending' = execPending \o Batch(queue)
    /\ queue' = Rest(queue)
    /\ execPending' # <<>> \/ graceful = "requested"
    /\ Add(<<ToolResult(next)>>)
    /\ next' = calls + 1
    /\ \E reply \in BOOLEAN : handled' = (handled /\ reply)
    /\ UNCHANGED <<status, llmVars, pending, calls, graceful, hardAbort>>

Skip ==
    /\ Moves("append", "afterTools")
    /\ execPending' = execPending \o Batch(queue)
    /\ queue' = Rest(queue)
    /\ execPending' # <<>> \/ graceful = "requested"
    /\ Add([i \in 1 .. calls - next + 1 |-> ToolResult(next + i - 1)])
    /\ next' = calls + 1
    /\ \E reply \in BOOLEAN : handled' = (handled /\ reply)
    /\ UNCHANGED <<status, llmVars, pending, calls, graceful, hardAbort>>

ToolAnswered ==
    /\ Moves("append", "tool")
    /\ execPending = <<>> /\ queue = <<>> /\ graceful # "requested"
    /\ Add(<<ToolResult(next)>>)
    /\ next' = next + 1
    /\ \E reply \in BOOLEAN : handled' = (handled /\ reply)
    /\ UNCHANGED <<status, llmVars, queue, pending, execPending, calls,
                   graceful, hardAbort>>

(* After the tools: one more poll; the turn goes on unless every result was  *)
(* delivered to the user by its tool.                                        *)
ToolsContinue ==
    /\ Moves("afterTools", "guard")
    /\ execPending' = IF execPending # <<>> THEN execPending ELSE Batch(queue)
    /\ queue' = IF execPending # <<>> THEN queue ELSE Rest(queue)
    /\ handled' = FALSE
    /\ execPending' # <<>> \/ ~handled
    /\ UNCHANGED <<status, llmVars, pending, storeVars, calls, next, graceful, hardAbort>>

ToolsHandled ==
    /\ Moves("afterTools", "handled")
    /\ execPending = <<>> /\ queue = <<>> /\ handled
    /\ Add(<<Msg("assistant", iteration, 1)>>)
    /\ UNCHANGED <<status, llmVars, queue, pending, execPending, toolVars,
                   graceful, hardAbort>>

Tools == \/ NextTool \/ ToolDenied \/ ToolStarts \/ ToolReturns \/ ToolHookAborts
         \/ Skip \/ ToolAnswered \/ ToolsContinue \/ ToolsHandled

-----------------------------------------------------------------------------
(* The end of the turn. *)

(* Finalize stores the answer whatever was requested meanwhile; its save may *)
(* fail.  Delivered tool output is checked for an abort once more.           *)
Finalize ==
    /\ \E s \in {"completed", "error"} : Ends("finalize", s)
    /\ Add(<<Msg("assistant", iteration, 0)>>)
    /\ UNCHANGED <<llmVars, queue, pending, execPending, toolVars, graceful, hardAbort>>

FinalizeHandled ==
    /\ \/ Moves("handled", "restore") /\ hardAbort /\ UNCHANGED status
       \/ Ends("handled", "completed") /\ ~hardAbort
    /\ UNCHANGED <<llmVars, queue, pending, execPending, storeVars, toolVars,
                   graceful, hardAbort>>

(* abortTurn: the restore point replaces the history; its save may fail. *)
RestoreKept ==
    /\ \E s \in {"aborted", "error"} : Ends("restore", s)
    /\ UNCHANGED <<llmVars, queue, pending, execPending, storeVars, toolVars,
                   graceful, hardAbort>>

Restore ==
    /\ \E s \in {"aborted", "error"} : Ends("restore", s)
    /\ history' = restorePoint
    /\ UNCHANGED <<llmVars, queue, pending, execPending, messages, persisted,
                   restorePoint, toolVars, graceful, hardAbort>>

Step == \/ StartAborted \/ Setup \/ Guard \/ Iterate \/ LLM \/ Tools
        \/ HookHardAborts \/ Finalize \/ FinalizeHandled \/ Restore

Over ==
    /\ pc = "done" /\ stop \in {"none", "done"} /\ sent = NumSteering
    /\ UNCHANGED turnVars

TurnNext == SteeringArrives \/ Interrupt \/ Stop \/ Step \/ Over

TurnSpec == TurnInit /\ [][TurnNext]_turnVars

(* The LLM and the tools answer or fail: each call carries a timeout.        *)
FairTurnSpec == TurnSpec /\ WF_turnVars(Step)

-----------------------------------------------------------------------------
(* Properties. *)

TurnTypeOK ==
    /\ pc \in {"start", "guard", "iterate", "llm", "backoff", "answered", "tool", "approve",
              "running", "append", "afterTools", "handled", "finalize", "restore",
              "done"}
    /\ status \in {"running", "completed", "error", "aborted"}
    /\ status = "running" <=> pc # "done"
    /\ iteration \in Nat /\ retry \in 0 .. MaxRetries
    /\ sent \in 0 .. NumSteering
    /\ \A q \in {queue, pending, execPending} : q \in Seq(1 .. NumSteering)
    /\ \A h \in {messages, history, persisted, restorePoint, stopRead} :
           h \in Seq(ProviderMessages)
    /\ calls \in 0 .. MaxCalls /\ next \in 0 .. MaxCalls + 1
    /\ graceful \in {"no", "requested", "used"}
    /\ {continuation, handled, terminal, hardAbort} \subseteq BOOLEAN
    /\ stop \in {"none", "loaded", "requested", "read", "done"}

(* Every tool call of an assistant message is answered, in order and at once, *)
(* by one result each, and there is no other result.                          *)
WellPaired(h) ==
    \A i \in DOMAIN h :
        /\ h[i].role = "calls" =>
              \A k \in 1 .. h[i].k :
                  i + k <= Len(h) /\ h[i + k] = Msg("tool", h[i].n, k)
        /\ h[i].role = "tool" =>
              /\ i > h[i].k
              /\ LET c == h[i - h[i].k] IN
                   c.role = "calls" /\ c.n = h[i].n /\ h[i].k <= c.k

(* What the LLM is sent, and what a completed turn leaves in the store, pairs *)
(* calls and results, whatever was denied, skipped or compressed away.        *)
CallsAnswered ==
    ~hardAbort =>
        /\ pc = "llm" => WellPaired(messages)
        /\ status = "completed" => WellPaired(history)

(* A steering message the turn took from the queue is part of the turn when   *)
(* it completes: none is dropped at the iteration limit, after an answer or   *)
(* between two tools.                                                         *)
Injected(m) == \E i \in DOMAIN persisted : persisted[i] = Msg("user", m, 0)
Taken == {m \in 1 .. sent : \A i \in DOMAIN queue : queue[i] # m}
TakenIsInjected ==
    status = "completed" /\ stop = "none" => \A m \in Taken : Injected(m)

(* A turn that ends aborted leaves the history as it found it, whichever of   *)
(* its own and HardAbort's roll-back comes last.                              *)
AbortedIsRolledBack ==
    status = "aborted" /\ stop \in {"none", "done"} /\ restorePoint = Old =>
        history = Old

(* The turn ends, however often the LLM asks for tools, fails or is steered.  *)
TurnEnds == <>(pc = "done")

(* "Clear exec.pendingMessages after injection so InitialSteeringMessages are *)
(* not re-injected on subsequent iterations": no steering message is injected *)
(* twice.                                                                     *)
InjectedOnce ==
    \A i, j \in DOMAIN persisted :
        i # j /\ persisted[i].role = "user" => persisted[i] # persisted[j]

(* "The root turn's session history rolls back to the snapshot taken at turn  *)
(* start ... preventing dirty context": after a hard abort nothing of the     *)
(* turn is left in the history.  The code does not keep this (an abort during *)
(* a retry's pause, or of a turn that has its answer), and no run checks it.  *)
StopRollsBack ==
    stop = "done" /\ pc = "done" /\ status # "error" => history = Old

=============================================================================
