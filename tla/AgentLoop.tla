------------------------------ MODULE AgentLoop ------------------------------
(***************************************************************************)
(* The agent loop's dispatcher (pkg/agent: agent.go, agent_steering.go,    *)
(* steering.go, agent_stop.go, turn_state.go).  One goroutine, Run, reads  *)
(* the inbound channel in order.  A message whose session is free claims   *)
(* the session in activeTurnStates and starts a worker goroutine; one      *)
(* whose session is taken goes to that session's steering queue, or, when  *)
(* it is /stop, stops what runs there.  A worker takes a slot of           *)
(* workerSem, runs one turn for its own message, then drains the steering  *)
(* queue with continuation turns, gives the slot back and cleans up.       *)
(*                                                                         *)
(* A worker is named by the message it was started for.  What a turn does  *)
(* inside (LLM calls, tools, history) is the subject of Turn.tla; here it  *)
(* polls the steering queue and ends: answered, aborted, in error, or in a *)
(* panic that the worker recovers.                                         *)
(***************************************************************************)
EXTENDS SteeringQueue, Naturals, FiniteSets

CONSTANTS
    Sessions,       \* session keys that inbound messages are routed to
    MainSession,    \* the key system messages run under, never routed to
    NumMessages,    \* bound: inbound messages of a behaviour
    MaxParallel,    \* capacity of workerSem (max_parallel_turns)
    MaxQueueSize,   \* capacity of one session's steering queue
    PanicPoints,    \* worker steps at which the code called may panic
    MayCancel       \* whether Run's context may end before Run does

ASSUME LoopAssumption ==
    /\ MainSession \notin Sessions
    /\ NumMessages \in Nat
    /\ MaxParallel \in Nat \ {0}
    /\ MaxQueueSize \in Nat \ {0}
    /\ SteeringMode \in {"one-at-a-time", "all"}
    /\ PanicPoints \subseteq {"processing", "turn", "contSetup", "contTurn"}
    /\ MayCancel \in BOOLEAN

VARIABLES
    received,      \* how many messages Run has taken from the inbound channel
    kind,          \* kind[m]: what message m is, known once it is received
    session,       \* session[m]: the key resolveSteeringTarget gives it
    fate,          \* fate[m]: where m is, or what became of it
    main,          \* what Run's goroutine is doing
    active,        \* activeTurnStates: session key -> entry
    worker,        \* worker[m]: where the worker started for m is
    seen,          \* seen[m]: the entry m's deferred cleanup has loaded
    workerSem,     \* the workers that hold a slot
    steering,      \* steering[s]: the queue of session s
    pendingStops,  \* the sessions with an armed stop
    hardAborted,   \* the workers whose current turn is told to abort
    emptied,       \* the /stop that Run handles has cleared messages of the queue
    cancelled      \* Run's context is done

vars == <<received, kind, session, fate, main, active, worker, seen,
          workerSem, steering, pendingStops, hardAborted, emptied, cancelled>>

-----------------------------------------------------------------------------
Messages == 1 .. NumMessages
Keys == Sessions \union {MainSession}
RoutedKinds == {"chat", "command", "stop"}

(* A pointer stored in activeTurnStates.  A worker stores one placeholder   *)
(* ("pending"), and then, one after the other, a placeholder for each       *)
(* Continue ("continue") and a turn ("turn"), each gone before the next, so *)
(* owner and kind identify the pointer.  Both placeholders' turn IDs start  *)
(* with "pending-".                                                         *)
Entry(m, k) == [owner |-> m, kind |-> k]
NoEntry == [owner |-> 0, kind |-> "none"]
Entries == {NoEntry} \union
           [owner : Messages, kind : {"pending", "continue", "turn"}]
IsPending(e) == e.kind \in {"pending", "continue"}

QueuedIn(s) == {steering[s][i] : i \in DOMAIN steering[s]}

InBatch(m, s) == \E i \in DOMAIN Batch(steering[s]) : Batch(steering[s])[i] = m

Init ==
    /\ received = 0
    /\ kind = [m \in Messages |-> "unknown"]
    /\ session = [m \in Messages |-> MainSession]
    /\ fate = [m \in Messages |-> "inbound"]
    /\ main = "idle"
    /\ active = [s \in Keys |-> NoEntry]
    /\ worker = [m \in Messages |-> "none"]
    /\ seen = [m \in Messages |-> NoEntry]
    /\ workerSem = {}
    /\ steering = [s \in Keys |-> <<>>]
    /\ pendingStops = {}
    /\ hardAborted = {}
    /\ emptied = FALSE
    /\ cancelled = FALSE

-----------------------------------------------------------------------------
(* Run's goroutine.  The message it handles is the last one received. *)

Take(k, s) ==
    /\ main = "idle"
    /\ received < NumMessages
    /\ received' = received + 1
    /\ kind' = [kind EXCEPT ![received + 1] = k]
    /\ session' = [session EXCEPT ![received + 1] = s]
    /\ UNCHANGED <<seen, workerSem, steering, pendingStops, hardAborted, emptied, cancelled>>

(* A system message is processed by Run itself: its turn is registered under *)
(* the main session's key and the receive loop waits for its end.            *)
ReceiveSystem ==
    /\ Take("system", MainSession)
    /\ main' = "system"
    /\ active' = [active EXCEPT ![MainSession] = Entry(received + 1, "turn")]
    /\ fate' = [fate EXCEPT ![received + 1] = "taken"]
    /\ UNCHANGED worker

SystemTurnEnds ==
    /\ main = "system"
    /\ main' = "idle"
    /\ active' = [active EXCEPT ![MainSession] = NoEntry]
    /\ UNCHANGED <<received, kind, session, fate, worker, seen, workerSem,
                   steering, pendingStops, hardAborted, emptied, cancelled>>

(* LoadOrStore stores the placeholder: the session is claimed. *)
ReceiveClaim(k, s) ==
    /\ Take(k, s)
    /\ active[s] = NoEntry
    /\ active' = [active EXCEPT ![s] = Entry(received + 1, "pending")]
    /\ worker' = [worker EXCEPT ![received + 1] = "semWait"]
    /\ fate' = [fate EXCEPT ![received + 1] = "claimed"]
    /\ UNCHANGED main

(* LoadOrStore finds an entry: /stop is handled at once, anything else is   *)
(* prepared (an audio message is transcribed here) and then enqueued.       *)
ReceiveBusy(k, s) ==
    /\ Take(k, s)
    /\ active[s] # NoEntry
    /\ main' = IF k = "stop" THEN "stopClear" ELSE "preparing"
    /\ fate' = [fate EXCEPT ![received + 1] = "handled"]
    /\ UNCHANGED <<active, worker>>

Enqueue ==
    /\ main = "preparing"
    /\ main' = "idle"
    /\ LET s == session[received] IN
         \/ /\ Len(steering[s]) < MaxQueueSize
            /\ steering' = [steering EXCEPT ![s] = Append(@, received)]
            /\ fate' = [fate EXCEPT ![received] = "queued"]
         \/ /\ Len(steering[s]) >= MaxQueueSize
            /\ fate' = [fate EXCEPT ![received] = "dropped"]
            /\ UNCHANGED steering
    /\ UNCHANGED <<received, kind, session, active, worker, seen, workerSem,
                   pendingStops, hardAborted, emptied, cancelled>>

(* /stop, one step per look at the shared state. *)
ClearedEverywhere(s) ==
    /\ steering' = [t \in Keys |-> <<>>]
    /\ fate' = [m \in Messages |-> IF \E t \in Keys : m \in QueuedIn(t)
                                   THEN "cleared" ELSE fate[m]]

Cleared(s) ==
    /\ steering' = [steering EXCEPT ![s] = <<>>]
    /\ fate' = [m \in Messages |-> IF m \in QueuedIn(s) THEN "cleared" ELSE fate[m]]

StopClear ==
    /\ main = "stopClear"
    /\ main' = "stopLook"
    /\ emptied' = (steering[session[received]] # <<>>)
    /\ Cleared(session[received])
    /\ UNCHANGED <<received, kind, session, active, worker, seen, workerSem,
                   pendingStops, hardAborted, cancelled>>

(* A /stop that found no turn has stopped something if it cleared the queue, *)
(* and else the caller looks for a placeholder once more.                    *)
NothingRan == IF emptied THEN "idle" ELSE "stopRecheck"

StopLook ==
    /\ main = "stopLook"
    /\ LET e == active[session[received]] IN
         main' = CASE e = NoEntry -> NothingRan
                   [] IsPending(e) -> "stopRecheck"
                   [] OTHER -> "stopAbort"
    /\ UNCHANGED <<received, kind, session, fate, active, worker, seen, workerSem,
                   steering, pendingStops, hardAborted, emptied, cancelled>>

(* HardAbort loads the entry again and refuses one that is gone or pending. *)
StopAbortUnchecked ==
    /\ main = "stopAbort"
    /\ main' = "idle"
    /\ hardAborted' = hardAborted \union {active[session[received]].owner}
    /\ UNCHANGED <<received, kind, session, fate, active, worker, seen, workerSem,
                   steering, pendingStops, emptied, cancelled>>

StopAbort ==
    /\ main = "stopAbort"
    /\ LET e == active[session[received]] IN
         \/ /\ e.kind = "turn"
            /\ main' = "idle"
            /\ hardAborted' = hardAborted \union {e.owner}
         \/ /\ e.kind # "turn"
            /\ main' = "stopRefused"
            /\ UNCHANGED hardAborted
    /\ UNCHANGED <<received, kind, session, fate, active, worker, seen, workerSem,
                   steering, pendingStops, emptied, cancelled>>

(* HardAbort's error is passed on when an entry is there, even a new one.   *)
StopRefused ==
    /\ main = "stopRefused"
    /\ main' = IF active[session[received]] = NoEntry THEN NothingRan ELSE "idle"
    /\ UNCHANGED <<received, kind, session, fate, active, worker, seen, workerSem,
                   steering, pendingStops, hardAborted, emptied, cancelled>>

StopRecheck ==
    /\ main = "stopRecheck"
    /\ main' = IF IsPending(active[session[received]]) THEN "stopArm" ELSE "idle"
    /\ UNCHANGED <<received, kind, session, fate, active, worker, seen, workerSem,
                   steering, pendingStops, hardAborted, emptied, cancelled>>

StopArm ==
    /\ main = "stopArm"
    /\ main' = "idle"
    /\ pendingStops' = pendingStops \union {session[received]}
    /\ UNCHANGED <<received, kind, session, fate, active, worker, seen, workerSem,
                   steering, hardAborted, emptied, cancelled>>

(* The context is cancelled, or Stop is called: Run returns when it is idle. *)
Cancel ==
    /\ MayCancel /\ ~cancelled
    /\ cancelled' = TRUE
    /\ UNCHANGED <<received, kind, session, fate, main, active, worker, seen,
                   workerSem, steering, pendingStops, hardAborted, emptied>>

RunReturns ==
    /\ main = "idle"
    /\ main' = "exited"
    /\ UNCHANGED <<received, kind, session, fate, active, worker, seen, workerSem,
                   steering, pendingStops, hardAborted, emptied, cancelled>>

MainStep == \/ SystemTurnEnds \/ Enqueue
            \/ StopClear \/ StopLook \/ StopAbort \/ StopRefused
            \/ StopRecheck \/ StopArm

-----------------------------------------------------------------------------
(* The worker started for message m. *)

Goes(m, from, to) ==
    /\ worker[m] = from
    /\ worker' = [worker EXCEPT ![m] = to]
    /\ UNCHANGED <<received, kind, session, main, emptied, cancelled>>

AcquireSlotOneOver(m) ==
    /\ Goes(m, "semWait", "starting")
    /\ Cardinality(workerSem) <= MaxParallel
    /\ workerSem' = workerSem \union {m}
    /\ UNCHANGED <<fate, active, seen, steering, pendingStops, hardAborted>>

AcquireSlot(m) ==
    /\ Goes(m, "semWait", "starting")
    /\ Cardinality(workerSem) < MaxParallel
    /\ workerSem' = workerSem \union {m}
    /\ UNCHANGED <<fate, active, seen, steering, pendingStops, hardAborted>>

(* The context ends the wait: the session's entry is deleted, whosever it is. *)
GiveUpWaiting(m) ==
    /\ Goes(m, "semWait", "done")
    /\ cancelled
    /\ active' = [active EXCEPT ![session[m]] = NoEntry]
    /\ fate' = [fate EXCEPT ![m] = "cancelled"]
    /\ UNCHANGED <<seen, workerSem, steering, pendingStops, hardAborted>>

(* takePendingStop before the turn: an armed stop skips the message; then   *)
(* the entry is deleted, whosever it is, and the drain loop begins.         *)
TakeStop(m) ==
    /\ Goes(m, "starting", "skipping")
    /\ session[m] \in pendingStops
    /\ pendingStops' = pendingStops \ {session[m]}
    /\ fate' = [fate EXCEPT ![m] = "stopped"]
    /\ UNCHANGED <<active, seen, workerSem, steering, hardAborted>>

SkipMessage(m) ==
    /\ Goes(m, "skipping", "drain")
    /\ active' = [active EXCEPT ![session[m]] = NoEntry]
    /\ UNCHANGED <<fate, seen, workerSem, steering, pendingStops, hardAborted>>

Start(m) ==
    /\ Goes(m, "starting", "processing")
    /\ session[m] \notin pendingStops
    /\ UNCHANGED <<fate, active, seen, workerSem, steering, pendingStops, hardAborted>>

(* A slash command is answered without a turn; /stop that claimed its own   *)
(* session clears the queue, and aborts a turn if it finds one.             *)
RunCommand(m) ==
    /\ Goes(m, "processing", "drain")
    /\ kind[m] \in {"command", "stop"}
    /\ LET s == session[m] IN
         \/ /\ kind[m] = "stop"
            /\ Cleared(s)
            /\ hardAborted' = IF active[s].kind = "turn"
                              THEN hardAborted \union {active[s].owner} ELSE hardAborted
         \/ /\ kind[m] = "command"
            /\ UNCHANGED <<fate, steering, hardAborted>>
    /\ UNCHANGED <<active, seen, workerSem, pendingStops>>

(* processMessage fails before a turn exists; the error is published. *)
SetupFails(m) ==
    /\ Goes(m, "processing", "drain")
    /\ fate' = [fate EXCEPT ![m] = "failed"]
    /\ UNCHANGED <<active, seen, workerSem, steering, pendingStops, hardAborted>>

(* runTurn begins: registerActiveTurn stores the turn over whatever is      *)
(* there, and an armed stop becomes a hard abort of this turn.              *)
Register(m) ==
    LET s == session[m] IN
    /\ active' = [active EXCEPT ![s] = Entry(m, "turn")]
    /\ pendingStops' = pendingStops \ {s}
    /\ hardAborted' = IF s \in pendingStops THEN hardAborted \union {m} ELSE hardAborted \ {m}

BeginTurn(m) ==
    /\ Goes(m, "processing", "turn")
    /\ kind[m] = "chat"
    /\ Register(m)
    /\ fate' = [fate EXCEPT ![m] = "taken"]
    /\ UNCHANGED <<seen, workerSem, steering>>

TakeBatchTwice(m) ==
    LET s == session[m] IN
    /\ steering[s] # <<>>
    /\ fate' = [x \in Messages |-> IF InBatch(x, s) THEN "taken" ELSE fate[x]]
    /\ UNCHANGED steering

TakeBatch(m) ==
    LET s == session[m] IN
    /\ steering[s] # <<>>
    /\ steering' = [steering EXCEPT ![s] = Rest(@)]
    /\ fate' = [x \in Messages |-> IF InBatch(x, s) THEN "taken" ELSE fate[x]]

(* A poll inside the turn takes messages; one that finds none lets the turn *)
(* finish its answer.                                                       *)
PollTakes(m) ==
    \E pc \in {"turn", "contTurn"} :
      /\ Goes(m, pc, pc)
      /\ TakeBatch(m)
      /\ UNCHANGED <<active, seen, workerSem, pendingStops, hardAborted>>

PollEmpty(m) ==
    /\ \/ Goes(m, "turn", "finalize")
       \/ Goes(m, "contTurn", "contFinalize")
    /\ steering[session[m]] = <<>>
    /\ UNCHANGED <<fate, active, seen, workerSem, steering, pendingStops, hardAborted>>

(* clearActiveTurn, deferred by runTurn: deletes the entry only if it is    *)
(* still this turn's.                                                       *)
Cleanup(m, e) ==
    LET s == session[m] IN
    active' = IF active[s] = e THEN [active EXCEPT ![s] = NoEntry] ELSE active

EndTurnNoClear(m) ==
    /\ hardAborted' = hardAborted \ {m}
    /\ UNCHANGED <<active, fate, seen, workerSem, steering, pendingStops>>

EndTurn(m) ==
    /\ Cleanup(m, Entry(m, "turn"))
    /\ hardAborted' = hardAborted \ {m}
    /\ UNCHANGED <<fate, seen, workerSem, steering, pendingStops>>

(* After its first turn a worker drains the queue however the turn ended.   *)
(* After a continuation turn it goes on only with a non-empty answer: an    *)
(* abort, an error and an answer a tool already delivered end the loop.     *)
FinishTurn(m) ==
    /\ \/ Goes(m, "finalize", "drain")
       \/ Goes(m, "contFinalize", "drain")
       \/ Goes(m, "contFinalize", "exit")
    /\ EndTurn(m)

AbortTurn(m) ==
    /\ \/ Goes(m, "turn", "drain")
       \/ Goes(m, "contTurn", "exit")
    /\ m \in hardAborted
    /\ EndTurn(m)

TurnFails(m) ==
    /\ \/ Goes(m, "turn", "drain")
       \/ Goes(m, "contTurn", "exit")
    /\ EndTurn(m)

(* drainQueuedSteeringContinuations: the loop's condition, then Continue.   *)
DrainCheck(m) ==
    /\ \/ Goes(m, "drain", "contClaim") /\ steering[session[m]] # <<>> /\ ~cancelled
       \/ Goes(m, "drain", "exit") /\ (steering[session[m]] = <<>> \/ cancelled)
    /\ UNCHANGED <<fate, active, seen, workerSem, steering, pendingStops, hardAborted>>

ContinueClaim(m) ==
    LET s == session[m] IN
    /\ \/ /\ Goes(m, "contClaim", "contDequeue")
          /\ active[s] = NoEntry
          /\ active' = [active EXCEPT ![s] = Entry(m, "continue")]
       \/ /\ Goes(m, "contClaim", "exit")      \* "turn ... is still active"
          /\ active[s] # NoEntry
          /\ UNCHANGED active
    /\ UNCHANGED <<fate, seen, workerSem, steering, pendingStops, hardAborted>>

ContinueDequeue(m) ==
    LET s == session[m] IN
    /\ \/ /\ Goes(m, "contDequeue", "contSetup")
          /\ TakeBatch(m)
          /\ UNCHANGED active
       \/ /\ Goes(m, "contDequeue", "exit")
          /\ steering[s] = <<>>
          /\ active' = [active EXCEPT ![s] = NoEntry]
          /\ UNCHANGED <<fate, steering>>
    /\ UNCHANGED <<seen, workerSem, pendingStops, hardAborted>>

(* Before the continuation's turn exists: no agent for the session (the     *)
(* entry is deleted), or the turn's profile does not resolve (it is not).   *)
ContinueFails(m) ==
    /\ Goes(m, "contSetup", "exit")
    /\ \/ active' = [active EXCEPT ![session[m]] = NoEntry]
       \/ UNCHANGED active
    /\ UNCHANGED <<fate, seen, workerSem, steering, pendingStops, hardAborted>>

ContinueTurn(m) ==
    /\ Goes(m, "contSetup", "contTurn")
    /\ Register(m)
    /\ UNCHANGED <<fate, seen, workerSem, steering>>

ReleaseSlotUnlessPanic(m) ==
    /\ \/ Goes(m, "exit", "observe") /\ workerSem' = workerSem \ {m}
       \/ Goes(m, "panic", "recovered") /\ UNCHANGED workerSem
    /\ UNCHANGED <<fate, active, seen, steering, pendingStops, hardAborted>>

(* The worker's deferred calls, last first: the slot, recover, the cleanup. *)
ReleaseSlot(m) ==
    /\ \/ Goes(m, "exit", "observe")
       \/ Goes(m, "panic", "recovered")
    /\ workerSem' = workerSem \ {m}
    /\ UNCHANGED <<fate, active, seen, steering, pendingStops, hardAborted>>

(* Normal return: an entry whose turn ID starts with "pending-" is taken    *)
(* for the worker's own placeholder, never replaced by a turn.              *)
NoSafetyNet(m) ==
    /\ Goes(m, "observe", "done")
    /\ UNCHANGED <<fate, active, seen, workerSem, steering, pendingStops, hardAborted>>

CleanupObserve(m) ==
    LET e == active[session[m]] IN
    /\ \/ Goes(m, "observe", "cleanup") /\ IsPending(e) /\ seen' = [seen EXCEPT ![m] = e]
       \/ Goes(m, "observe", "done") /\ ~IsPending(e) /\ UNCHANGED seen
    /\ UNCHANGED <<fate, active, workerSem, steering, pendingStops, hardAborted>>

CleanupRelease(m) ==
    /\ Goes(m, "cleanup", "done")
    /\ Cleanup(m, seen[m])
    /\ UNCHANGED <<fate, seen, workerSem, steering, pendingStops, hardAborted>>

(* A panic: a turn's own deferred clearActiveTurn runs, then the worker's   *)
(* deferred calls; the recovering path removes only its own placeholder.    *)
Panic(m) ==
    /\ \E pc \in PanicPoints : Goes(m, pc, "panic")
    /\ EndTurn(m)

PanicCleanup(m) ==
    /\ Goes(m, "recovered", "done")
    /\ Cleanup(m, Entry(m, "pending"))
    /\ UNCHANGED <<fate, seen, workerSem, steering, pendingStops, hardAborted>>

Worker(m) ==
    \/ AcquireSlot(m) \/ GiveUpWaiting(m) \/ TakeStop(m) \/ SkipMessage(m) \/ Start(m)
    \/ RunCommand(m) \/ SetupFails(m) \/ BeginTurn(m)
    \/ PollTakes(m) \/ PollEmpty(m) \/ FinishTurn(m) \/ AbortTurn(m) \/ TurnFails(m)
    \/ DrainCheck(m) \/ ContinueClaim(m) \/ ContinueDequeue(m)
    \/ ContinueFails(m) \/ ContinueTurn(m)
    \/ ReleaseSlot(m) \/ CleanupObserve(m) \/ CleanupRelease(m)
    \/ Panic(m) \/ PanicCleanup(m)

Terminated ==
    /\ main = "exited"
    /\ \A m \in Messages : worker[m] \in {"none", "done"}
    /\ UNCHANGED vars

Next ==
    \/ ReceiveSystem
    \/ \E k \in RoutedKinds, s \in Sessions : ReceiveClaim(k, s) \/ ReceiveBusy(k, s)
    \/ MainStep
    \/ Cancel
    \/ RunReturns
    \/ \E m \in Messages : Worker(m)
    \/ Terminated

Spec == Init /\ [][Next]_vars

(* Goroutines are scheduled and a turn's calls return (they carry timeouts). *)
(* Nothing obliges a message to arrive, a context to end or Run to return.   *)
Fairness == WF_vars(MainStep) /\ \A m \in Messages : WF_vars(Worker(m))
FairSpec == Spec /\ Fairness

-----------------------------------------------------------------------------
(* Properties.                                                             *)

MainPCs == {"idle", "system", "preparing", "stopClear", "stopLook", "stopAbort",
            "stopRefused", "stopRecheck", "stopArm", "exited"}
WorkerPCs == {"none", "semWait", "starting", "skipping", "processing", "turn", "finalize",
              "drain", "contClaim", "contDequeue", "contSetup", "contTurn",
              "contFinalize", "exit", "observe", "cleanup", "panic", "recovered",
              "done"}
Fates == {"inbound", "claimed", "handled", "taken", "queued", "dropped", "cleared",
          "stopped", "failed", "cancelled"}

TypeOK ==
    /\ received \in 0 .. NumMessages
    /\ kind \in [Messages -> RoutedKinds \union {"system", "unknown"}]
    /\ session \in [Messages -> Keys]
    /\ fate \in [Messages -> Fates]
    /\ main \in MainPCs
    /\ main \notin {"idle", "exited"} => received \in Messages
    /\ active \in [Keys -> Entries]
    /\ worker \in [Messages -> WorkerPCs]
    /\ seen \in [Messages -> Entries]
    /\ workerSem \subseteq Messages
    /\ steering \in [Keys -> Seq(Messages)]
    /\ pendingStops \subseteq Keys
    /\ hardAborted \subseteq Messages
    /\ emptied \in BOOLEAN
    /\ cancelled \in BOOLEAN

TurnPCs == {"turn", "finalize", "contTurn", "contFinalize"}
InTurn(m) == worker[m] \in TurnPCs
HoldsSlot(m) == worker[m] \in WorkerPCs \ {"none", "semWait", "observe", "cleanup",
                                          "recovered", "done"}

(* Every entry of activeTurnStates belongs to a goroutine that will still   *)
(* remove it: the owner of a placeholder has not passed its cleanup, the    *)
(* owner of a turn is in that turn.  An entry without such an owner would   *)
(* make every later message of the session steering that nobody reads.      *)
MayHold(e, pc) ==
    CASE e.kind = "pending" ->
             pc \in {"semWait", "starting", "skipping", "processing", "drain", "contClaim",
                    "exit", "observe", "cleanup", "panic", "recovered"}
      [] e.kind = "continue" -> pc \in {"contDequeue", "contSetup", "exit", "observe", "cleanup"}
      [] OTHER -> pc \in TurnPCs
OwnerRemoves(e, s) ==
    \/ s = MainSession /\ main = "system" /\ e = Entry(received, "turn")
    \/ /\ s \in Sessions
       /\ session[e.owner] = s
       /\ MayHold(e, worker[e.owner])
       /\ worker[e.owner] = "cleanup" => seen[e.owner] = e
ClaimHasOwner == \A s \in Keys : active[s] # NoEntry => OwnerRemoves(active[s], s)

(* At most MaxParallel workers run turns at once, whatever panics, stops    *)
(* and cancellations do to them: a slot is given back exactly once.         *)
SlotsBounded ==
    /\ workerSem = {m \in Messages : HoldsSlot(m)}
    /\ Cardinality({m \in Messages : InTurn(m)}) <= MaxParallel

(* A message is in its own session's steering queue, once, from the moment  *)
(* it is enqueued until one turn takes it or a /stop clears it.             *)
QueuedOnce ==
    \A m \in Messages, s \in Keys :
        /\ m \in QueuedIn(s) => session[m] = s /\ fate[m] = "queued"
        /\ fate[m] = "queued" /\ session[m] = s => m \in QueuedIn(s)
        /\ \A i, j \in DOMAIN steering[s] :
              steering[s][i] = steering[s][j] => i = j

(* What /stop does reaches its own session only: Run clears a queue, arms a *)
(* stop or aborts a turn of the session the /stop was sent in.              *)
StopIsScoped ==
    [][\A m \in Messages :
         /\ fate[m] = "queued" /\ fate'[m] = "cleared" =>
              \/ main = "stopClear" /\ session[received] = session[m]
              \/ \E w \in Messages : worker[w] = "processing" /\ kind[w] = "stop"
                                     /\ session[w] = session[m]
         /\ m \notin hardAborted /\ m \in hardAborted' =>
              \E w \in Messages : kind[w] = "stop" /\ session[w] = session[m]
         /\ \A s \in pendingStops' \ pendingStops :
              main = "stopArm" /\ session[received] = s]_vars

(* Every worker started comes to its end and gives its slot back.           *)
WorkersFinish == \A m \in Messages : worker[m] = "semWait" ~> worker[m] = "done"

(* No session stays taken for ever.                                         *)
SessionFreed == \A s \in Keys : active[s] # NoEntry ~> active[s] = NoEntry

(* "Messages from the same session are strictly serialized": two workers of *)
(* one session are never in a turn at the same time.                        *)
Serialized ==
    \A m, n \in Messages :
        m # n /\ InTurn(m) /\ InTurn(n) => session[m] # session[n]

(* "It will be picked up by the existing worker's steering drain loop": once *)
(* nothing runs for a session, nothing is left in its queue.                *)
NothingStranded ==
    \A s \in Sessions :
        /\ main \in {"idle", "exited"}
        /\ ~cancelled
        /\ \A m \in Messages : session[m] = s => worker[m] \in {"none", "done"}
        => steering[s] = <<>>

=============================================================================
