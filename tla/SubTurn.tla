------------------------------ MODULE SubTurn ------------------------------
(***************************************************************************)
(* Sub-turns (pkg/agent: subturn.go, turn_state.go Finish, steering.go     *)
(* HardAbort): the tree of turns below one root turn.  A tool of a running *)
(* turn calls spawnSubTurn, synchronously (subagent, delegate) or from a   *)
(* goroutine of its own (spawn).  The call takes a slot of the parent's    *)
(* semaphore, registers the child's turn, links it to its parent, runs it  *)
(* on a context that is NOT derived from the parent's, gives the slot back *)
(* and, when asynchronous, sends the result to the parent's pendingResults *)
(* channel, which the parent polls.                                        *)
(*                                                                         *)
(* A root turn's turnState has no channel, no semaphore and no reference   *)
(* to the agent loop (al): only spawnSubTurn sets these.  No turn calls    *)
(* Finish when it ends by itself; HardAbort alone does.                    *)
(*                                                                         *)
(* What a turn does between its calls and polls is the subject of Turn.tla *)
(* and left out here.                                                      *)
(***************************************************************************)
EXTENDS Naturals, Sequences, FiniteSets

CONSTANTS
    NumSpawns,      \* bound: calls of spawnSubTurn in a behaviour
    RootSpawns,     \* bound: how many of them the root turn makes
    MaxDepth,       \* subturn.max_depth
    MaxConcurrent,  \* subturn.max_concurrent, capacity of concurrencySem
    ResultCap,      \* capacity of pendingResults (16 in the code)
    Targets         \* the turns HardAbort may be called for

Root == 0
Subs == 1 .. NumSpawns
Turns == {Root} \union Subs

ASSUME SubTurnAssumption ==
    /\ NumSpawns \in Nat
    /\ RootSpawns \in Nat
    /\ MaxDepth \in Nat
    /\ MaxConcurrent \in Nat \ {0}
    /\ ResultCap \in Nat \ {0}
    /\ Targets \subseteq Turns

VARIABLES
    spawned,     \* calls so far: 1 .. spawned
    pc,          \* pc[t]: where the turn, or the call that makes it, is
    parent,      \* parent[c]: parentTurnState
    async,       \* the calls with Async = true
    depth,       \* depth[t]
    sem,         \* sem[t]: the calls that hold a slot of t's concurrencySem
    registered,  \* the turns in activeTurnStates
    children,    \* children[t]: t's childTurnIDs
    results,     \* results[t]: t's pendingResults channel
    panicked,    \* the calls whose turn panicked: their result is nil
    outcome,     \* outcome[c]: what became of c's result
    finished,    \* the turns Finish was called on: channel closed, context done
    abort,       \* HardAbort: "idle", "cascading" or "done"
    target,      \* the turn HardAbort was called for
    toFinish,    \* the turns HardAbort's cascade has still to visit
    doomed       \* the target's children when the abort was requested

spawnVars == <<spawned, parent, async, depth>>
abortVars == <<finished, abort, target, toFinish, doomed>>
vars == <<pc, spawnVars, sem, registered, children, results, panicked, outcome,
          abortVars>>

-----------------------------------------------------------------------------
(* A synchronous call blocks the tool, and so the turn, that made it. *)
Blocked(t) ==
    \E c \in 1 .. spawned : parent[c] = t /\ c \notin async /\ pc[c] # "done"
Acts(t) == pc[t] = "running" /\ ~Blocked(t)

(* The context a call was made with: it ends with the parent's turn. *)
ContextDone(t) == pc[t] # "running" \/ t \in finished

Init ==
    /\ spawned = 0
    /\ pc = [t \in Turns |-> IF t = Root THEN "running" ELSE "none"]
    /\ parent = [c \in Subs |-> Root]
    /\ async = {}
    /\ depth = [t \in Turns |-> 0]
    /\ sem = [t \in Turns |-> {}]
    /\ registered = {Root}
    /\ children = [t \in Turns |-> {}]
    /\ results = [t \in Turns |-> <<>>]
    /\ panicked = {}
    /\ outcome = [c \in Subs |-> "none"]
    /\ finished = {} /\ abort = "idle" /\ target = Root
    /\ toFinish = {} /\ doomed = {}

-----------------------------------------------------------------------------
(* A turn's own steps. *)

(* A tool of turn p calls spawnSubTurn; the root has no semaphore. *)
Spawn(p, a) ==
    LET c == spawned + 1 IN
    /\ Acts(p)
    /\ spawned < NumSpawns
    /\ p = Root => Cardinality({d \in 1 .. spawned : parent[d] = Root}) < RootSpawns
    /\ spawned' = c
    /\ pc' = [pc EXCEPT ![c] = IF p = Root THEN "admitted" ELSE "semWait"]
    /\ parent' = [parent EXCEPT ![c] = p]
    /\ async' = IF a THEN async \union {c} ELSE async
    /\ UNCHANGED <<depth, sem, registered, children, results, panicked, outcome,
                   abortVars>>

(* pendingResults is polled before an LLM call and between tools; a nil      *)
(* result is skipped.                                                        *)
Poll(t) ==
    /\ Acts(t)
    /\ results[t] # <<>>
    /\ results' = [results EXCEPT ![t] = Tail(@)]
    /\ outcome' = [outcome EXCEPT ![Head(results[t])] = "read"]
    /\ UNCHANGED <<pc, spawnVars, sem, registered, children, panicked, abortVars>>

(* clearActiveTurn unregisters a root. *)
RootEnds ==
    /\ Acts(Root)
    /\ pc' = [pc EXCEPT ![Root] = "done"]
    /\ registered' = registered \ {Root}
    /\ UNCHANGED <<spawnVars, sem, children, results, panicked, outcome, abortVars>>

-----------------------------------------------------------------------------
(* The call c of spawnSubTurn. *)

Goes(c, from, to) ==
    /\ pc[c] = from
    /\ pc' = [pc EXCEPT ![c] = to]
    /\ UNCHANGED <<spawned, parent, async, abortVars>>

TakesSlot(c) == sem' = [sem EXCEPT ![parent[c]] = @ \union {c}]
GivesSlotBack(c) == sem' = [sem EXCEPT ![parent[c]] = @ \ {c}]

AcquireUnlessOver(c) ==
    /\ Goes(c, "semWait", "admitted")
    /\ Cardinality(sem[parent[c]]) <= MaxConcurrent
    /\ TakesSlot(c)
    /\ UNCHANGED <<depth, registered, children, results, panicked, outcome>>

Acquire(c) ==
    /\ Goes(c, "semWait", "admitted")
    /\ Cardinality(sem[parent[c]]) < MaxConcurrent
    /\ TakesSlot(c)
    /\ UNCHANGED <<depth, registered, children, results, panicked, outcome>>

(* The wait times out, or the context it was made with is done. *)
GiveUp(c) ==
    /\ Goes(c, "semWait", "done")
    /\ Cardinality(sem[parent[c]]) = MaxConcurrent \/ ContextDone(parent[c])
    /\ UNCHANGED <<depth, sem, registered, children, results, panicked, outcome>>

(* The depth limit, a configuration without a model or an unknown agent. *)
TooDeepOneOff(c) == depth[parent[c]] > MaxDepth
TooDeep(c) == depth[parent[c]] >= MaxDepth

Refuse(c) ==
    /\ Goes(c, "admitted", "done")
    /\ GivesSlotBack(c)
    /\ UNCHANGED <<depth, registered, children, results, panicked, outcome>>

(* The turn is stored in activeTurnStates, and then linked to its parent. *)
Register(c) ==
    /\ Goes(c, "admitted", "registered")
    /\ ~TooDeep(c)
    /\ depth' = [depth EXCEPT ![c] = depth[parent[c]] + 1]
    /\ registered' = registered \union {c}
    /\ UNCHANGED <<sem, children, results, panicked, outcome>>

Link(c) ==
    /\ Goes(c, "registered", "running")
    /\ children' = [children EXCEPT ![parent[c]] = @ \union {c}]
    /\ UNCHANGED <<depth, sem, registered, results, panicked, outcome>>

(* runTurn returns, by itself, in error or cancelled, and unregisters the     *)
(* turn (clearActiveTurn).  The slot is given back before the result is      *)
(* delivered.                                                                *)
TurnReturns(c) ==
    /\ Acts(c)
    /\ Goes(c, "running", IF c \in async THEN "deliver" ELSE "close")
    /\ registered' = registered \ {c}
    /\ UNCHANGED <<depth, children, results, outcome>>

EndHoldingSlot(c) == TurnReturns(c) /\ UNCHANGED <<sem, panicked>>

End(c) == TurnReturns(c) /\ GivesSlotBack(c) /\ UNCHANGED panicked

(* A panic skips that: the slot is given back by the last deferred call,     *)
(* and the delivery sends nil.                                               *)
Panic(c) ==
    /\ TurnReturns(c)
    /\ panicked' = panicked \union {c}
    /\ UNCHANGED sem

(* deliverSubTurnResult looks at the parent, then sends.  A finished parent, *)
(* or one without a channel, makes the result an orphan.                     *)
DeliverLook(c) ==
    /\ \/ /\ Goes(c, "deliver", "close")
          /\ parent[c] = Root \/ parent[c] \in finished
          /\ outcome' = [outcome EXCEPT ![c] = "orphan"]
       \/ /\ Goes(c, "deliver", "send")
          /\ parent[c] # Root /\ parent[c] \notin finished
          /\ UNCHANGED outcome
    /\ UNCHANGED <<depth, sem, registered, children, results, panicked>>

(* The send and the parent's Finished() are awaited together.  A send on the *)
(* channel Finish closed panics, which is recovered: an orphan as well.      *)
DeliverSendForgets(c) ==
    /\ Goes(c, "send", "close")
    /\ IF parent[c] \in finished
       THEN UNCHANGED <<results, outcome>>
       ELSE /\ Len(results[parent[c]]) < ResultCap
            /\ results' = [results EXCEPT ![parent[c]] = Append(@, c)]
            /\ outcome' = [outcome EXCEPT ![c] = "sent"]
    /\ UNCHANGED <<depth, sem, registered, children, panicked>>

DeliverSend(c) ==
    /\ Goes(c, "send", "close")
    /\ \/ /\ parent[c] \notin finished
          /\ Len(results[parent[c]]) < ResultCap
          /\ results' = [results EXCEPT ![parent[c]] = Append(@, c)]
          /\ outcome' = [outcome EXCEPT ![c] = "sent"]
       \/ /\ parent[c] \in finished
          /\ outcome' = [outcome EXCEPT ![c] = "orphan"]
          /\ UNCHANGED results
    /\ UNCHANGED <<depth, sem, registered, children, panicked>>

(* The remaining deferred calls: a second delete of the entry, the context,  *)
(* a slot still held.                                                        *)
Close(c) ==
    /\ Goes(c, "close", "done")
    /\ registered' = registered \ {c}
    /\ GivesSlotBack(c)
    /\ UNCHANGED <<depth, children, results, panicked, outcome>>

Call(c) ==
    \/ Acquire(c) \/ GiveUp(c) \/ Refuse(c) \/ Register(c) \/ Link(c)
    \/ End(c) \/ Panic(c) \/ DeliverLook(c) \/ DeliverSend(c) \/ Close(c)

-----------------------------------------------------------------------------
(* HardAbort(t): Finish(true), which goes on to the children of a turn that  *)
(* knows the agent loop, each looked up in activeTurnStates.                 *)

HardAbort(t) ==
    /\ abort = "idle"
    /\ t \in Targets \intersect registered
    /\ abort' = "cascading"
    /\ target' = t
    /\ toFinish' = {t}
    /\ doomed' = children[t] \intersect registered
    /\ UNCHANGED <<finished, pc, spawnVars, sem, registered, children, results,
                   panicked, outcome>>

FinishAlone(t) ==
    /\ t \in toFinish
    /\ finished' = finished \union {t}
    /\ toFinish' = toFinish \ {t}
    /\ UNCHANGED <<abort, target, doomed, pc, spawnVars, sem, registered,
                   children, results, panicked, outcome>>

Finish(t) ==
    /\ t \in toFinish
    /\ \/ /\ t = target \/ t \in registered
          /\ finished' = finished \union {t}
          /\ toFinish' = (toFinish \ {t}) \union
                         (IF t = Root THEN {} ELSE children[t])
       \/ /\ t # target /\ t \notin registered
          /\ toFinish' = toFinish \ {t}
          /\ UNCHANGED finished
    /\ UNCHANGED <<abort, target, doomed, pc, spawnVars, sem, registered,
                   children, results, panicked, outcome>>

HardAbortReturns ==
    /\ abort = "cascading" /\ toFinish = {}
    /\ abort' = "done"
    /\ UNCHANGED <<finished, target, toFinish, doomed, pc, spawnVars, sem,
                   registered, children, results, panicked, outcome>>

Over ==
    /\ pc[Root] = "done"
    /\ \A c \in Subs : pc[c] \in {"none", "done", "send"}
    /\ abort # "cascading"
    /\ UNCHANGED vars

Next ==
    \/ \E p \in Turns, a \in BOOLEAN : Spawn(p, a)
    \/ \E t \in Turns : Poll(t) \/ HardAbort(t) \/ Finish(t)
    \/ RootEnds
    \/ \E c \in Subs : Call(c)
    \/ HardAbortReturns
    \/ Over

Spec == Init /\ [][Next]_vars

(* A call's waits carry timeouts and a turn ends (Turn.tla, TurnEnds). *)
FairSpec ==
    /\ Spec
    /\ WF_vars(RootEnds) /\ WF_vars(HardAbortReturns)
    /\ \A t \in Turns : WF_vars(Finish(t))
    /\ \A c \in Subs : WF_vars(Call(c))

-----------------------------------------------------------------------------
(* Properties. *)

TypeOK ==
    /\ spawned \in 0 .. NumSpawns
    /\ pc \in [Turns -> {"none", "semWait", "admitted", "registered", "running",
                         "deliver", "send", "close", "done"}]
    /\ parent \in [Subs -> Turns]
    /\ async \subseteq Subs /\ panicked \subseteq Subs
    /\ depth \in [Turns -> 0 .. MaxDepth]
    /\ sem \in [Turns -> SUBSET Subs]
    /\ children \in [Turns -> SUBSET Subs]
    /\ results \in [Turns -> Seq(Subs)]
    /\ outcome \in [Subs -> {"none", "sent", "read", "orphan"}]
    /\ registered \subseteq Turns /\ finished \subseteq Turns
    /\ abort \in {"idle", "cascading", "done"}
    /\ target \in Turns /\ toFinish \subseteq Turns /\ doomed \subseteq Subs

(* No sub-turn has more than MaxConcurrent children between their admission  *)
(* and the end of their turn, and a slot is held by nobody else: not by a    *)
(* result that waits to be delivered, unless its turn panicked.              *)
SlotsBounded ==
    \A t \in Subs :
        /\ sem[t] = {c \in 1 .. spawned :
                       /\ parent[c] = t
                       /\ \/ pc[c] \in {"admitted", "registered", "running"}
                          \/ c \in panicked /\ pc[c] # "done"}
        /\ Cardinality(sem[t]) <= MaxConcurrent

(* The result of an asynchronous call is in its parent's channel, read or an *)
(* orphan, and in one of these only; that of a synchronous call never is.    *)
Held(c, t) == {i \in DOMAIN results[t] : results[t][i] = c}
ResultOnce ==
    \A c \in Subs :
        /\ \A t \in Turns : Cardinality(Held(c, t)) =
               (IF outcome[c] = "sent" /\ parent[c] = t THEN 1 ELSE 0)
        /\ c \in async /\ pc[c] = "close" => outcome[c] # "none"
        /\ c \notin async => outcome[c] = "none"

(* A hard abort of a sub-turn has reached each child it had, or the child is *)
(* over.                                                                     *)
AbortReachesChildren ==
    abort = "done" /\ target # Root => doomed \intersect registered \subseteq finished

(* A slot is given back even if the parent never reads its results again,    *)
(* which a call holding it through its delivery would wait for.              *)
SlotFreed ==
    \A c \in Subs :
        (\E t \in Turns : c \in sem[t])
            ~> (c \in panicked \/ \A t \in Turns : c \notin sem[t])

(* "A cascading cancellation is triggered, instantly terminating all child   *)
(* and grandchild sub-turns": once /stop has aborted a root turn, the        *)
(* children it had are cancelled or over.                                    *)
StopCascades ==
    abort = "done" => doomed \intersect registered \subseteq finished

(* "If the parent turn finishes while we are waiting to send the result ...  *)
(* we don't leak this goroutine by blocking forever": no delivery waits for  *)
(* ever.  The code does not keep this (nothing closes the channel of a parent *)
(* that ends by itself), and no run checks it.                               *)
DeliveryEnds == \A c \in Subs : pc[c] = "send" ~> pc[c] # "send"

=============================================================================
