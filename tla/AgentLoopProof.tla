--------------------------- MODULE AgentLoopProof ---------------------------
(* What is proved of AgentLoop for every number of sessions, messages,     *)
(* slots and queue places.                                                 *)
EXTENDS AgentLoop, FiniteSetTheorems, SequenceTheorems, TLAPS

(* A message not received yet has no worker, and a worker's session is a   *)
(* routed one: no worker ever touches the main session's entry.            *)
Fresh ==
    \A m \in Messages :
        /\ m > received => worker[m] = "none"
        /\ worker[m] # "none" => session[m] \in Sessions

USE LoopAssumption DEF Messages, Keys, RoutedKinds

-----------------------------------------------------------------------------
(* Rest(q) is a queue of messages again. *)
LEMMA RestType ==
    ASSUME NEW q \in Seq(Messages), q # <<>>
    PROVE  Rest(q) \in Seq(Messages)
  <1>1. Tail(q) \in Seq(Messages)
    BY HeadTailProperties
  <1>2. <<>> \in Seq(Messages)
    OBVIOUS
  <1>3. QED
    BY <1>1, <1>2 DEF Rest

(* A pointer a worker stores is an entry. *)
LEMMA EntryType ==
    /\ NoEntry \in Entries
    /\ \A m \in Messages, k \in {"pending", "continue", "turn"} : Entry(m, k) \in Entries
  BY DEF Entries, Entry, NoEntry

LEMMA EntryOwner ==
    ASSUME NEW e \in Entries, e.kind # "none"
    PROVE  e.owner \in Messages
  BY DEF Entries, NoEntry

LEMMA TypeInit == Init => TypeOK
  <1> SUFFICES ASSUME Init PROVE TypeOK
    OBVIOUS
  <1>1. <<>> \in Seq(Messages)
    OBVIOUS
  <1>2. steering \in [Keys -> Seq(Messages)]
    BY <1>1 DEF Init
  <1>3. active \in [Keys -> Entries] /\ seen \in [Messages -> Entries]
    BY EntryType DEF Init
  <1>4. /\ kind \in [Messages -> RoutedKinds \union {"system", "unknown"}]
        /\ session \in [Messages -> Keys]
        /\ fate \in [Messages -> Fates]
        /\ worker \in [Messages -> WorkerPCs]
    BY DEF Init, Fates, WorkerPCs
  <1>5. /\ received \in 0 .. NumMessages
        /\ main = "idle"
        /\ workerSem = {} /\ pendingStops = {} /\ hardAborted = {}
        /\ emptied = FALSE /\ cancelled = FALSE
    BY DEF Init
  <1>6. QED
    BY <1>2, <1>3, <1>4, <1>5 DEF TypeOK, MainPCs

LEMMA TypeMain ==
    ASSUME TypeOK,
           \/ ReceiveSystem
           \/ \E k \in RoutedKinds, s \in Sessions : ReceiveClaim(k, s) \/ ReceiveBusy(k, s)
           \/ MainStep \/ Cancel \/ RunReturns
    PROVE  TypeOK'
  <1> USE EntryType, EntryOwner DEF TypeOK, MainPCs, WorkerPCs, Fates
  <1>1. CASE ReceiveSystem
    BY <1>1 DEF ReceiveSystem, Take
  <1>2. CASE \E k \in RoutedKinds, s \in Sessions : ReceiveClaim(k, s) \/ ReceiveBusy(k, s)
    <2>1. PICK k \in RoutedKinds, s \in Sessions : ReceiveClaim(k, s) \/ ReceiveBusy(k, s)
      BY <1>2
    <2>2. CASE ReceiveClaim(k, s)
      <3>1. received + 1 \in Messages /\ received' = received + 1
        BY <2>2 DEF ReceiveClaim, Take
      <3>2. active' \in [Keys -> Entries]
        BY <2>2, <3>1, EntryType DEF ReceiveClaim
      <3>3. /\ worker' \in [Messages -> WorkerPCs]
            /\ fate' \in [Messages -> Fates]
            /\ UNCHANGED <<main, seen, workerSem, steering, pendingStops, hardAborted,
                           emptied, cancelled>>
        BY <2>2, <3>1 DEF ReceiveClaim, Take
      <3>4. /\ kind' \in [Messages -> RoutedKinds \union {"system", "unknown"}]
            /\ session' \in [Messages -> Keys]
        BY <2>2, <3>1 DEF ReceiveClaim, Take
      <3>5. /\ received' \in 0 .. NumMessages
            /\ main' \notin {"idle", "exited"} => received' \in Messages
        BY <3>1, <3>3, LoopAssumption DEF Messages
      <3>6. /\ main' \in MainPCs
            /\ seen' \in [Messages -> Entries] /\ workerSem' \subseteq Messages
            /\ steering' \in [Keys -> Seq(Messages)] /\ pendingStops' \subseteq Keys
            /\ hardAborted' \subseteq Messages /\ emptied' \in BOOLEAN /\ cancelled' \in BOOLEAN
        BY <3>3
      <3> HIDE DEF MainPCs, WorkerPCs, Fates, Messages
      <3>7. QED
        BY <3>2, <3>3, <3>4, <3>5, <3>6
    <2>3. CASE ReceiveBusy(k, s)
      BY <2>3 DEF ReceiveBusy, Take
    <2>4. QED
      BY <2>1, <2>2, <2>3
  <1>3. CASE SystemTurnEnds
    BY <1>3 DEF SystemTurnEnds
  <1>4. CASE Enqueue
    <2>1. received \in Messages /\ session[received] \in Keys
      BY <1>4 DEF Enqueue
    <2>2. steering' \in [Keys -> Seq(Messages)]
      <3>1. Append(steering[session[received]], received) \in Seq(Messages)
        BY <2>1, AppendProperties DEF TypeOK
      <3>2. QED
        <4> DEFINE s == session[received]
                   q == Append(steering[s], received)
        <4>1. steering' = [steering EXCEPT ![s] = q] \/ steering' = steering
          BY <1>4 DEF Enqueue
        <4>2. steering \in [Keys -> Seq(Messages)]
          BY DEF TypeOK
        <4> HIDE DEF s, q, Keys, Messages, TypeOK
        <4>3. q \in Seq(Messages)
          BY <3>1 DEF q, s
        <4>4. QED
          BY <4>1, <4>2, <4>3
    <2>3. fate' \in [Messages -> Fates]
      BY <1>4, <2>1 DEF Enqueue
    <2>4. QED
      BY <1>4, <2>2, <2>3 DEF Enqueue
  <1>5. CASE StopClear
    BY <1>5 DEF StopClear, Cleared
  <1>6. CASE StopLook
    BY <1>6 DEF StopLook, NothingRan, IsPending
  <1>7. CASE StopAbort
    BY <1>7 DEF StopAbort
  <1>8. CASE StopRefused \/ StopRecheck
    BY <1>8 DEF StopRefused, NothingRan, StopRecheck, NothingRan
  <1>9. CASE StopArm
    BY <1>9 DEF StopArm
  <1>10. CASE Cancel \/ RunReturns
    BY <1>10 DEF Cancel, RunReturns
  <1>11. QED
    BY <1>1, <1>2, <1>3, <1>4, <1>5, <1>6, <1>7, <1>8, <1>9, <1>10 DEF MainStep

(* A worker's step keeps the types when each variable it may change does. *)
LEMMA TypeStep ==
    ASSUME TypeOK,
           UNCHANGED <<received, kind, session, main, emptied, cancelled>>,
           fate' \in [Messages -> Fates],
           active' \in [Keys -> Entries],
           worker' \in [Messages -> WorkerPCs],
           seen' \in [Messages -> Entries],
           workerSem' \subseteq Messages,
           steering' \in [Keys -> Seq(Messages)],
           pendingStops' \subseteq Keys,
           hardAborted' \subseteq Messages
    PROVE  TypeOK'
  BY DEF TypeOK

(* A step of a worker leaves these variables in their types. *)
LEMMA GoesType ==
    ASSUME TypeOK, NEW m \in Messages, NEW from, NEW to \in WorkerPCs, Goes(m, from, to)
    PROVE  /\ UNCHANGED <<received, kind, session, main, emptied, cancelled>>
           /\ worker' \in [Messages -> WorkerPCs]
  BY DEF TypeOK, Goes

LEMMA TypeWorker ==
    ASSUME TypeOK, NEW m \in Messages, Worker(m)
    PROVE  TypeOK'
  <1>0. /\ session[m] \in Keys
        /\ UNCHANGED <<received, kind, session, main, emptied, cancelled>>
        /\ worker' \in [Messages -> WorkerPCs]
    <2>1. PICK from, to \in WorkerPCs : Goes(m, from, to)
      BY DEF Worker, AcquireSlot, GiveUpWaiting, TakeStop, SkipMessage, Start, RunCommand,
             SetupFails,
           BeginTurn, PollTakes, PollEmpty, FinishTurn, AbortTurn, TurnFails, DrainCheck,
           ContinueClaim, ContinueDequeue, ContinueFails, ContinueTurn, ReleaseSlot,
           CleanupObserve, CleanupRelease, Panic, PanicCleanup, WorkerPCs, TypeOK
    <2>2. QED
      BY <2>1, GoesType DEF TypeOK
  <1>a. /\ fate \in [Messages -> Fates]
        /\ active \in [Keys -> Entries]
        /\ seen \in [Messages -> Entries]
        /\ workerSem \subseteq Messages
        /\ steering \in [Keys -> Seq(Messages)]
        /\ pendingStops \subseteq Keys
        /\ hardAborted \subseteq Messages
    BY DEF TypeOK
  <1> USE <1>0, <1>a, EntryType DEF Fates
  <1> HIDE DEF Messages, Keys
  <1>1. CASE AcquireSlot(m)
    BY <1>1, TypeStep DEF AcquireSlot
  <1>2. CASE GiveUpWaiting(m)
    BY <1>2, TypeStep DEF GiveUpWaiting
  <1>3. CASE TakeStop(m) \/ SkipMessage(m)
    BY <1>3, TypeStep DEF TakeStop, SkipMessage
  <1>4. CASE Start(m)
    BY <1>4, TypeStep DEF Start
  <1>5. CASE RunCommand(m)
    <2>1. CASE Cleared(session[m])
      <3>1. steering' \in [Keys -> Seq(Messages)] /\ fate' \in [Messages -> Fates]
        BY <2>1, EmptySeq DEF Cleared
      <3>2. active[session[m]].kind = "turn" => active[session[m]].owner \in Messages
        BY EntryOwner
      <3>3. hardAborted' \subseteq Messages
        BY <1>5, <3>2 DEF RunCommand
      <3>4. QED
        BY <1>5, <3>1, <3>3, TypeStep DEF RunCommand
    <2>2. CASE UNCHANGED <<fate, steering, hardAborted>>
      BY <1>5, <2>2, TypeStep DEF RunCommand
    <2>3. QED
      BY <1>5, <2>1, <2>2 DEF RunCommand
  <1>6. CASE SetupFails(m)
    BY <1>6, TypeStep DEF SetupFails
  <1>7. CASE BeginTurn(m)
    BY <1>7, TypeStep DEF BeginTurn, Register
  <1>8. CASE PollTakes(m)
    <2>1. steering' \in [Keys -> Seq(Messages)] /\ fate' \in [Messages -> Fates]
      BY <1>8, RestType DEF PollTakes, TakeBatch
    <2>2. QED
      BY <1>8, <2>1, TypeStep DEF PollTakes
  <1>9. CASE PollEmpty(m)
    BY <1>9, TypeStep DEF PollEmpty
  <1>10. CASE FinishTurn(m)
    BY <1>10, TypeStep DEF FinishTurn, EndTurn, Cleanup
  <1>11. CASE AbortTurn(m)
    BY <1>11, TypeStep DEF AbortTurn, EndTurn, Cleanup
  <1>12. CASE TurnFails(m)
    BY <1>12, TypeStep DEF TurnFails, EndTurn, Cleanup
  <1>13. CASE DrainCheck(m)
    BY <1>13, TypeStep DEF DrainCheck
  <1>14. CASE ContinueClaim(m)
    BY SMTT(40), <1>14, TypeStep DEF ContinueClaim
  <1>15. CASE ContinueDequeue(m)
    <2>1. steering' \in [Keys -> Seq(Messages)] /\ fate' \in [Messages -> Fates]
      <3>1. CASE TakeBatch(m)
        BY <3>1, RestType DEF TakeBatch
      <3>2. QED
        BY <1>15, <3>1 DEF ContinueDequeue
    <2>2. active' \in [Keys -> Entries]
      BY <1>15 DEF ContinueDequeue
    <2>3. QED
      BY <1>15, <2>1, <2>2, TypeStep DEF ContinueDequeue
  <1>16. CASE ContinueFails(m)
    BY SMTT(40), <1>16, TypeStep DEF ContinueFails
  <1>17. CASE ContinueTurn(m)
    BY <1>17, TypeStep DEF ContinueTurn, Register
  <1>18. CASE ReleaseSlot(m)
    BY <1>18, TypeStep DEF ReleaseSlot
  <1>19. CASE CleanupObserve(m)
    BY <1>19, TypeStep DEF CleanupObserve, IsPending
  <1>20. CASE CleanupRelease(m)
    BY <1>20, TypeStep DEF CleanupRelease, Cleanup
  <1>21. CASE Panic(m)
    BY <1>21, TypeStep DEF Panic, EndTurn, Cleanup
  <1>22. CASE PanicCleanup(m)
    BY <1>22, TypeStep DEF PanicCleanup, Cleanup
  <1>23. QED
    BY <1>1, <1>2, <1>3, <1>4, <1>5, <1>6, <1>7, <1>8, <1>9, <1>10, <1>11, <1>12, <1>13, <1>14,
         <1>15, <1>16, <1>17, <1>18, <1>19, <1>20, <1>21, <1>22 DEF Worker

(* Every variable stays in its type. *)
THEOREM TypeCorrect == Spec => []TypeOK
  <1>1. TypeOK /\ [Next]_vars => TypeOK'
    <2> SUFFICES ASSUME TypeOK, [Next]_vars PROVE TypeOK'
      OBVIOUS
    <2>1. CASE \E m \in Messages : Worker(m)
      BY <2>1, TypeWorker
    <2>2. CASE Terminated \/ UNCHANGED vars
      BY <2>2 DEF TypeOK, Terminated, vars
    <2>3. QED
      BY <2>1, <2>2, TypeMain DEF Next
  <1>2. QED
    BY TypeInit, <1>1, PTL DEF Spec

-----------------------------------------------------------------------------
LEMMA FreshInit == Init => Fresh
  BY DEF Init, Fresh

LEMMA FreshMain ==
    ASSUME TypeOK, Fresh,
           \/ ReceiveSystem
           \/ \E k \in RoutedKinds, s \in Sessions : ReceiveClaim(k, s) \/ ReceiveBusy(k, s)
           \/ MainStep \/ Cancel \/ RunReturns
    PROVE  Fresh'
  <1> USE DEF TypeOK, Fresh
  <1>1. CASE ReceiveSystem
    BY <1>1 DEF ReceiveSystem, Take
  <1>2. CASE \E k \in RoutedKinds, s \in Sessions : ReceiveClaim(k, s) \/ ReceiveBusy(k, s)
    <2>1. PICK k \in RoutedKinds, s \in Sessions : ReceiveClaim(k, s) \/ ReceiveBusy(k, s)
      BY <1>2
    <2>2. CASE ReceiveClaim(k, s)
      BY <2>2 DEF ReceiveClaim, Take
    <2>3. CASE ReceiveBusy(k, s)
      BY <2>3 DEF ReceiveBusy, Take
    <2>4. QED
      BY <2>1, <2>2, <2>3
  <1>3. CASE MainStep \/ Cancel \/ RunReturns
    BY <1>3 DEF MainStep, SystemTurnEnds, Enqueue, StopClear, StopLook, StopAbort, StopRefused,
                StopRecheck, StopArm, Cancel, RunReturns
  <1>4. QED
    BY <1>1, <1>2, <1>3

(* Only a worker that exists takes a step. *)
LEMMA WorkerGoes ==
    ASSUME TypeOK, NEW m \in Messages, Worker(m)
    PROVE  \E from \in WorkerPCs \ {"none"}, to \in WorkerPCs \ {"none"} : Goes(m, from, to)
  BY DEF Worker, AcquireSlot, GiveUpWaiting, TakeStop, SkipMessage, Start, RunCommand,
         SetupFails,
       BeginTurn, PollTakes, PollEmpty, FinishTurn, AbortTurn, TurnFails, DrainCheck,
       ContinueClaim, ContinueDequeue, ContinueFails, ContinueTurn, ReleaseSlot, CleanupObserve,
       CleanupRelease, Panic, PanicCleanup, WorkerPCs, TypeOK

LEMMA FreshWorker ==
    ASSUME TypeOK, Fresh, NEW m \in Messages, Worker(m)
    PROVE  Fresh'
  BY WorkerGoes DEF Fresh, TypeOK, Goes

-----------------------------------------------------------------------------
(* What a worker's step does to the entry of its own session. *)
Kept(m) ==
    LET s == session[m]  e == active'[s] IN
    e # NoEntry =>
        \/ e = active[s] /\ e.owner # m
        \/ /\ e.owner = m
           /\ MayHold(e, worker'[m])
           /\ worker'[m] = "cleanup" => seen'[m] = e

(* A worker's step that touches no other worker and no other session keeps *)
(* ClaimHasOwner when it keeps the entry of its own session.               *)
LEMMA ClaimStep ==
    ASSUME TypeOK, Fresh, ClaimHasOwner, NEW m \in Messages,
           session[m] \in Sessions,
           active' \in [Keys -> Entries],
           UNCHANGED <<received, session, main>>,
           \A x \in Messages \ {m} : worker'[x] = worker[x] /\ seen'[x] = seen[x],
           \A s \in Keys \ {session[m]} : active'[s] = active[s],
           Kept(m)
    PROVE  ClaimHasOwner'
  <1> SUFFICES ASSUME NEW s \in Keys, active'[s] # NoEntry
               PROVE  OwnerRemoves(active[s], s)'
    BY DEF ClaimHasOwner
  <1> DEFINE e == active'[s]
  <1>1. e.owner \in Messages
    BY DEF Entries, NoEntry
  <1>2. CASE s = session[m]
    <2>1. CASE e.owner = m
      BY <1>2, <2>1 DEF Kept, OwnerRemoves
    <2>2. CASE e.owner # m
      <3>1. e = active[s] /\ OwnerRemoves(e, s)
        BY <1>2, <2>2 DEF Kept, ClaimHasOwner
      <3>2. QED
        BY <1>1, <2>2, <3>1 DEF OwnerRemoves
    <2>3. QED
      BY <2>1, <2>2
  <1>3. CASE s # session[m]
    <2>1. e = active[s] /\ OwnerRemoves(e, s)
      BY <1>3 DEF ClaimHasOwner
    <2>2. QED
      BY <1>1, <1>3, <2>1 DEF OwnerRemoves
  <1>4. QED
    BY <1>2, <1>3

LEMMA ClaimWorker ==
    ASSUME TypeOK, Fresh, ClaimHasOwner, "contSetup" \notin PanicPoints,
           NEW m \in Messages, Worker(m)
    PROVE  ClaimHasOwner'
  <1>0. TypeOK'
    BY TypeWorker
  <1>a. PICK from \in WorkerPCs \ {"none"}, to \in WorkerPCs \ {"none"} : Goes(m, from, to)
    BY WorkerGoes
  <1>b. /\ session[m] \in Sessions
        /\ active' \in [Keys -> Entries]
        /\ UNCHANGED <<received, session, main>>
        /\ \A x \in Messages \ {m} : worker'[x] = worker[x]
    BY <1>0, <1>a DEF TypeOK, Fresh, Goes
  <1>c. \A x \in Messages \ {m} : seen'[x] = seen[x]
    BY DEF TypeOK, Worker, AcquireSlot, GiveUpWaiting, TakeStop, SkipMessage, Start, RunCommand,
         SetupFails, BeginTurn, PollTakes, PollEmpty, FinishTurn, AbortTurn, TurnFails,
         DrainCheck, ContinueClaim, ContinueDequeue, ContinueFails, ContinueTurn, ReleaseSlot,
         CleanupObserve, CleanupRelease, Panic, PanicCleanup, Register, EndTurn, Cleanup
  <1>d. \A s \in Keys \ {session[m]} : active'[s] = active[s]
    BY DEF TypeOK, Worker, AcquireSlot, GiveUpWaiting, TakeStop, SkipMessage, Start, RunCommand,
         SetupFails, BeginTurn, PollTakes, PollEmpty, FinishTurn, AbortTurn, TurnFails,
         DrainCheck, ContinueClaim, ContinueDequeue, ContinueFails, ContinueTurn, ReleaseSlot,
         CleanupObserve, CleanupRelease, Panic, PanicCleanup, Register, EndTurn, Cleanup
  <1>e. active[session[m]] # NoEntry =>
            LET e == active[session[m]] IN
            e.owner = m => /\ MayHold(e, worker[m])
                           /\ worker[m] = "cleanup" => seen[m] = e
    BY <1>b DEF ClaimHasOwner, OwnerRemoves
  <1>f. active[session[m]] \in Entries
    BY <1>b DEF TypeOK
  <1>g. Kept(m)
    <2> USE <1>b, <1>e, <1>f DEF Kept, MayHold, TurnPCs, Goes
    <2>1. CASE AcquireSlot(m)
      BY <2>1 DEF AcquireSlot, TypeOK, Entries, Entry, NoEntry
    <2>2. CASE GiveUpWaiting(m)
      BY <2>2 DEF GiveUpWaiting, TypeOK, Entries, Entry, NoEntry
    <2>3. CASE TakeStop(m) \/ SkipMessage(m)
      BY <2>3 DEF TakeStop, SkipMessage, TypeOK, Entries, Entry, NoEntry
    <2>4. CASE Start(m)
      BY <2>4 DEF Start, TypeOK, Entries, Entry, NoEntry
    <2>5. CASE RunCommand(m)
      BY <2>5 DEF RunCommand, TypeOK, Entries, Entry, NoEntry
    <2>6. CASE SetupFails(m)
      BY <2>6 DEF SetupFails, TypeOK, Entries, Entry, NoEntry
    <2>7. CASE BeginTurn(m)
      BY <2>7 DEF BeginTurn, Register, TypeOK, Entries, Entry, NoEntry
    <2>8. CASE PollTakes(m)
      BY <2>8 DEF PollTakes, TypeOK, Entries, Entry, NoEntry
    <2>9. CASE PollEmpty(m)
      BY SMTT(40), <2>9 DEF PollEmpty, TypeOK, Entries, Entry, NoEntry
    <2>10. CASE FinishTurn(m)
      BY <2>10 DEF FinishTurn, EndTurn, Cleanup, TypeOK, Entries, Entry, NoEntry
    <2>11. CASE AbortTurn(m)
      BY <2>11 DEF AbortTurn, EndTurn, Cleanup, TypeOK, Entries, Entry, NoEntry
    <2>12. CASE TurnFails(m)
      BY <2>12 DEF TurnFails, EndTurn, Cleanup, TypeOK, Entries, Entry, NoEntry
    <2>13. CASE DrainCheck(m)
      BY <2>13 DEF DrainCheck, TypeOK, Entries, Entry, NoEntry
    <2>14. CASE ContinueClaim(m)
      BY <2>14 DEF ContinueClaim, TypeOK, Entries, Entry, NoEntry
    <2>15. CASE ContinueDequeue(m)
      BY <2>15 DEF ContinueDequeue, TypeOK, Entries, Entry, NoEntry
    <2>16. CASE ContinueFails(m)
      BY <2>16 DEF ContinueFails, TypeOK, Entries, Entry, NoEntry
    <2>17. CASE ContinueTurn(m)
      BY <2>17 DEF ContinueTurn, Register, TypeOK, Entries, Entry, NoEntry
    <2>18. CASE ReleaseSlot(m)
      BY <2>18 DEF ReleaseSlot, TypeOK, Entries, Entry, NoEntry
    <2>19. CASE CleanupObserve(m)
      BY <2>19 DEF CleanupObserve, IsPending, TypeOK, Entries, Entry, NoEntry
    <2>20. CASE CleanupRelease(m)
      BY <2>20 DEF CleanupRelease, Cleanup, TypeOK, Entries, Entry, NoEntry
    <2>21. CASE Panic(m)
      BY <2>21 DEF Panic, EndTurn, Cleanup, TypeOK, Entries, Entry, NoEntry
    <2>22. CASE PanicCleanup(m)
      BY <2>22 DEF PanicCleanup, Cleanup, TypeOK, Entries, Entry, NoEntry
    <2>23. QED
      BY <2>1, <2>2, <2>3, <2>4, <2>5, <2>6, <2>7, <2>8, <2>9, <2>10, <2>11, <2>12, <2>13,
           <2>14, <2>15, <2>16, <2>17, <2>18, <2>19, <2>20, <2>21, <2>22 DEF Worker
  <1>h. QED
    BY <1>b, <1>c, <1>d, <1>g, ClaimStep

LEMMA ClaimInit == Init => ClaimHasOwner
  BY DEF Init, ClaimHasOwner

LEMMA ClaimMain ==
    ASSUME TypeOK, Fresh, ClaimHasOwner,
           \/ ReceiveSystem
           \/ \E k \in RoutedKinds, s \in Sessions : ReceiveClaim(k, s) \/ ReceiveBusy(k, s)
           \/ MainStep \/ Cancel \/ RunReturns
    PROVE  ClaimHasOwner'
  <1>0. ASSUME NEW s \in Keys, active[s] # NoEntry
        PROVE  active[s].owner \in Messages /\ OwnerRemoves(active[s], s)
    BY <1>0 DEF TypeOK, ClaimHasOwner, Entries, NoEntry
  <1>1. CASE ReceiveSystem
    <2>1. received + 1 \in Messages /\ worker' = worker /\ seen' = seen
      BY <1>1 DEF ReceiveSystem, Take, TypeOK
    <2>2. ASSUME NEW s \in Sessions, active'[s] # NoEntry
          PROVE  OwnerRemoves(active[s], s)'
      <3>1. active'[s] = active[s] /\ OwnerRemoves(active[s], s) /\ active[s].owner \in Messages
        BY <1>0, <1>1, <2>2 DEF ReceiveSystem, TypeOK
      <3>2. MayHold(active[s], worker[active[s].owner]) /\ session[active[s].owner] = s
        BY <3>1 DEF OwnerRemoves
      <3>3. worker[received + 1] = "none"
        BY <2>1 DEF Fresh, TypeOK
      <3>4. active[s].owner # received + 1
        BY <3>2, <3>3 DEF MayHold, TurnPCs
      <3>5. QED
        BY <1>1, <2>1, <3>1, <3>4 DEF ReceiveSystem, Take, OwnerRemoves, TypeOK
    <2>3. OwnerRemoves(active[MainSession], MainSession)'
      BY <1>1, <2>1 DEF ReceiveSystem, Take, OwnerRemoves, TypeOK
    <2>4. QED
      BY <2>2, <2>3 DEF ClaimHasOwner
  <1>2. CASE \E k \in RoutedKinds, s \in Sessions : ReceiveClaim(k, s) \/ ReceiveBusy(k, s)
    <2>1. PICK k \in RoutedKinds, r \in Sessions : ReceiveClaim(k, r) \/ ReceiveBusy(k, r)
      BY <1>2
    <2>2. /\ received + 1 \in Messages /\ seen' = seen /\ main = "idle"
          /\ session' = [session EXCEPT ![received + 1] = r]
          /\ \A x \in Messages \ {received + 1} : worker'[x] = worker[x]
      BY <2>1 DEF ReceiveClaim, ReceiveBusy, Take, TypeOK
    <2>3. worker[received + 1] = "none"
      BY <2>2 DEF Fresh, TypeOK
    <2>4. ASSUME NEW s \in Keys, active[s] # NoEntry
          PROVE  OwnerRemoves(active[s], s) /\ active[s].owner # received + 1
                 /\ active[s].owner \in Messages
      BY <1>0, <2>2, <2>3, <2>4 DEF OwnerRemoves, MayHold, TurnPCs
    <2>5. ASSUME NEW s \in Keys, active'[s] # NoEntry, active'[s] = active[s]
          PROVE  OwnerRemoves(active[s], s)'
      BY <2>2, <2>4, <2>5 DEF OwnerRemoves, TypeOK
    <2>6. CASE ReceiveClaim(k, r)
      <3>1. OwnerRemoves(active[r], r)'
        BY <2>2, <2>6 DEF ReceiveClaim, OwnerRemoves, MayHold, Entry, TypeOK
      <3>2. \A s \in Keys \ {r} : active'[s] = active[s]
        BY <2>6 DEF ReceiveClaim, TypeOK
      <3>3. QED
        BY <2>5, <3>1, <3>2 DEF ClaimHasOwner
    <2>7. CASE ReceiveBusy(k, r)
      BY <2>5, <2>7 DEF ReceiveBusy, ClaimHasOwner
    <2>8. QED
      BY <2>1, <2>6, <2>7
  <1>3. CASE MainStep \/ Cancel \/ RunReturns
    <2>1. UNCHANGED <<received, session, worker, seen>>
      BY <1>3 DEF MainStep, SystemTurnEnds, Enqueue, StopClear, StopLook, StopAbort,
                  StopRefused,
                  StopRecheck, StopArm, Cancel, RunReturns
    <2>2. CASE SystemTurnEnds
      BY <1>0, <2>1, <2>2 DEF SystemTurnEnds, ClaimHasOwner, OwnerRemoves, TypeOK
    <2>3. CASE ~SystemTurnEnds
      <3>1. active' = active /\ (main = "system" => main' = "system")
        BY <1>3, <2>3 DEF MainStep, Enqueue, StopClear, StopLook, StopAbort, StopRefused,
                          NothingRan, StopRecheck,
                          StopArm, Cancel, RunReturns
      <3>2. QED
        BY <2>1, <3>1 DEF ClaimHasOwner, OwnerRemoves
    <2>4. QED
      BY <2>2, <2>3
  <1>4. QED
    BY <1>1, <1>2, <1>3

(* Every entry of activeTurnStates has a goroutine that will still remove  *)
(* it, provided nothing panics between Continue's claim and its turn: no   *)
(* deferred call removes the placeholder there.                            *)
THEOREM ClaimHasOwnerCorrect ==
    ASSUME "contSetup" \notin PanicPoints
    PROVE  Spec => []ClaimHasOwner
  <1> DEFINE Inv == TypeOK /\ Fresh /\ ClaimHasOwner
  <1>1. Init => Inv
    BY TypeInit, FreshInit, ClaimInit
  <1>2. Inv /\ [Next]_vars => Inv'
    <2> SUFFICES ASSUME Inv, [Next]_vars PROVE Inv'
      OBVIOUS
    <2>1. CASE \E m \in Messages : Worker(m)
      BY <2>1, TypeWorker, FreshWorker, ClaimWorker
    <2>2. CASE Terminated \/ UNCHANGED vars
      <3>1. vars' = vars
        BY <2>2 DEF Terminated
      <3>2. TypeOK'
        BY <3>1 DEF TypeOK, vars
      <3>3. Fresh'
        BY <3>1 DEF Fresh, vars
      <3>4. ClaimHasOwner'
        BY <3>1 DEF ClaimHasOwner, OwnerRemoves, MayHold, vars
      <3>5. QED
        BY <3>2, <3>3, <3>4
    <2>3. QED
      BY <2>1, <2>2, TypeMain, FreshMain, ClaimMain DEF Next
  <1>3. QED
    BY <1>1, <1>2, PTL DEF Spec

-----------------------------------------------------------------------------
(* The slots.  SlotsBounded speaks of the turns; what is inductive is that *)
(* the semaphore holds exactly the workers between taking a slot and       *)
(* giving it back, and never more than its capacity.                       *)
SlotInv ==
    /\ workerSem = {m \in Messages : HoldsSlot(m)}
    /\ Cardinality(workerSem) <= MaxParallel

LEMMA MessagesFinite == IsFiniteSet(Messages)
  BY FS_Interval

LEMMA SlotInit == Init => SlotInv
  <1> SUFFICES ASSUME Init PROVE SlotInv
    OBVIOUS
  <1>1. \A m \in Messages : ~HoldsSlot(m)
    BY DEF Init, HoldsSlot
  <1>2. Cardinality(workerSem) = 0
    BY FS_EmptySet DEF Init
  <1>3. QED
    BY <1>1, <1>2 DEF Init, SlotInv

(* Run's goroutine neither takes nor gives back a slot. *)
LEMMA SlotMain ==
    ASSUME TypeOK, Fresh, SlotInv,
           \/ ReceiveSystem
           \/ \E k \in RoutedKinds, s \in Sessions : ReceiveClaim(k, s) \/ ReceiveBusy(k, s)
           \/ MainStep \/ Cancel \/ RunReturns
    PROVE  SlotInv'
  <1>1. workerSem' = workerSem
    BY DEF ReceiveSystem, ReceiveClaim, ReceiveBusy, Take, MainStep, SystemTurnEnds, Enqueue,
           StopClear, StopLook, StopAbort, StopRefused, NothingRan, StopRecheck, StopArm,
           Cancel, RunReturns
  <1>2. CASE UNCHANGED worker
    BY <1>1, <1>2 DEF SlotInv, HoldsSlot
  <1>3. CASE \E k \in RoutedKinds, s \in Sessions : ReceiveClaim(k, s)
    <2>1. /\ received + 1 \in Messages
          /\ worker' = [worker EXCEPT ![received + 1] = "semWait"]
      BY <1>3 DEF ReceiveClaim, Take, TypeOK
    <2>2. worker[received + 1] = "none"
      BY <2>1 DEF Fresh, TypeOK
    <2>3. \A m \in Messages : HoldsSlot(m)' <=> HoldsSlot(m)
      BY <2>1, <2>2 DEF HoldsSlot, WorkerPCs, TypeOK
    <2>4. QED
      BY <1>1, <2>3 DEF SlotInv
  <1>4. QED
    BY <1>2, <1>3 DEF ReceiveSystem, ReceiveBusy, MainStep, SystemTurnEnds, Enqueue,
           StopClear, StopLook, StopAbort, StopRefused, NothingRan, StopRecheck, StopArm,
           Cancel, RunReturns

LEMMA SlotWorker ==
    ASSUME TypeOK, SlotInv, NEW m \in Messages, Worker(m)
    PROVE  SlotInv'
  <1>0. PICK from \in WorkerPCs \ {"none"}, to \in WorkerPCs \ {"none"} : Goes(m, from, to)
    BY WorkerGoes
  <1>a. /\ worker[m] = from /\ worker'[m] = to
        /\ \A x \in Messages \ {m} : HoldsSlot(x)' <=> HoldsSlot(x)
    BY <1>0 DEF Goes, HoldsSlot, TypeOK
  <1>b. IsFiniteSet(workerSem)
    BY MessagesFinite, FS_Subset DEF TypeOK
  <1>c. \A f, t : Goes(m, f, t) => worker[m] = f /\ worker'[m] = t
    BY DEF Goes, TypeOK
  <1>1. CASE AcquireSlot(m)
    <2>1. ~HoldsSlot(m) /\ HoldsSlot(m)' /\ workerSem' = workerSem \union {m}
      BY <1>1, <1>a DEF AcquireSlot, Goes, HoldsSlot, WorkerPCs, TypeOK
    <2>2. Cardinality(workerSem') = Cardinality(workerSem) + 1
      BY <1>b, <2>1, FS_AddElement DEF SlotInv
    <2>3. Cardinality(workerSem') <= MaxParallel
      BY <1>1, <1>b, <2>2, FS_CardinalityType DEF AcquireSlot
    <2>4. QED
      BY <1>a, <2>1, <2>3 DEF SlotInv
  <1>2. CASE ReleaseSlot(m)
    <2>1. HoldsSlot(m) /\ ~HoldsSlot(m)' /\ workerSem' = workerSem \ {m}
      BY <1>2, <1>a DEF ReleaseSlot, Goes, HoldsSlot, WorkerPCs, TypeOK
    <2>2. Cardinality(workerSem') = Cardinality(workerSem) - 1
      BY <1>b, <2>1, FS_RemoveElement DEF SlotInv
    <2>3. Cardinality(workerSem') <= MaxParallel
      BY <1>b, <2>2, FS_CardinalityType DEF SlotInv
    <2>4. QED
      BY <1>a, <2>1, <2>3 DEF SlotInv
  <1>3. CASE ~AcquireSlot(m) /\ ~ReleaseSlot(m)
    <2>1. workerSem' = workerSem
      BY <1>3 DEF Worker, GiveUpWaiting, TakeStop, SkipMessage, Start, RunCommand,
                  SetupFails, BeginTurn,
           PollTakes, PollEmpty, FinishTurn, AbortTurn, TurnFails, DrainCheck, ContinueClaim,
           ContinueDequeue, ContinueFails, ContinueTurn, CleanupObserve, CleanupRelease, Panic,
           PanicCleanup, EndTurn
    <2>2. HoldsSlot(m)' <=> HoldsSlot(m)
      <3> USE <1>c DEF HoldsSlot, WorkerPCs
      <3>1. CASE \/ GiveUpWaiting(m) \/ TakeStop(m) \/ SkipMessage(m) \/ Start(m)
                 \/ RunCommand(m) \/ SetupFails(m)
        BY <3>1 DEF GiveUpWaiting, TakeStop, SkipMessage, Start, RunCommand, SetupFails
      <3>2. CASE BeginTurn(m) \/ PollTakes(m) \/ PollEmpty(m)
        BY <3>2 DEF BeginTurn, PollTakes, PollEmpty
      <3>3. CASE FinishTurn(m) \/ AbortTurn(m) \/ TurnFails(m) \/ DrainCheck(m)
        BY <3>3 DEF FinishTurn, AbortTurn, TurnFails, DrainCheck
      <3>4. CASE ContinueClaim(m) \/ ContinueDequeue(m) \/ ContinueFails(m) \/ ContinueTurn(m)
        BY <3>4 DEF ContinueClaim, ContinueDequeue, ContinueFails, ContinueTurn
      <3>5. CASE CleanupObserve(m) \/ CleanupRelease(m) \/ Panic(m) \/ PanicCleanup(m)
        BY <3>5 DEF CleanupObserve, CleanupRelease, Panic, PanicCleanup
      <3>6. QED
        BY <1>3, <3>1, <3>2, <3>3, <3>4, <3>5 DEF Worker
    <2>3. QED
      BY <1>a, <2>1, <2>2 DEF SlotInv
  <1>4. QED
    BY <1>1, <1>2, <1>3

(* At most MaxParallel turns run at once, and a slot belongs to exactly the *)
(* workers that have taken one and not given it back, for every number of   *)
(* messages and every place a panic strikes.                                *)
THEOREM SlotsBoundedCorrect == Spec => []SlotsBounded
  <1> DEFINE Inv == TypeOK /\ Fresh /\ SlotInv
  <1>1. Init => Inv
    BY TypeInit, FreshInit, SlotInit
  <1>2. Inv /\ [Next]_vars => Inv'
    <2> SUFFICES ASSUME Inv, [Next]_vars PROVE Inv'
      OBVIOUS
    <2>1. CASE \E m \in Messages : Worker(m)
      BY <2>1, TypeWorker, FreshWorker, SlotWorker
    <2>2. CASE Terminated \/ UNCHANGED vars
      <3>1. vars' = vars
        BY <2>2 DEF Terminated
      <3>2. TypeOK' /\ Fresh'
        BY <3>1 DEF TypeOK, Fresh, vars
      <3>3. SlotInv'
        BY <3>1 DEF SlotInv, HoldsSlot, vars
      <3>4. QED
        BY <3>2, <3>3
    <2>3. QED
      BY <2>1, <2>2, TypeMain, FreshMain, SlotMain DEF Next
  <1>3. Inv => SlotsBounded
    <2> SUFFICES ASSUME Inv PROVE SlotsBounded
      OBVIOUS
    <2>1. {m \in Messages : InTurn(m)} \subseteq workerSem
      BY DEF SlotInv, InTurn, TurnPCs, HoldsSlot, WorkerPCs
    <2>2. IsFiniteSet(workerSem)
      BY MessagesFinite, FS_Subset DEF TypeOK
    <2>3. Cardinality({m \in Messages : InTurn(m)}) <= Cardinality(workerSem)
      BY <2>1, <2>2, FS_Subset
    <2>4. /\ Cardinality({m \in Messages : InTurn(m)}) \in Nat
          /\ Cardinality(workerSem) \in Nat
      BY <2>1, <2>2, FS_Subset, FS_CardinalityType
    <2>5. QED
      BY <2>3, <2>4 DEF SlotInv, SlotsBounded
  <1>4. QED
    BY <1>1, <1>2, <1>3, PTL DEF Spec

-----------------------------------------------------------------------------
(* What becomes of a message, from the moment it arrives: one not received *)
(* yet is inbound, one that has a worker is never queued, and the one Run  *)
(* prepares for a queue is in none.                                        *)
FateInv ==
    /\ \A m \in Messages : m > received => fate[m] = "inbound"
    /\ \A m \in Messages : worker[m] # "none" => fate[m] # "queued"
    /\ main = "preparing" => fate[received] = "handled" /\ worker[received] = "none"

(* What a poll takes of a queue and what it leaves are its messages, apart. *)
LEMMA BatchAndRest ==
    ASSUME NEW q \in Seq(Messages), q # <<>>,
           \A i, j \in DOMAIN q : q[i] = q[j] => i = j
    PROVE  /\ \A x : (\E i \in DOMAIN q : q[i] = x) <=>
                         \/ \E i \in DOMAIN Batch(q) : Batch(q)[i] = x
                         \/ \E i \in DOMAIN Rest(q) : Rest(q)[i] = x
           /\ \A i \in DOMAIN Batch(q), j \in DOMAIN Rest(q) : Batch(q)[i] # Rest(q)[j]
           /\ \A i, j \in DOMAIN Rest(q) : Rest(q)[i] = Rest(q)[j] => i = j
  <1>1. CASE SteeringMode = "all"
    <2>1. Batch(q) = q /\ Rest(q) = <<>> /\ DOMAIN Rest(q) = {}
      BY <1>1 DEF Batch, Rest
    <2>2. QED
      BY <2>1
  <1>2. CASE SteeringMode # "all"
    <2>1. /\ Batch(q) = <<q[1]>>
          /\ Rest(q) = Tail(q)
      BY <1>2 DEF Batch, Rest
    <2>2. /\ Tail(q) \in Seq(Messages)
          /\ Len(q) \in Nat \ {0}
          /\ Len(Tail(q)) = Len(q) - 1
          /\ \A i \in 1 .. Len(Tail(q)) : Tail(q)[i] = q[i + 1]
      BY HeadTailProperties, EmptySeq
    <2>3. DOMAIN q = 1 .. Len(q) /\ DOMAIN Tail(q) = 1 .. Len(q) - 1
      BY <2>2, LenProperties
    <2>4. DOMAIN Batch(q) = {1} /\ Batch(q)[1] = q[1]
      BY <2>1
    <2>5. \A i \in 1 .. Len(q) : i = 1 \/ (i - 1 \in 1 .. Len(q) - 1 /\ q[i] = Tail(q)[i - 1])
      BY <2>2
    <2>6. \A i \in 1 .. Len(q) - 1 : i + 1 \in 1 .. Len(q) /\ i + 1 # 1 /\ Tail(q)[i] = q[i + 1]
      BY <2>2
    <2>7. 1 \in 1 .. Len(q)
      BY <2>2
    <2> HIDE DEF Messages
    <2>8. ASSUME NEW x
          PROVE  (\E i \in DOMAIN q : q[i] = x) <=>
                         \/ \E i \in DOMAIN Batch(q) : Batch(q)[i] = x
                         \/ \E i \in DOMAIN Rest(q) : Rest(q)[i] = x
      <3>1. ASSUME NEW i \in DOMAIN q, q[i] = x
            PROVE  \/ \E k \in DOMAIN Batch(q) : Batch(q)[k] = x
                   \/ \E k \in DOMAIN Rest(q) : Rest(q)[k] = x
        BY <3>1, <2>1, <2>3, <2>4, <2>5
      <3>2. ASSUME NEW i \in DOMAIN Batch(q), Batch(q)[i] = x
            PROVE  \E k \in DOMAIN q : q[k] = x
        BY <3>2, <2>3, <2>4, <2>7
      <3>3. ASSUME NEW i \in DOMAIN Rest(q), Rest(q)[i] = x
            PROVE  \E k \in DOMAIN q : q[k] = x
        BY <3>3, <2>1, <2>3, <2>6
      <3>4. QED
        BY <3>1, <3>2, <3>3
    <2>9. ASSUME NEW i \in DOMAIN Batch(q), NEW j \in DOMAIN Rest(q)
          PROVE  Batch(q)[i] # Rest(q)[j]
      BY <2>1, <2>3, <2>4, <2>6, <2>7
    <2>10. ASSUME NEW i \in DOMAIN Rest(q), NEW j \in DOMAIN Rest(q), Rest(q)[i] = Rest(q)[j]
           PROVE  i = j
      <3>1. i + 1 = j + 1
        BY <2>1, <2>3, <2>6, <2>10
      <3>2. i \in Int /\ j \in Int
        BY <2>1, <2>3
      <3>3. QED
        BY <3>1, <3>2
    <2>11. QED
      BY <2>8, <2>9, <2>10
  <1>3. QED
    BY <1>1, <1>2

(* A step that leaves the queues alone, and the fate of queued messages.   *)
LEMMA QueuedUntouched ==
    ASSUME QueuedOnce, UNCHANGED steering,
           \A m \in Messages : /\ fate[m] = "queued" <=> fate'[m] = "queued"
                               /\ fate[m] = "queued" => session'[m] = session[m]
    PROVE  QueuedOnce'
  BY DEF QueuedOnce, QueuedIn

(* A poll takes the first of a queue's messages, or all.                   *)
LEMMA QueuedTaken ==
    ASSUME TypeOK, QueuedOnce, NEW m \in Messages, TakeBatch(m), UNCHANGED session
    PROVE  /\ QueuedOnce'
           /\ \A x \in Messages : fate'[x] = fate[x] \/ (fate[x] = "queued" /\ fate'[x] = "taken")
  <1> DEFINE s == session[m]
             q == steering[s]
  <1>1. s \in Keys /\ q \in Seq(Messages) /\ q # <<>>
    BY DEF TypeOK, TakeBatch
  <1>2. /\ \A i, j \in DOMAIN q : q[i] = q[j] => i = j
        /\ \A x \in Messages : x \in QueuedIn(s) <=> fate[x] = "queued" /\ session[x] = s
        /\ \A x : x \in QueuedIn(s) <=> \E i \in DOMAIN q : q[i] = x
    BY <1>1 DEF QueuedOnce, QueuedIn
  <1>3. /\ \A x : x \in QueuedIn(s) <=>
                         \/ \E i \in DOMAIN Batch(q) : Batch(q)[i] = x
                         \/ \E i \in DOMAIN Rest(q) : Rest(q)[i] = x
        /\ \A i \in DOMAIN Batch(q), j \in DOMAIN Rest(q) : Batch(q)[i] # Rest(q)[j]
        /\ \A i, j \in DOMAIN Rest(q) : Rest(q)[i] = Rest(q)[j] => i = j
    <2>1. /\ \A x : (\E i \in DOMAIN q : q[i] = x) <=>
                         \/ \E i \in DOMAIN Batch(q) : Batch(q)[i] = x
                         \/ \E i \in DOMAIN Rest(q) : Rest(q)[i] = x
          /\ \A i \in DOMAIN Batch(q), j \in DOMAIN Rest(q) : Batch(q)[i] # Rest(q)[j]
          /\ \A i, j \in DOMAIN Rest(q) : Rest(q)[i] = Rest(q)[j] => i = j
      <3> HIDE DEF q, Messages
      <3>1. QED
        BY <1>1, <1>2, BatchAndRest
    <2> HIDE DEF Messages, Keys
    <2>2. QED
      BY <1>2, <2>1
  <1>4. /\ steering'[s] = Rest(q)
        /\ \A t \in Keys \ {s} : steering'[t] = steering[t]
    BY <1>1 DEF TypeOK, TakeBatch
  <1>5. \A x \in Messages :
            fate'[x] = IF \E i \in DOMAIN Batch(q) : Batch(q)[i] = x THEN "taken" ELSE fate[x]
    BY DEF TakeBatch, InBatch
  <1> HIDE DEF Messages, Keys
  <1>6. ASSUME NEW x \in Messages
        PROVE  /\ x \in QueuedIn(s)' <=> fate'[x] = "queued" /\ session[x] = s
               /\ fate'[x] = fate[x] \/ (fate[x] = "queued" /\ fate'[x] = "taken")
    <2>1. x \in QueuedIn(s)' <=> \E i \in DOMAIN Rest(q) : Rest(q)[i] = x
      BY <1>4 DEF QueuedIn
    <2>2. QED
      BY <2>1, <1>2, <1>3, <1>5
  <1>7. ASSUME NEW x \in Messages, NEW t \in Keys \ {s}
        PROVE  x \in QueuedIn(t)' <=> fate'[x] = "queued" /\ session[x] = t
    <2>1. x \in QueuedIn(t)' <=> x \in QueuedIn(t)
      BY <1>4 DEF QueuedIn
    <2>2. x \in QueuedIn(t) <=> fate[x] = "queued" /\ session[x] = t
      BY DEF QueuedOnce
    <2>3. session[x] = t => fate'[x] = fate[x]
      BY <1>2, <1>3, <1>5
    <2>4. fate'[x] = "queued" => fate[x] = "queued"
      BY <1>5
    <2>5. QED
      BY <2>1, <2>2, <2>3, <2>4
  <1>8. \A t \in Keys : \A i, j \in DOMAIN steering'[t] :
            steering'[t][i] = steering'[t][j] => i = j
    BY <1>3, <1>4 DEF QueuedOnce
  <1>9. QED
    BY <1>1, <1>6, <1>7, <1>8 DEF QueuedOnce

(* A /stop clears the queue of one session.                                *)
LEMMA QueuedCleared ==
    ASSUME TypeOK, QueuedOnce, NEW s \in Keys, Cleared(s), UNCHANGED session
    PROVE  /\ QueuedOnce'
           /\ \A x \in Messages :
                  \/ fate'[x] = fate[x]
                  \/ fate[x] = "queued" /\ session[x] = s /\ fate'[x] = "cleared"
  <1>1. /\ steering'[s] = <<>>
        /\ \A t \in Keys \ {s} : steering'[t] = steering[t]
    BY DEF TypeOK, Cleared
  <1>2. \A x \in Messages : fate'[x] = IF x \in QueuedIn(s) THEN "cleared" ELSE fate[x]
    BY DEF Cleared
  <1>3. DOMAIN steering'[s] = {}
    BY <1>1
  <1> HIDE DEF Messages, Keys
  <1>4. \A x : x \notin QueuedIn(s)'
    BY <1>3 DEF QueuedIn
  <1>5. \A t \in Keys \ {s} : QueuedIn(t)' = QueuedIn(t)
    BY <1>1 DEF QueuedIn
  <1>6. \A x \in Messages, t \in Keys : x \in QueuedIn(t) <=> fate[x] = "queued" /\ session[x] = t
    BY DEF QueuedOnce
  <1>7. \A x \in Messages, t \in Keys : x \in QueuedIn(t)' <=> fate'[x] = "queued" /\ session[x] = t
    BY <1>2, <1>4, <1>5, <1>6
  <1>8. \A x \in Messages, t \in Keys : \A i, j \in DOMAIN steering'[t] :
            steering'[t][i] = steering'[t][j] => i = j
    BY <1>1, <1>3 DEF QueuedOnce
  <1>9. QED
    BY <1>2, <1>6, <1>7, <1>8 DEF QueuedOnce

(* Enqueue puts the message Run has prepared at the end of its queue.      *)
LEMMA QueuedAppended ==
    ASSUME TypeOK, QueuedOnce, FateInv, Enqueue
    PROVE  QueuedOnce'
  <1>0. PICK s \in Keys : s = session[received]
    BY DEF Enqueue, TypeOK, MainPCs
  <1> DEFINE q == steering[s]
  <1>1. /\ received \in Messages /\ s \in Keys /\ q \in Seq(Messages)
        /\ fate[received] = "handled" /\ session' = session
    BY <1>0 DEF Enqueue, TypeOK, FateInv, MainPCs
  <1>2. CASE fate' = [fate EXCEPT ![received] = "dropped"] /\ UNCHANGED steering
    BY <1>1, <1>2, QueuedUntouched DEF TypeOK
  <1>3. CASE /\ steering' = [steering EXCEPT ![s] = Append(q, received)]
             /\ fate' = [fate EXCEPT ![received] = "queued"]
    <2>1. /\ steering'[s] = Append(q, received)
          /\ \A t \in Keys \ {s} : steering'[t] = steering[t]
          /\ \A x \in Messages : fate'[x] = IF x = received THEN "queued" ELSE fate[x]
      BY <1>1, <1>3 DEF TypeOK
    <2>2. /\ Append(q, received) \in Seq(Messages)
          /\ Len(q) \in Nat /\ Len(Append(q, received)) = Len(q) + 1
          /\ \A i \in 1 .. Len(q) : Append(q, received)[i] = q[i]
          /\ Append(q, received)[Len(q) + 1] = received
      BY <1>1, AppendProperties
    <2>3. DOMAIN Append(q, received) = 1 .. Len(q) + 1 /\ DOMAIN q = 1 .. Len(q)
      BY <1>1, <2>2, LenProperties
    <2>4. \A i \in 1 .. Len(q) + 1 :
              IF i = Len(q) + 1 THEN Append(q, received)[i] = received
              ELSE i \in 1 .. Len(q) /\ Append(q, received)[i] = q[i]
      BY <2>2
    <2>5. \A i \in 1 .. Len(q) : i \in 1 .. Len(q) + 1 /\ i # Len(q) + 1
      BY <2>2
    <2>6. Len(q) + 1 \in 1 .. Len(q) + 1
      BY <2>2
    <2> HIDE DEF Messages, Keys
    <2>7. \A t \in Keys : received \notin QueuedIn(t)
      BY <1>1 DEF QueuedOnce
    <2>8. \A x : x \in QueuedIn(s)' <=> x \in QueuedIn(s) \/ x = received
      <3> DEFINE r == Append(q, received)
      <3>1. \A x : x \in QueuedIn(s)' <=> \E i \in 1 .. Len(q) + 1 : r[i] = x
        BY <2>1, <2>3 DEF QueuedIn
      <3>2. \A x : x \in QueuedIn(s) <=> \E i \in 1 .. Len(q) : q[i] = x
        BY <2>3 DEF QueuedIn
      <3> HIDE DEF r, q
      <3>3. QED
        BY <3>1, <3>2, <2>4, <2>5, <2>6 DEF r
    <2>9. \A t \in Keys \ {s} : QueuedIn(t)' = QueuedIn(t)
      BY <2>1 DEF QueuedIn
    <2>10. \A x \in Messages, t \in Keys :
               x \in QueuedIn(t)' <=> fate'[x] = "queued" /\ session[x] = t
      <3>1. \A x \in Messages, t \in Keys :
                x \in QueuedIn(t) <=> fate[x] = "queued" /\ session[x] = t
        BY DEF QueuedOnce
      <3>2. QED
        BY <1>0, <1>1, <2>1, <2>7, <2>8, <2>9, <3>1
    <2>11. \A i, j \in DOMAIN steering'[s] : steering'[s][i] = steering'[s][j] => i = j
      <3>1. \A i, j \in DOMAIN q : q[i] = q[j] => i = j
        BY <1>1 DEF QueuedOnce
      <3>2. \A i \in DOMAIN q : q[i] # received
        BY <1>1, <2>7 DEF QueuedIn
      <3>3. QED
        BY <2>1, <2>3, <2>4, <3>1, <3>2
    <2>12. \A t \in Keys \ {s} : \A i, j \in DOMAIN steering'[t] :
               steering'[t][i] = steering'[t][j] => i = j
      BY <1>1, <2>1 DEF QueuedOnce
    <2>13. QED
      BY <1>1, <2>10, <2>11, <2>12 DEF QueuedOnce
  <1>4. QED
    BY <1>0, <1>2, <1>3 DEF Enqueue

LEMMA FateInit == Init => FateInv /\ QueuedOnce
  <1> SUFFICES ASSUME Init PROVE FateInv /\ QueuedOnce
    OBVIOUS
  <1>1. FateInv
    BY DEF Init, FateInv
  <1>2. \A s \in Keys : steering[s] = <<>> /\ DOMAIN steering[s] = {}
    BY DEF Init
  <1>3. \A m \in Messages : fate[m] # "queued"
    BY DEF Init
  <1>4. QED
    BY <1>1, <1>2, <1>3 DEF QueuedOnce, QueuedIn

LEMMA FateMain ==
    ASSUME TypeOK, Fresh, FateInv, QueuedOnce,
           \/ ReceiveSystem
           \/ \E k \in RoutedKinds, s \in Sessions : ReceiveClaim(k, s) \/ ReceiveBusy(k, s)
           \/ MainStep \/ Cancel \/ RunReturns
    PROVE  FateInv' /\ QueuedOnce'
  <1>1. ASSUME NEW k \in RoutedKinds \union {"system"}, NEW s \in Keys,
               NEW f \in Fates \ {"queued"},
               Take(k, s), fate' = [fate EXCEPT ![received + 1] = f],
               worker' = worker \/ worker' = [worker EXCEPT ![received + 1] = "semWait"],
               main' = "preparing" => f = "handled" /\ worker' = worker
        PROVE  FateInv' /\ QueuedOnce'
    <2>1. received + 1 \in Messages /\ received' = received + 1 /\ received < NumMessages
      BY <1>1 DEF Take, TypeOK
    <2>2. fate[received + 1] = "inbound" /\ worker[received + 1] = "none"
      BY <2>1 DEF FateInv, Fresh, TypeOK
    <2>3. \A m \in Messages : /\ fate'[m] = IF m = received + 1 THEN f ELSE fate[m]
                              /\ m # received + 1 => session'[m] = session[m]
      BY <1>1 DEF TypeOK, Take
    <2>4. QueuedOnce'
      BY <1>1, <2>2, <2>3, QueuedUntouched DEF Take
    <2>5. FateInv'
      BY <1>1, <2>1, <2>2, <2>3 DEF FateInv, TypeOK
    <2>6. QED
      BY <2>4, <2>5
  <1>2. CASE ReceiveSystem
    BY <1>1, <1>2 DEF ReceiveSystem, Fates, Take
  <1>3. CASE \E k \in RoutedKinds, s \in Sessions : ReceiveClaim(k, s) \/ ReceiveBusy(k, s)
    <2>1. PICK k \in RoutedKinds, s \in Sessions : ReceiveClaim(k, s) \/ ReceiveBusy(k, s)
      BY <1>3
    <2>2. CASE ReceiveClaim(k, s)
      BY <1>1, <2>2 DEF ReceiveClaim, Fates, Take
    <2>3. CASE ReceiveBusy(k, s)
      BY <1>1, <2>3 DEF ReceiveBusy, Fates, Take
    <2>4. QED
      BY <2>1, <2>2, <2>3
  <1>4. CASE Enqueue
    BY <1>4, QueuedAppended DEF Enqueue, FateInv, TypeOK
  <1>5. CASE StopClear
    <2>1. received \in Messages /\ session[received] \in Keys
      BY <1>5 DEF StopClear, TypeOK
    <2>2. /\ QueuedOnce'
          /\ \A x \in Messages :
                 fate'[x] = fate[x] \/ (fate[x] = "queued" /\ fate'[x] = "cleared")
      BY <1>5, <2>1, QueuedCleared DEF StopClear
    <2>3. FateInv'
      BY <1>5, <2>2 DEF StopClear, FateInv, TypeOK
    <2>4. QED
      BY <2>2, <2>3
  <1>6. CASE \/ SystemTurnEnds \/ StopLook \/ StopAbort \/ StopRefused \/ StopRecheck \/ StopArm
             \/ Cancel \/ RunReturns
    <2>1. /\ UNCHANGED <<received, session, fate, worker, steering>>
          /\ main' = "preparing" => main = "preparing"
      BY <1>6 DEF SystemTurnEnds, StopLook, StopAbort, StopRefused, NothingRan, StopRecheck,
                  StopArm, Cancel, RunReturns
    <2>2. QED
      BY <2>1, QueuedUntouched DEF FateInv
  <1>7. QED
    BY <1>2, <1>3, <1>4, <1>5, <1>6 DEF MainStep

(* What a worker's step does to the fates: it gives its own message one,   *)
(* takes messages of its queue, or clears the queue.                       *)
LEMMA FateWorker ==
    ASSUME TypeOK, Fresh, FateInv, QueuedOnce, NEW m \in Messages, Worker(m)
    PROVE  FateInv' /\ QueuedOnce'
  <1>1. PICK from \in WorkerPCs \ {"none"}, to \in WorkerPCs \ {"none"} : Goes(m, from, to)
    BY WorkerGoes
  <1>2. /\ UNCHANGED <<received, session, main>>
        /\ worker[m] # "none" /\ fate[m] # "queued"
        /\ \A x \in Messages : worker'[x] # "none" <=> worker[x] # "none"
    BY <1>1 DEF Goes, TypeOK, FateInv
  <1>3. main = "preparing" => received \in Messages /\ received # m
    BY <1>2 DEF FateInv, TypeOK, MainPCs
  <1>4. ASSUME UNCHANGED steering,
               \/ UNCHANGED fate
               \/ \E f \in Fates \ {"queued"} : fate' = [fate EXCEPT ![m] = f]
        PROVE  FateInv' /\ QueuedOnce'
    <2>1. /\ \A x \in Messages \ {m} : fate'[x] = fate[x]
          /\ fate'[m] # "queued"
      BY <1>2, <1>4 DEF TypeOK
    <2>2. QueuedOnce'
      BY <1>2, <1>4, <2>1, QueuedUntouched
    <2>3. m <= received
      BY <1>2 DEF Fresh, TypeOK
    <2>4. FateInv'
      BY <1>2, <1>3, <2>1, <2>3 DEF FateInv, TypeOK
    <2>5. QED
      BY <2>2, <2>4
  <1>5. CASE TakeBatch(m) \/ Cleared(session[m])
    <2>1. /\ QueuedOnce'
          /\ \A x \in Messages :
                 fate'[x] = fate[x] \/ (fate[x] = "queued" /\ fate'[x] \in {"taken", "cleared"})
      <3>1. session[m] \in Keys
        BY DEF TypeOK
      <3>2. QED
        BY <1>2, <1>5, <3>1, QueuedTaken, QueuedCleared
    <2>2. FateInv'
      BY <1>2, <1>3, <2>1 DEF FateInv, TypeOK
    <2>3. QED
      BY <2>1, <2>2
  <1>6. \/ TakeBatch(m) \/ Cleared(session[m])
        \/ /\ UNCHANGED steering
           /\ \/ UNCHANGED fate
              \/ \E f \in Fates \ {"queued"} : fate' = [fate EXCEPT ![m] = f]
    <2> USE DEF Fates
    <2>1. CASE AcquireSlot(m) \/ GiveUpWaiting(m) \/ TakeStop(m) \/ SkipMessage(m) \/ Start(m)
      BY <2>1 DEF AcquireSlot, GiveUpWaiting, TakeStop, SkipMessage, Start
    <2>2. CASE RunCommand(m) \/ SetupFails(m) \/ BeginTurn(m) \/ PollTakes(m) \/ PollEmpty(m)
      BY <2>2 DEF RunCommand, SetupFails, BeginTurn, PollTakes, PollEmpty
    <2>3. CASE FinishTurn(m) \/ AbortTurn(m) \/ TurnFails(m) \/ DrainCheck(m)
      BY <2>3 DEF FinishTurn, AbortTurn, TurnFails, EndTurn, DrainCheck
    <2>4. CASE ContinueClaim(m) \/ ContinueDequeue(m) \/ ContinueFails(m) \/ ContinueTurn(m)
      BY <2>4 DEF ContinueClaim, ContinueDequeue, ContinueFails, ContinueTurn
    <2>5. CASE \/ ReleaseSlot(m) \/ CleanupObserve(m) \/ CleanupRelease(m)
               \/ Panic(m) \/ PanicCleanup(m)
      BY <2>5 DEF ReleaseSlot, CleanupObserve, CleanupRelease, Panic, EndTurn, PanicCleanup
    <2>6. QED
      BY <2>1, <2>2, <2>3, <2>4, <2>5 DEF Worker
  <1>7. QED
    BY <1>4, <1>5, <1>6

(* A message is in its own session's steering queue, once, from the moment *)
(* it is enqueued until one turn takes it or a /stop clears it, whatever   *)
(* runs, panics or is stopped meanwhile (enqueue, dequeue and clear of     *)
(* steering.go).                                                           *)
THEOREM QueuedOnceCorrect == Spec => []QueuedOnce
  <1> DEFINE Inv == TypeOK /\ Fresh /\ FateInv /\ QueuedOnce
  <1>1. Init => Inv
    BY TypeInit, FreshInit, FateInit
  <1>2. Inv /\ [Next]_vars => Inv'
    <2> SUFFICES ASSUME Inv, [Next]_vars PROVE Inv'
      OBVIOUS
    <2>1. CASE \E m \in Messages : Worker(m)
      BY <2>1, TypeWorker, FreshWorker, FateWorker
    <2>2. CASE Terminated \/ UNCHANGED vars
      <3>1. vars' = vars
        BY <2>2 DEF Terminated
      <3>2. TypeOK' /\ Fresh'
        BY <3>1 DEF TypeOK, Fresh, vars
      <3>3. FateInv' /\ QueuedOnce'
        BY <3>1 DEF FateInv, QueuedOnce, QueuedIn, vars
      <3>4. QED
        BY <3>2, <3>3
    <2>3. QED
      BY <2>1, <2>2, TypeMain, FreshMain, FateMain DEF Next
  <1>3. QED
    BY <1>1, <1>2, PTL DEF Spec

-----------------------------------------------------------------------------
(* Run's steps for a /stop handle one; an entry of activeTurnStates is in   *)
(* its owner's session; a stop is armed where a /stop was sent.             *)
StopInv ==
    /\ main \in {"stopClear", "stopLook", "stopAbort", "stopRefused", "stopRecheck", "stopArm"} =>
          kind[received] = "stop"
    /\ \A s \in Keys : active[s] # NoEntry =>
          active[s].owner <= received /\ session[active[s].owner] = s
    /\ \A s \in pendingStops :
          \E w \in Messages : w <= received /\ kind[w] = "stop" /\ session[w] = s

LEMMA StopInit == Init => StopInv
  BY DEF Init, StopInv

(* A message received gives no other message a kind or a session.           *)
LEMMA StopTake ==
    ASSUME TypeOK, StopInv, NEW k, NEW s \in Keys, Take(k, s),
           main' \in {"stopClear", "stopLook", "stopAbort", "stopRefused", "stopRecheck",
                      "stopArm"} =>
               k = "stop",
           \/ UNCHANGED active
           \/ \E c \in {"pending", "turn"} :
                  active' = [active EXCEPT ![s] = Entry(received + 1, c)]
    PROVE  StopInv'
  <1>1. /\ received \in Nat /\ received' = received + 1 /\ received + 1 \in Messages
        /\ kind'[received'] = k /\ session'[received'] = s
        /\ pendingStops' = pendingStops
        /\ \A w \in Messages : w <= received => kind'[w] = kind[w] /\ session'[w] = session[w]
    BY DEF Take, TypeOK
  <1>2. ASSUME NEW t \in Keys, active'[t] # NoEntry
        PROVE  active'[t].owner <= received' /\ session'[active'[t].owner] = t
    <2>1. CASE active'[t] = active[t]
      <3>1. active[t] \in Entries /\ active[t] # NoEntry
        BY <1>2, <2>1 DEF TypeOK
      <3>2. active[t].owner \in Messages /\ active[t].owner <= received
            /\ session[active[t].owner] = t
        BY <3>1 DEF StopInv, Entries
      <3>3. QED
        BY <1>1, <2>1, <3>2
    <2>2. CASE t = s /\ \E c \in {"pending", "turn"} : active'[t] = Entry(received + 1, c)
      BY <1>1, <2>2 DEF Entry
    <2>3. QED
      BY <2>1, <2>2 DEF TypeOK
  <1>3. ASSUME NEW t \in pendingStops'
        PROVE  \E w \in Messages : w <= received' /\ kind'[w] = "stop" /\ session'[w] = t
    <2>1. PICK w \in Messages : w <= received /\ kind[w] = "stop" /\ session[w] = t
      BY <1>1, <1>3 DEF StopInv
    <2>2. QED
      BY <1>1, <2>1
  <1>4. QED
    BY <1>1, <1>2, <1>3 DEF StopInv

LEMMA StopMain ==
    ASSUME TypeOK, StopInv,
           \/ ReceiveSystem
           \/ \E k \in RoutedKinds, s \in Sessions : ReceiveClaim(k, s) \/ ReceiveBusy(k, s)
           \/ MainStep \/ Cancel \/ RunReturns
    PROVE  StopInv'
  <1>1. CASE ReceiveSystem
    BY <1>1, StopTake DEF ReceiveSystem
  <1>2. CASE \E k \in RoutedKinds, s \in Sessions : ReceiveClaim(k, s) \/ ReceiveBusy(k, s)
    <2>1. PICK k \in RoutedKinds, s \in Sessions : ReceiveClaim(k, s) \/ ReceiveBusy(k, s)
      BY <1>2
    <2>2. CASE ReceiveClaim(k, s)
      <3>1. main' = "idle"
        BY <2>2 DEF ReceiveClaim, Take
      <3>2. QED
        BY <2>2, <3>1, StopTake DEF ReceiveClaim
    <2>3. CASE ReceiveBusy(k, s)
      BY <2>3, StopTake DEF ReceiveBusy
    <2>4. QED
      BY <2>1, <2>2, <2>3
  <1>3. CASE SystemTurnEnds
    BY <1>3 DEF SystemTurnEnds, StopInv, TypeOK
  <1>4. CASE \/ Enqueue \/ StopClear \/ StopLook \/ StopAbort \/ StopRefused \/ StopRecheck
             \/ Cancel \/ RunReturns
    <2>1. /\ UNCHANGED <<received, kind, session, active, pendingStops>>
          /\ main' \in {"stopClear", "stopLook", "stopAbort", "stopRefused", "stopRecheck",
                        "stopArm"} =>
                main \in {"stopClear", "stopLook", "stopAbort", "stopRefused", "stopRecheck",
                          "stopArm"}
      BY <1>4 DEF Enqueue, StopClear, StopLook, StopAbort, StopRefused, NothingRan,
                  StopRecheck, Cancel, RunReturns
    <2>2. QED
      BY <2>1 DEF StopInv
  <1>5. CASE StopArm
    <2>1. /\ UNCHANGED <<received, kind, session, active>>
          /\ main' = "idle"
          /\ received \in Messages /\ kind[received] = "stop"
          /\ pendingStops' = pendingStops \union {session[received]}
      BY <1>5 DEF StopArm, StopInv, TypeOK
    <2>2. \A s \in pendingStops' :
              \E w \in Messages : w <= received /\ kind[w] = "stop" /\ session[w] = s
      BY <2>1 DEF StopInv
    <2>3. QED
      BY <2>1, <2>2 DEF StopInv
  <1>6. QED
    BY <1>1, <1>2, <1>3, <1>4, <1>5 DEF MainStep

(* What a worker stores in activeTurnStates is its own, under its session.  *)
LEMMA StopWorker ==
    ASSUME TypeOK, Fresh, StopInv, NEW m \in Messages, Worker(m)
    PROVE  StopInv'
  <1>1. PICK from \in WorkerPCs \ {"none"}, to \in WorkerPCs \ {"none"} : Goes(m, from, to)
    BY WorkerGoes
  <1>2. UNCHANGED <<received, kind, session, main>> /\ m <= received
    BY <1>1 DEF Goes, Fresh, TypeOK
  <1>3. pendingStops' \subseteq pendingStops
    BY DEF Worker, AcquireSlot, GiveUpWaiting, TakeStop, SkipMessage, Start, RunCommand,
           SetupFails,
         BeginTurn, PollTakes, PollEmpty, FinishTurn, AbortTurn, TurnFails, DrainCheck,
         ContinueClaim, ContinueDequeue, ContinueFails, ContinueTurn, ReleaseSlot,
         CleanupObserve, CleanupRelease, Panic, PanicCleanup, Register, EndTurn, Cleanup
  <1>4. \A s \in Keys :
            \/ active'[s] = active[s] \/ active'[s] = NoEntry
            \/ s = session[m] /\ \E c \in {"continue", "turn"} : active'[s] = Entry(m, c)
    <2> USE DEF TypeOK
    <2>1. CASE AcquireSlot(m) \/ GiveUpWaiting(m) \/ TakeStop(m) \/ SkipMessage(m) \/ Start(m)
      BY <2>1 DEF AcquireSlot, GiveUpWaiting, TakeStop, SkipMessage, Start
    <2>2. CASE RunCommand(m) \/ SetupFails(m) \/ PollTakes(m) \/ PollEmpty(m) \/ DrainCheck(m)
      BY <2>2 DEF RunCommand, SetupFails, PollTakes, PollEmpty, DrainCheck
    <2>3. CASE BeginTurn(m) \/ ContinueTurn(m)
      BY <2>3 DEF BeginTurn, ContinueTurn, Register
    <2>4. CASE FinishTurn(m) \/ AbortTurn(m) \/ TurnFails(m) \/ Panic(m)
      <3>1. EndTurn(m)
        BY <2>4 DEF FinishTurn, AbortTurn, TurnFails, Panic
      <3>2. QED
        BY <3>1 DEF EndTurn, Cleanup
    <2>5. CASE ContinueClaim(m)
      BY <2>5 DEF ContinueClaim
    <2>6. CASE ContinueDequeue(m) \/ ContinueFails(m) \/ ReleaseSlot(m) \/ CleanupObserve(m)
      BY <2>6 DEF ContinueDequeue, ContinueFails, ReleaseSlot, CleanupObserve
    <2>7. CASE CleanupRelease(m) \/ PanicCleanup(m)
      BY <2>7 DEF CleanupRelease, PanicCleanup, Cleanup
    <2>8. QED
      BY <2>1, <2>2, <2>3, <2>4, <2>5, <2>6, <2>7 DEF Worker
  <1>5. \A s \in Keys : active'[s] # NoEntry =>
            active'[s].owner <= received /\ session[active'[s].owner] = s
    BY <1>2, <1>4 DEF StopInv, Entry
  <1>6. QED
    BY <1>2, <1>3, <1>5 DEF StopInv

LEMMA StopInvCorrect == Spec => [](TypeOK /\ Fresh /\ FateInv /\ QueuedOnce /\ StopInv)
  <1> DEFINE Inv == TypeOK /\ Fresh /\ FateInv /\ QueuedOnce /\ StopInv
  <1>1. Init => Inv
    BY TypeInit, FreshInit, FateInit, StopInit
  <1>2. Inv /\ [Next]_vars => Inv'
    <2> SUFFICES ASSUME Inv, [Next]_vars PROVE Inv'
      OBVIOUS
    <2>1. CASE \E m \in Messages : Worker(m)
      BY <2>1, TypeWorker, FreshWorker, FateWorker, StopWorker
    <2>2. CASE Terminated \/ UNCHANGED vars
      <3>1. vars' = vars
        BY <2>2 DEF Terminated
      <3>2. TypeOK' /\ Fresh'
        BY <3>1 DEF TypeOK, Fresh, vars
      <3>3. FateInv' /\ QueuedOnce' /\ StopInv'
        BY <3>1 DEF FateInv, QueuedOnce, QueuedIn, StopInv, vars
      <3>4. QED
        BY <3>2, <3>3
    <2>3. QED
      BY <2>1, <2>2, TypeMain, FreshMain, FateMain, StopMain DEF Next
  <1>3. QED
    BY <1>1, <1>2, PTL DEF Spec

(* What a step does that may clear a queue, tell a turn to abort or arm a   *)
(* stop.                                                                    *)
Scoped ==
    \A m \in Messages :
      /\ fate[m] = "queued" /\ fate'[m] = "cleared" =>
           \/ main = "stopClear" /\ session[received] = session[m]
           \/ \E w \in Messages : worker[w] = "processing" /\ kind[w] = "stop"
                                  /\ session[w] = session[m]
      /\ m \notin hardAborted /\ m \in hardAborted' =>
           \E w \in Messages : kind[w] = "stop" /\ session[w] = session[m]
      /\ \A s \in pendingStops' \ pendingStops :
           main = "stopArm" /\ session[received] = s

LEMMA ScopedMain ==
    ASSUME TypeOK, Fresh, FateInv, QueuedOnce, StopInv,
           \/ ReceiveSystem
           \/ \E k \in RoutedKinds, s \in Sessions : ReceiveClaim(k, s) \/ ReceiveBusy(k, s)
           \/ MainStep \/ Cancel \/ RunReturns
    PROVE  Scoped
  <1>1. ASSUME UNCHANGED <<hardAborted, pendingStops>>,
               \A m \in Messages : fate[m] = "queued" => fate'[m] # "cleared"
        PROVE  Scoped
    BY <1>1 DEF Scoped
  <1>2. CASE ReceiveSystem
    <2>1. received + 1 \in Messages /\ fate' = [fate EXCEPT ![received + 1] = "taken"]
      BY <1>2 DEF ReceiveSystem, Take, TypeOK
    <2>2. QED
      BY <1>1, <1>2, <2>1 DEF ReceiveSystem, Take, TypeOK
  <1>3. CASE \E k \in RoutedKinds, s \in Sessions : ReceiveClaim(k, s) \/ ReceiveBusy(k, s)
    <2>1. \E f \in {"claimed", "handled"} : fate' = [fate EXCEPT ![received + 1] = f]
      BY <1>3 DEF ReceiveClaim, ReceiveBusy
    <2>2. UNCHANGED <<hardAborted, pendingStops>>
      BY <1>3 DEF ReceiveClaim, ReceiveBusy, Take
    <2>3. QED
      BY <1>1, <2>1, <2>2 DEF TypeOK
  <1>4. CASE SystemTurnEnds \/ StopLook \/ StopRefused \/ StopRecheck \/ Cancel \/ RunReturns
    BY <1>1, <1>4 DEF SystemTurnEnds, StopLook, StopRefused, NothingRan, StopRecheck, Cancel,
                      RunReturns
  <1>5. CASE Enqueue
    <2>1. \/ fate' = [fate EXCEPT ![received] = "queued"]
          \/ fate' = [fate EXCEPT ![received] = "dropped"]
      BY <1>5 DEF Enqueue
    <2>2. QED
      BY <1>1, <1>5, <2>1 DEF Enqueue, TypeOK
  <1>6. CASE StopClear
    <2>1. session[received] \in Keys
      BY <1>6 DEF StopClear, TypeOK
    <2>2. \A x \in Messages : \/ fate'[x] = fate[x]
                              \/ session[x] = session[received]
      BY <1>6, <2>1, QueuedCleared DEF StopClear
    <2>3. QED
      BY <1>6, <2>2 DEF StopClear, Scoped
  <1>7. CASE StopAbort
    <2> DEFINE e == active[session[received]]
    <2>1. kind[received] = "stop" /\ received \in Messages /\ session[received] \in Keys
      BY <1>7 DEF StopAbort, StopInv, TypeOK
    <2>2. e.kind = "turn" => session[e.owner] = session[received]
      <3>1. NoEntry.kind # "turn"
        BY DEF NoEntry
      <3>2. QED
        BY <2>1, <3>1 DEF StopInv
    <2>3. \A m \in hardAborted' \ hardAborted : e.kind = "turn" /\ m = e.owner
      BY <1>7 DEF StopAbort
    <2>4. UNCHANGED <<fate, pendingStops>>
      BY <1>7 DEF StopAbort
    <2>5. QED
      BY <2>1, <2>2, <2>3, <2>4 DEF Scoped
  <1>8. CASE StopArm
    BY <1>8 DEF StopArm, Scoped
  <1>9. QED
    BY <1>2, <1>3, <1>4, <1>5, <1>6, <1>7, <1>8 DEF MainStep

LEMMA ScopedWorker ==
    ASSUME TypeOK, Fresh, FateInv, QueuedOnce, StopInv, NEW w \in Messages, Worker(w)
    PROVE  Scoped
  <1> DEFINE s == session[w]
  <1>1. s \in Keys /\ fate[w] # "queued" /\ session' = session
    <2>1. PICK from \in WorkerPCs \ {"none"}, to \in WorkerPCs \ {"none"} : Goes(w, from, to)
      BY WorkerGoes
    <2>2. QED
      BY <2>1 DEF TypeOK, FateInv, Goes
  <1>2. ASSUME pendingStops' \subseteq pendingStops, hardAborted' \subseteq hardAborted,
               \A m \in Messages : fate[m] = "queued" => fate'[m] # "cleared"
        PROVE  Scoped
    BY <1>2 DEF Scoped
  <1>3. CASE RunCommand(w)
    <2>1. CASE kind[w] = "stop"
      <3>1. \A x \in Messages : fate'[x] = fate[x] \/ session[x] = s
        BY <1>1, <1>3, <2>1, QueuedCleared DEF RunCommand
      <3>2. \A m \in hardAborted' \ hardAborted : session[m] = s
        <4>1. NoEntry.kind # "turn"
          BY DEF NoEntry
        <4>2. active[s].kind = "turn" => session[active[s].owner] = s
          BY <1>1, <4>1 DEF StopInv
        <4>3. QED
          BY <1>3, <2>1, <4>2 DEF RunCommand
      <3>3. worker[w] = "processing" /\ pendingStops' = pendingStops
        BY <1>3 DEF RunCommand, Goes
      <3>4. QED
        BY <2>1, <3>1, <3>2, <3>3 DEF Scoped
    <2>2. CASE kind[w] # "stop"
      BY <1>2, <1>3, <2>2 DEF RunCommand
    <2>3. QED
      BY <2>1, <2>2
  <1>4. ASSUME Register(w), fate' = [fate EXCEPT ![w] = "taken"] \/ UNCHANGED fate
        PROVE  Scoped
    <2>1. /\ pendingStops' \subseteq pendingStops
          /\ \A m \in Messages : fate[m] = "queued" => fate'[m] # "cleared"
      BY <1>1, <1>4 DEF Register, TypeOK
    <2>2. \A m \in hardAborted' \ hardAborted : m = w /\ s \in pendingStops
      BY <1>4 DEF Register
    <2>3. QED
      BY <2>1, <2>2 DEF StopInv, Scoped
  <1>5. CASE BeginTurn(w) \/ ContinueTurn(w)
    BY <1>4, <1>5 DEF BeginTurn, ContinueTurn
  <1>6. CASE PollTakes(w) \/ ContinueDequeue(w)
    <2>1. TakeBatch(w) \/ UNCHANGED fate
      BY <1>6 DEF PollTakes, ContinueDequeue
    <2>2. \A m \in Messages : fate[m] = "queued" => fate'[m] # "cleared"
      BY <1>1, <2>1, QueuedTaken
    <2>3. QED
      BY <1>2, <1>6, <2>2 DEF PollTakes, ContinueDequeue
  <1>7. CASE \/ AcquireSlot(w) \/ GiveUpWaiting(w) \/ TakeStop(w) \/ SkipMessage(w) \/ Start(w)
             \/ SetupFails(w) \/ PollEmpty(w)
    <2>1. UNCHANGED fate \/ \E f \in Fates \ {"cleared"} : fate' = [fate EXCEPT ![w] = f]
      BY <1>7 DEF AcquireSlot, GiveUpWaiting, TakeStop, SkipMessage, Start, SetupFails,
                  PollEmpty, Fates
    <2>2. pendingStops' \subseteq pendingStops /\ hardAborted' = hardAborted
      BY <1>7 DEF AcquireSlot, GiveUpWaiting, TakeStop, SkipMessage, Start, SetupFails,
                  PollEmpty
    <2>3. QED
      BY <1>2, <2>1, <2>2 DEF TypeOK
  <1>8. CASE FinishTurn(w) \/ AbortTurn(w) \/ TurnFails(w) \/ Panic(w)
    <2>1. EndTurn(w)
      BY <1>8 DEF FinishTurn, AbortTurn, TurnFails, Panic
    <2>2. QED
      BY <1>2, <2>1 DEF EndTurn
  <1>9. CASE \/ DrainCheck(w) \/ ContinueClaim(w) \/ ContinueFails(w) \/ ReleaseSlot(w)
             \/ CleanupObserve(w) \/ CleanupRelease(w) \/ PanicCleanup(w)
    BY <1>2, <1>9 DEF DrainCheck, ContinueClaim, ContinueFails, ReleaseSlot,
                      CleanupObserve, CleanupRelease, PanicCleanup
  <1>10. QED
    BY <1>3, <1>5, <1>6, <1>7, <1>8, <1>9 DEF Worker

(* What a /stop does stays in the session it was sent in: no other          *)
(* session's queue is cleared, turn aborted or stop armed, whichever step   *)
(* of which goroutine does it (agent_stop.go, and steering.go's HardAbort). *)
THEOREM StopIsScopedCorrect == Spec => StopIsScoped
  <1>1. /\ TypeOK /\ Fresh /\ FateInv /\ QueuedOnce /\ StopInv
        /\ [Next]_vars
        => [Scoped]_vars
    <2> SUFFICES ASSUME TypeOK, Fresh, FateInv, QueuedOnce, StopInv, [Next]_vars
                 PROVE  [Scoped]_vars
      OBVIOUS
    <2>1. CASE \E m \in Messages : Worker(m)
      BY <2>1, ScopedWorker
    <2>2. CASE Terminated \/ UNCHANGED vars
      BY <2>2 DEF Terminated
    <2>3. QED
      BY <2>1, <2>2, ScopedMain DEF Next
  <1>2. Spec => [][Scoped]_vars
    BY <1>1, StopInvCorrect, PTL DEF Spec
  <1>3. QED
    BY <1>2 DEF StopIsScoped, Scoped

=============================================================================
