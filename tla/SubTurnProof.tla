----------------------------- MODULE SubTurnProof -----------------------------
(* What is proved of SubTurn for every number of calls, every depth, every    *)
(* number of slots and every capacity of the channel of results.              *)
EXTENDS SubTurn, FiniteSetTheorems, SequenceTheorems, TLAPS

Past == {"running", "deliver", "send", "close", "done"}

(* Where a call has not been it has left no trace.                            *)
CallInv ==
    /\ \A c \in Subs : c > spawned => pc[c] = "none" /\ c \notin async /\ c \notin panicked
    /\ \A c \in panicked : pc[c] \in {"deliver", "send", "close", "done"}
    /\ \A c \in Subs : pc[c] \in {"deliver", "send"} => c \in async
    /\ \A t \in Turns : \A c \in children[t] : pc[c] \in Past

(* What a channel holds is what was sent and not read.                        *)
ResultInv ==
    /\ \A t \in Turns : \A i, j \in DOMAIN results[t] :
          results[t][i] = results[t][j] => i = j
    /\ \A t \in Turns, c \in Subs :
          (\E i \in DOMAIN results[t] : results[t][i] = c)
             <=> (outcome[c] = "sent" /\ parent[c] = t)
    /\ \A c \in Subs : pc[c] \notin {"close", "done"} => outcome[c] = "none"
    /\ \A c \in Subs : c \in async /\ pc[c] = "close" => outcome[c] # "none"
    /\ \A c \in Subs : c \notin async => outcome[c] = "none"

(* A child the target had is finished, over, or still to be visited.          *)
AbortInv ==
    /\ abort = "idle" => toFinish = {}
    /\ abort = "done" => toFinish = {}
    /\ abort # "idle" => doomed \subseteq children[target]
    /\ abort # "idle" /\ target # Root =>
          \A d \in doomed \cap registered :
              d \in finished \/ d \in toFinish \/ target \in toFinish

LEMMA Names == Subs \subseteq Turns /\ Root \in Turns /\ Root \notin Subs
  BY DEF Subs, Turns, Root

LEMMA SubsNumbered == Subs = 1 .. NumSpawns
  BY DEF Subs

USE SubTurnAssumption, Names

-----------------------------------------------------------------------------
LEMMA TypeInit == Init => TypeOK
  <1>1. <<>> \in Seq(Subs)
    BY EmptySeq
  <1>2. QED
    BY <1>1 DEF Init, TypeOK

LEMMA TypeTurns ==
    ASSUME TypeOK,
           \/ \E p \in Turns, a \in BOOLEAN : Spawn(p, a)
           \/ \E t \in Turns : Poll(t)
           \/ RootEnds
    PROVE  TypeOK'
  <1> USE DEF TypeOK, abortVars, spawnVars
  <1>1. CASE \E p \in Turns, a \in BOOLEAN : Spawn(p, a)
    <2>1. PICK p \in Turns, a \in BOOLEAN : Spawn(p, a)
      BY <1>1
    <2>2. spawned + 1 \in Subs
      BY <2>1, SubsNumbered DEF Spawn
    <2>3. spawned' \in 0 .. NumSpawns
      BY <2>1, <2>2, SubsNumbered DEF Spawn
    <2>4. /\ async' \subseteq Subs
          /\ parent' \in [Subs -> Turns]
      BY <2>1, <2>2 DEF Spawn
    <2>5. pc' \in [Turns -> {"none", "semWait", "admitted", "registered", "running",
                             "deliver", "send", "close", "done"}]
      BY <2>1, <2>2 DEF Spawn
    <2>6. QED
      BY <2>1, <2>3, <2>4, <2>5 DEF Spawn
  <1>2. CASE \E t \in Turns : Poll(t)
    <2>1. PICK t \in Turns : Poll(t)
      BY <1>2
    <2>2. Head(results[t]) \in Subs /\ Tail(results[t]) \in Seq(Subs)
      BY <2>1, HeadTailProperties DEF Poll
    <2>3. QED
      BY <2>1, <2>2 DEF Poll
  <1>3. CASE RootEnds
    BY <1>3 DEF RootEnds
  <1>4. QED
    BY <1>1, <1>2, <1>3

LEMMA TypeCall == ASSUME TypeOK, NEW c \in Subs, Call(c) PROVE TypeOK'
  <1> USE DEF TypeOK, abortVars, Goes, TakesSlot, GivesSlotBack
  <1>1. CASE Acquire(c)
    BY <1>1 DEF Acquire
  <1>2. CASE GiveUp(c)
    BY <1>2 DEF GiveUp
  <1>3. CASE Refuse(c)
    BY <1>3 DEF Refuse
  <1>4. CASE Register(c)
    <2>1. depth[parent[c]] \in 0 .. MaxDepth /\ depth[parent[c]] < MaxDepth
      BY <1>4 DEF Register, TooDeep
    <2>2. depth[parent[c]] + 1 \in 0 .. MaxDepth
      BY <2>1
    <2>3. QED
      BY <1>4, <2>2 DEF Register
  <1>5. CASE Link(c)
    BY <1>5 DEF Link
  <1>6. CASE End(c)
    BY <1>6 DEF End, TurnReturns
  <1>7. CASE Panic(c)
    BY <1>7 DEF Panic, TurnReturns
  <1>8. CASE DeliverLook(c)
    BY <1>8 DEF DeliverLook
  <1>9. CASE DeliverSend(c)
    <2>1. Append(results[parent[c]], c) \in Seq(Subs)
      BY AppendProperties
    <2>2. results' \in [Turns -> Seq(Subs)] /\ outcome' \in [Subs -> {"none", "sent", "read", "orphan"}]
      <3>1. CASE /\ results' = [results EXCEPT ![parent[c]] = Append(@, c)]
                 /\ outcome' = [outcome EXCEPT ![c] = "sent"]
        <4>1. results' \in [Turns -> Seq(Subs)]
          BY <2>1, <3>1
        <4>2. outcome' \in [Subs -> {"none", "sent", "read", "orphan"}]
          BY <3>1
        <4>3. QED
          BY <4>1, <4>2
      <3>2. CASE results' = results /\ outcome' = [outcome EXCEPT ![c] = "orphan"]
        BY <3>2
      <3>3. QED
        BY <1>9, <3>1, <3>2 DEF DeliverSend
    <2>3. pc' \in [Turns -> {"none", "semWait", "admitted", "registered", "running",
                             "deliver", "send", "close", "done"}]
      BY <1>9 DEF DeliverSend
    <2>4. UNCHANGED <<spawned, parent, async, abortVars, depth, sem, registered, children, panicked>>
      BY <1>9 DEF DeliverSend
    <2>5. QED
      BY <2>2, <2>3, <2>4
  <1>10. CASE Close(c)
    BY <1>10 DEF Close
  <1>11. QED
    BY <1>1, <1>2, <1>3, <1>4, <1>5, <1>6, <1>7, <1>8, <1>9, <1>10 DEF Call

LEMMA TypeAbort ==
    ASSUME TypeOK, (\E t \in Turns : HardAbort(t) \/ Finish(t)) \/ HardAbortReturns
    PROVE  TypeOK'
  BY DEF TypeOK, spawnVars, HardAbort, Finish, HardAbortReturns

LEMMA TypeStep == ASSUME TypeOK, [Next]_vars PROVE TypeOK'
  <1>1. CASE Over \/ UNCHANGED vars
    BY <1>1 DEF Over, vars, TypeOK, spawnVars, abortVars
  <1>2. QED
    BY <1>1, TypeTurns, TypeCall, TypeAbort DEF Next

(* The turns, their places and what they hold keep their types.              *)
THEOREM TypeCorrect == Spec => []TypeOK
  BY TypeInit, TypeStep, PTL DEF Spec

-----------------------------------------------------------------------------
LEMMA CallInit == Init => CallInv
  BY DEF Init, CallInv

(* A call that goes on has been made, and no other goes on with it.           *)
LEMMA GoesMoves ==
    ASSUME TypeOK, CallInv, NEW c \in Subs, NEW from, NEW to, from # "none", Goes(c, from, to)
    PROVE  /\ pc[c] = from /\ pc'[c] = to /\ \A d \in Turns \ {c} : pc'[d] = pc[d]
           /\ UNCHANGED <<spawned, parent, async, abortVars>> /\ c \in 1 .. spawned
           /\ \A d \in Subs : d = c \/ d \in Turns \ {c}
  <1>1. c \in 1 .. NumSpawns /\ spawned \in Nat
    BY SubsNumbered DEF TypeOK
  <1>2. c \in 1 .. spawned
    BY <1>1 DEF Goes, CallInv
  <1>3. QED
    BY <1>2 DEF Goes, TypeOK

LEMMA CallStep == ASSUME TypeOK, CallInv, [Next]_vars PROVE CallInv'
  <1> USE DEF TypeOK, CallInv
  <1>1. CASE \E p \in Turns, a \in BOOLEAN : Spawn(p, a)
    <2>1. PICK p \in Turns, a \in BOOLEAN : Spawn(p, a)
      BY <1>1
    <2> DEFINE c == spawned + 1
    <2>2. c \in Subs /\ c > spawned /\ c \notin panicked /\ \A t \in Turns : c \notin children[t]
      <3>1. c \in Subs /\ c > spawned
        BY <2>1, SubsNumbered DEF Spawn
      <3>2. pc[c] = "none" /\ c \notin panicked
        BY <3>1
      <3>3. QED
        BY <3>1, <3>2 DEF Past
    <2>3. /\ spawned' = c /\ panicked' = panicked /\ children' = children
          /\ pc'[c] \in {"admitted", "semWait"} /\ async' \subseteq async \union {c}
          /\ \A d \in Subs \ {c} : pc'[d] = pc[d] /\ (d \in async => d \in async')
      BY <2>1, <2>2 DEF Spawn
    <2>4. \A d \in Subs \ {c} : d > spawned' => d > spawned
      BY <2>2, <2>3, SubsNumbered
    <2>5. ~(c > spawned')
      BY <2>2, <2>3, SubsNumbered
    <2>6. \A d \in Subs : d # c => (d \in async' <=> d \in async)
      BY <2>3
    <2>7. QED
      BY <2>2, <2>3, <2>4, <2>5, <2>6 DEF Past
  <1>2. CASE (\E t \in Turns : Poll(t) \/ HardAbort(t) \/ Finish(t)) \/ HardAbortReturns
             \/ Over \/ UNCHANGED vars
    BY <1>2 DEF Poll, HardAbort, Finish, HardAbortReturns, Over, vars, spawnVars
  <1>3. CASE RootEnds
    BY <1>3 DEF RootEnds, spawnVars
  <1>4. ASSUME NEW c \in Subs, Call(c) PROVE CallInv'
    <2>1. ASSUME NEW from \in {"semWait", "admitted", "registered", "running", "deliver", "send",
                               "close"},
                 NEW to \in {"admitted", "registered", "running", "deliver", "send", "close", "done"},
                 Goes(c, from, to), from \in Past => to \in Past,
                 panicked' = panicked \/ (panicked' = panicked \union {c} /\ to \in {"deliver", "close"}),
                 c \in panicked => to \in {"deliver", "send", "close", "done"},
                 \/ children' = children
                 \/ children' = [children EXCEPT ![parent[c]] = @ \union {c}] /\ to \in Past,
                 to \in {"deliver", "send"} => c \in async
          PROVE  CallInv'
      <3>1. /\ pc[c] = from /\ pc'[c] = to /\ \A d \in Turns \ {c} : pc'[d] = pc[d]
            /\ spawned' = spawned /\ async' = async /\ ~(c > spawned)
            /\ \A d \in Subs : d = c \/ d \in Turns \ {c}
        <4>1. \A d \in 1 .. spawned : ~(d > spawned)
          OBVIOUS
        <4>2. QED
          BY <2>1, <4>1, GoesMoves
      <3>2. \A t \in Turns : \A d \in children'[t] : pc'[d] \in Past
        <4>1. ASSUME NEW t \in Turns, NEW d \in children[t]
              PROVE  pc'[d] \in Past
          BY <2>1, <3>1, <4>1
        <4>2. CASE children' = children
          BY <4>1, <4>2
        <4>3. CASE children' = [children EXCEPT ![parent[c]] = @ \union {c}] /\ to \in Past
          <5>1. ASSUME NEW t \in Turns PROVE children'[t] \subseteq children[t] \union {c}
            BY <4>3
          <5>2. QED
            BY <3>1, <4>1, <4>3, <5>1
        <4>4. QED
          BY <2>1, <4>2, <4>3
      <3>3. QED
        BY <2>1, <3>1, <3>2
    <2>2. CASE Link(c)
      <3>1. Goes(c, "registered", "running") /\ c \notin panicked
        BY <2>2 DEF Link, Goes
      <3>2. panicked' = panicked /\ children' = [children EXCEPT ![parent[c]] = @ \union {c}]
        BY <2>2 DEF Link
      <3>3. QED
        BY <2>1, <3>1, <3>2 DEF Past
    <2>3. CASE End(c)
      BY <2>1, <2>3 DEF End, TurnReturns, Goes, Past
    <2>4. CASE Panic(c)
      BY <2>1, <2>4 DEF Panic, TurnReturns, Goes, Past
    <2>5. CASE Acquire(c) \/ GiveUp(c) \/ Refuse(c)
      BY <2>1, <2>5 DEF Acquire, GiveUp, Refuse, Goes, Past
    <2>6. CASE Register(c)
      BY <2>1, <2>6 DEF Register, Goes, Past
    <2>7. CASE Close(c)
      BY <2>1, <2>7 DEF Close, Goes, Past
    <2>8. CASE DeliverLook(c)
      BY <2>1, <2>8 DEF DeliverLook, Goes, Past
    <2>9. CASE DeliverSend(c)
      BY <2>1, <2>9 DEF DeliverSend, Goes, Past
    <2>10. QED
      BY <1>4, <2>2, <2>3, <2>4, <2>5, <2>6, <2>7, <2>8, <2>9 DEF Call
  <1>5. QED
    BY <1>1, <1>2, <1>3, <1>4 DEF Next

-----------------------------------------------------------------------------
(* The calls that hold a slot of t.                                          *)
Holders(t) == {c \in 1 .. spawned :
                 /\ parent[c] = t
                 /\ \/ pc[c] \in {"admitted", "registered", "running"}
                    \/ c \in panicked /\ pc[c] # "done"}

LEMMA SlotsInit == Init => SlotsBounded
  <1> SUFFICES ASSUME Init PROVE SlotsBounded
    OBVIOUS
  <1>1. \A t \in Turns : sem[t] = {}
    BY DEF Init
  <1>2. 1 .. spawned = {}
    BY DEF Init
  <1>3. QED
    BY <1>1, <1>2, FS_EmptySet DEF SlotsBounded

LEMMA SlotsFinite == ASSUME TypeOK, NEW t \in Turns PROVE IsFiniteSet(sem[t])
  <1>1. IsFiniteSet(Subs)
    BY FS_Interval, SubsNumbered
  <1>2. QED
    BY <1>1, FS_Subset DEF TypeOK

(* A call changes its own place only, and its parent's slots only.           *)
LEMMA SlotsCall ==
    ASSUME TypeOK, CallInv, SlotsBounded, NEW c \in Subs, Call(c)
    PROVE  SlotsBounded'
  <1> DEFINE p == parent[c]
             holds == pc[c] \in {"admitted", "registered", "running"}
                      \/ (c \in panicked /\ pc[c] # "done")
             holdsThen == pc'[c] \in {"admitted", "registered", "running"}
                          \/ (c \in panicked' /\ pc'[c] # "done")
  <1>0. PICK from \in {"semWait", "admitted", "registered", "running", "deliver", "send", "close"},
             to \in {"admitted", "registered", "running", "deliver", "send", "close", "done"} :
             Goes(c, from, to)
    BY DEF Call, Acquire, GiveUp, Refuse, Register, Link, End, Panic, TurnReturns, DeliverLook,
           DeliverSend, Close
  <1>1. /\ spawned' = spawned /\ parent' = parent /\ c \in 1 .. spawned /\ p \in Turns
        /\ \A d \in Subs \ {c} : pc'[d] = pc[d] /\ (d \in panicked' <=> d \in panicked)
    <2>1. panicked' = panicked \/ panicked' = panicked \union {c}
      BY DEF Call, Acquire, GiveUp, Refuse, Register, Link, End, Panic, DeliverLook,
             DeliverSend, Close
    <2>2. QED
      BY <1>0, <2>1, GoesMoves DEF TypeOK
  <1>2. sem \in [Turns -> SUBSET Subs] /\ \A t \in Subs : sem[t] = Holders(t)
    BY DEF TypeOK, SlotsBounded, Holders
  <1>3. ASSUME sem' = [sem EXCEPT ![p] = IF holdsThen THEN @ \union {c} ELSE @ \ {c}]
        PROVE  \A t \in Subs : sem'[t] = Holders(t)'
    <2> SUFFICES ASSUME NEW t \in Subs PROVE sem'[t] = Holders(t)'
      OBVIOUS
    <2>1. 1 .. spawned \subseteq Subs
      BY SubsNumbered DEF TypeOK
    <2>2. CASE t # p
      <3>1. sem'[t] = sem[t]
        BY <1>2, <1>3, <2>2
      <3>2. Holders(t)' = Holders(t)
        BY <1>1, <2>1, <2>2 DEF Holders
      <3>3. QED
        BY <1>2, <3>1, <3>2
    <2>3. CASE t = p
      <3>1. sem'[t] = IF holdsThen THEN sem[t] \union {c} ELSE sem[t] \ {c}
        BY <1>2, <1>3, <2>3
      <3>2. \A d \in (1 .. spawned) \ {c} : d \in Holders(t)' <=> d \in Holders(t)
        BY <1>1, <2>1 DEF Holders
      <3>3. c \in Holders(t)' <=> holdsThen
        BY <1>1, <2>3 DEF Holders
      <3>4. Holders(t)' \subseteq 1 .. spawned /\ Holders(t) \subseteq 1 .. spawned
        BY <1>1 DEF Holders
      <3>5. QED
        BY <1>2, <3>1, <3>2, <3>3, <3>4
    <2>4. QED
      BY <2>2, <2>3
  <1>4. ASSUME sem' = sem, holds <=> holdsThen
        PROVE  \A t \in Subs : sem'[t] = Holders(t)'
    <2>0. 1 .. spawned \subseteq Subs
      BY SubsNumbered DEF TypeOK
    <2>1. \A t \in Subs : Holders(t)' = Holders(t)
      <3> SUFFICES ASSUME NEW t \in Subs, NEW d \in 1 .. spawned
                   PROVE  d \in Holders(t)' <=> d \in Holders(t)
        BY <1>1 DEF Holders
      <3>1. CASE d = c
        BY <1>1, <1>4, <3>1 DEF Holders
      <3>2. CASE d # c
        BY <1>1, <2>0, <3>2 DEF Holders
      <3>3. QED
        BY <3>1, <3>2
    <2>2. QED
      BY <1>2, <1>4, <2>1
  <1>5. \A t \in Subs : sem'[t] = Holders(t)'
    <2> USE DEF Goes, TakesSlot, GivesSlotBack, TypeOK, CallInv
    <2>1. CASE Acquire(c)
      <3>1. holdsThen
        BY <2>1 DEF Acquire
      <3>2. QED
        BY <1>3, <2>1, <3>1 DEF Acquire
    <2>2. CASE Refuse(c) \/ Close(c)
      <3>1. ~holdsThen
        BY <2>2 DEF Refuse, Close
      <3>2. QED
        BY <1>3, <2>2, <3>1 DEF Refuse, Close
    <2>3. CASE End(c)
      <3>1. ~holdsThen
        BY <2>3 DEF End, TurnReturns
      <3>2. QED
        BY <1>3, <2>3, <3>1 DEF End
    <2>4. CASE GiveUp(c)
      <3>1. ~holds /\ ~holdsThen
        BY <2>4 DEF GiveUp
      <3>2. QED
        BY <1>4, <2>4, <3>1 DEF GiveUp
    <2>5. CASE Register(c) \/ Link(c)
      <3>1. holds /\ holdsThen
        BY <2>5 DEF Register, Link
      <3>2. QED
        BY <1>4, <2>5, <3>1 DEF Register, Link
    <2>6. CASE Panic(c)
      <3>1. holds /\ holdsThen
        BY <2>6 DEF Panic, TurnReturns
      <3>2. QED
        BY <1>4, <2>6, <3>1 DEF Panic
    <2>7. CASE DeliverLook(c) \/ DeliverSend(c)
      <3>1. sem' = sem /\ (holds <=> holdsThen)
        BY <2>7 DEF DeliverLook, DeliverSend
      <3>2. QED
        BY <1>4, <3>1
    <2>8. QED
      BY <2>1, <2>2, <2>3, <2>4, <2>5, <2>6, <2>7 DEF Call
  <1>6. ASSUME NEW t \in Subs PROVE Cardinality(sem'[t]) <= MaxConcurrent
    <2>1. Cardinality(sem[t]) <= MaxConcurrent /\ Cardinality(sem[t]) \in Nat /\ IsFiniteSet(sem[t])
      BY SlotsFinite, FS_CardinalityType DEF SlotsBounded
    <2>2. CASE Acquire(c) /\ t = p
      <3>1. Cardinality(sem[t]) < MaxConcurrent /\ sem'[t] = sem[t] \union {c}
        BY <1>2, <2>2 DEF Acquire, TakesSlot
      <3> DEFINE before == sem[t]
      <3> HIDE DEF before
      <3>2. IsFiniteSet(before)
        BY <2>1 DEF before
      <3>3. \/ Cardinality(before \union {c}) = Cardinality(before)
            \/ Cardinality(before \union {c}) = Cardinality(before) + 1
        BY <3>2, FS_AddElement
      <3>4. QED
        BY <2>1, <3>1, <3>3 DEF before
    <2>3. CASE ~(Acquire(c) /\ t = p)
      <3>1. sem'[t] \subseteq sem[t]
        BY <1>2, <2>3 DEF Call, Acquire, GiveUp, Refuse, Register, Link, End, Panic, TurnReturns,
                          DeliverLook, DeliverSend, Close, TakesSlot, GivesSlotBack
      <3>2. Cardinality(sem'[t]) <= Cardinality(sem[t]) /\ Cardinality(sem'[t]) \in Nat
        BY <2>1, <3>1, FS_Subset, FS_CardinalityType
      <3>3. QED
        BY <2>1, <3>2
    <2>4. QED
      BY <2>2, <2>3
  <1>7. QED
    BY <1>5, <1>6 DEF SlotsBounded, Holders

LEMMA SlotsStep == ASSUME TypeOK, CallInv, SlotsBounded, [Next]_vars PROVE SlotsBounded'
  <1> DEFINE Bound == \A t \in Subs : Cardinality(sem[t]) <= MaxConcurrent
  <1>1. ASSUME sem' = sem, \A t \in Subs : Holders(t)' = Holders(t) PROVE SlotsBounded'
    BY <1>1 DEF SlotsBounded, Holders
  <1>2. 1 .. spawned \subseteq Subs /\ 1 .. spawned \subseteq Turns
    BY SubsNumbered DEF TypeOK
  <1>3. CASE \E p \in Turns, a \in BOOLEAN : Spawn(p, a)
    <2>1. PICK p \in Turns, a \in BOOLEAN : Spawn(p, a)
      BY <1>3
    <2> DEFINE c == spawned + 1
    <2>2. c \in Subs /\ c > spawned /\ 1 .. spawned' = (1 .. spawned) \union {c} /\ c \notin 1 .. spawned
      <3>1. spawned \in Nat /\ spawned' = spawned + 1 /\ c \in Subs
        BY <2>1, SubsNumbered DEF Spawn, TypeOK
      <3>2. QED
        BY <3>1
    <2>3. c \notin panicked' /\ panicked' = panicked /\ sem' = sem
      BY <2>1, <2>2 DEF Spawn, CallInv
    <2>4. /\ pc'[c] = IF p = Root THEN "admitted" ELSE "semWait"
          /\ parent'[c] = p
          /\ \A d \in 1 .. spawned : pc'[d] = pc[d] /\ parent'[d] = parent[d]
      BY <1>2, <2>1, <2>2 DEF Spawn, TypeOK
    <2> HIDE DEF c
    <2>5. ASSUME NEW t \in Subs PROVE Holders(t)' = Holders(t)
      <3>1. c \notin Holders(t)'
        BY <2>3, <2>4 DEF Holders
      <3>2. \A d \in 1 .. spawned : d \in Holders(t)' <=> d \in Holders(t)
        BY <2>2, <2>3, <2>4 DEF Holders
      <3>3. Holders(t)' \subseteq 1 .. spawned' /\ Holders(t) \subseteq 1 .. spawned
        BY DEF Holders
      <3>4. QED
        BY <2>2, <3>1, <3>2, <3>3
    <2>6. QED
      BY <1>1, <2>3, <2>5
  <1>4. CASE \/ (\E t \in Turns : Poll(t) \/ HardAbort(t) \/ Finish(t)) \/ HardAbortReturns
             \/ Over \/ UNCHANGED vars
    <2>1. UNCHANGED <<sem, spawned, pc, parent, panicked>>
      BY <1>4 DEF Poll, HardAbort, Finish, HardAbortReturns, Over, vars, spawnVars
    <2>2. QED
      BY <1>1, <2>1 DEF Holders
  <1>5. CASE RootEnds
    <2>1. UNCHANGED <<sem, spawned, parent, panicked>> /\ \A d \in Subs : pc'[d] = pc[d]
      BY <1>5 DEF RootEnds, spawnVars, TypeOK
    <2>2. \A t \in Subs : Holders(t)' = Holders(t)
      BY <1>2, <2>1 DEF Holders
    <2>3. QED
      BY <1>1, <2>1, <2>2
  <1>6. QED
    BY <1>3, <1>4, <1>5, SlotsCall DEF Next

(* A sub-turn never has more than MaxConcurrent children at work, and every  *)
(* slot it gave is held by one of them, whatever ends, fails or panics.      *)
THEOREM SlotsBoundedCorrect == Spec => []SlotsBounded
  BY TypeInit, TypeStep, CallInit, CallStep, SlotsInit, SlotsStep, PTL DEF Spec

-----------------------------------------------------------------------------
LEMMA AbortInit == Init => AbortInv
  BY DEF Init, AbortInv

LEMMA AbortStep == ASSUME TypeOK, CallInv, AbortInv, [Next]_vars PROVE AbortInv'
  <1> USE DEF TypeOK, AbortInv, abortVars, spawnVars
  <1>1. CASE \E t \in Turns : HardAbort(t)
    BY <1>1 DEF HardAbort
  <1>2. CASE \E t \in Turns : Finish(t)
    <2>1. PICK t \in Turns : Finish(t)
      BY <1>2
    <2>2. abort # "idle" /\ abort # "done"
      BY <2>1 DEF Finish
    <2>3. CASE t = target
      BY <2>1, <2>2, <2>3 DEF Finish
    <2>4. CASE t # target
      BY <2>1, <2>2, <2>4 DEF Finish
    <2>5. QED
      BY <2>3, <2>4
  <1>3. CASE HardAbortReturns
    BY <1>3 DEF HardAbortReturns
  <1>4. ASSUME UNCHANGED abortVars,
               \A t \in Turns : children[t] \subseteq children'[t],
               \A t \in Turns : \A d \in children[t] : d \in registered' => d \in registered
        PROVE  AbortInv'
    BY <1>4
  <1>5. CASE (\E p \in Turns, a \in BOOLEAN : Spawn(p, a)) \/ (\E t \in Turns : Poll(t))
             \/ RootEnds \/ Over \/ UNCHANGED vars
    BY <1>4, <1>5 DEF Spawn, Poll, RootEnds, Over, vars
  <1>6. ASSUME NEW c \in Subs, Register(c) PROVE AbortInv'
    <2>1. \A t \in Turns : c \notin children[t]
      BY <1>6 DEF Register, Goes, CallInv, Past
    <2>2. QED
      BY <1>4, <1>6, <2>1 DEF Register, Goes
  <1>7. ASSUME NEW c \in Subs, Call(c), ~Register(c) PROVE AbortInv'
    <2>1. registered' \subseteq registered /\ UNCHANGED abortVars
      BY <1>7 DEF Call, Acquire, GiveUp, Refuse, Link, End, Panic, TurnReturns, DeliverLook,
                  DeliverSend, Close, Goes
    <2>2. \/ children' = children
          \/ children' = [children EXCEPT ![parent[c]] = @ \union {c}]
      BY <1>7 DEF Call, Acquire, GiveUp, Refuse, Link, End, Panic, TurnReturns, DeliverLook,
                  DeliverSend, Close
    <2>3. ASSUME NEW t \in Turns PROVE children[t] \subseteq children'[t]
      <3>1. CASE children' = [children EXCEPT ![parent[c]] = @ \union {c}]
        BY <3>1
      <3>2. QED
        BY <2>2, <3>1
    <2>4. QED
      BY <1>4, <2>1, <2>3
  <1>8. QED
    BY <1>1, <1>2, <1>3, <1>5, <1>6, <1>7 DEF Next

(* When HardAbort of a sub-turn returns, every child the turn had when it    *)
(* was called is cancelled or over, however the tree changed meanwhile.      *)
THEOREM AbortReachesChildrenCorrect == Spec => []AbortReachesChildren
  <1>1. TypeOK /\ AbortInv => AbortReachesChildren
    BY DEF TypeOK, AbortInv, AbortReachesChildren
  <1>2. QED
    BY <1>1, TypeInit, TypeStep, CallInit, CallStep, AbortInit, AbortStep, PTL DEF Spec

-----------------------------------------------------------------------------
(* What the steps of a channel do to what it holds.                          *)
Distinct(q) == \A i, j \in DOMAIN q : q[i] = q[j] => i = j
In(c, q) == \E i \in DOMAIN q : q[i] = c

LEMMA AppendHolds ==
    ASSUME NEW q \in Seq(Subs), NEW c \in Subs, Distinct(q), ~In(c, q)
    PROVE  /\ Distinct(Append(q, c))
           /\ \A d \in Subs : In(d, Append(q, c)) <=> In(d, q) \/ d = c
  <1> DEFINE r == Append(q, c)
  <1>1. Len(q) \in Nat /\ DOMAIN q = 1 .. Len(q)
    BY LenProperties
  <1>2. /\ r \in Seq(Subs) /\ Len(r) = Len(q) + 1 /\ r[Len(q) + 1] = c
        /\ \A i \in 1 .. Len(q) : r[i] = q[i]
    BY AppendProperties
  <1>3. DOMAIN r = 1 .. Len(q) + 1
    BY <1>2, LenProperties
  <1> HIDE DEF r
  <1>4. \A i \in DOMAIN r : i \in DOMAIN q \/ i = Len(q) + 1
    BY <1>1, <1>3
  <1>5. Distinct(r)
    BY <1>1, <1>2, <1>4 DEF Distinct, In
  <1>6. Len(q) + 1 \in DOMAIN r /\ \A i \in DOMAIN q : i \in DOMAIN r
    BY <1>1, <1>3
  <1>7. \A d \in Subs : In(d, r) <=> In(d, q) \/ d = c
    BY <1>1, <1>2, <1>4, <1>6 DEF In
  <1>8. QED
    BY <1>5, <1>7 DEF r

LEMMA TailHolds ==
    ASSUME NEW q \in Seq(Subs), q # <<>>, Distinct(q)
    PROVE  /\ Distinct(Tail(q)) /\ Head(q) \in Subs /\ In(Head(q), q)
           /\ \A d \in Subs : In(d, Tail(q)) <=> In(d, q) /\ d # Head(q)
  <1>1. Len(q) \in Nat \ {0} /\ DOMAIN q = 1 .. Len(q) /\ Head(q) = q[1] /\ Head(q) \in Subs
    BY LenProperties, EmptySeq, HeadTailProperties
  <1>2. /\ Tail(q) \in Seq(Subs) /\ Len(Tail(q)) = Len(q) - 1
        /\ \A i \in 1 .. Len(Tail(q)) : Tail(q)[i] = q[i + 1]
    BY HeadTailProperties
  <1>3. DOMAIN Tail(q) = 1 .. Len(q) - 1
    BY <1>2, LenProperties
  <1>4. \A i \in DOMAIN Tail(q) : i + 1 \in DOMAIN q /\ i + 1 # 1 /\ Tail(q)[i] = q[i + 1]
    BY <1>1, <1>2, <1>3
  <1>5. \A i \in DOMAIN q : i = 1 \/ (i - 1 \in DOMAIN Tail(q) /\ Tail(q)[i - 1] = q[i])
    BY <1>1, <1>2, <1>3
  <1>6. 1 \in DOMAIN q
    BY <1>1
  <1>7. \A i, j \in DOMAIN Tail(q) : i + 1 = j + 1 => i = j
    BY <1>1, <1>3
  <1>8. Distinct(Tail(q))
    BY <1>4, <1>7 DEF Distinct
  <1>9. \A d \in Subs : In(d, Tail(q)) <=> In(d, q) /\ d # Head(q)
    <2> TAKE d \in Subs
    <2>1. In(d, Tail(q)) => In(d, q) /\ d # Head(q)
      BY <1>1, <1>4, <1>6 DEF In, Distinct
    <2>2. In(d, q) /\ d # Head(q) => In(d, Tail(q))
      BY <1>1, <1>5 DEF In
    <2>3. QED
      BY <2>1, <2>2
  <1>10. QED
    BY <1>1, <1>6, <1>8, <1>9 DEF In

LEMMA ResultInit == Init => ResultInv
  <1> SUFFICES ASSUME Init PROVE ResultInv
    OBVIOUS
  <1>1. \A t \in Turns : DOMAIN results[t] = {}
    BY DEF Init
  <1>2. QED
    BY <1>1 DEF Init, ResultInv

LEMMA ResultForm ==
    ResultInv <=>
        /\ \A t \in Turns : Distinct(results[t])
        /\ \A t \in Turns, c \in Subs :
              In(c, results[t]) <=> (outcome[c] = "sent" /\ parent[c] = t)
        /\ \A c \in Subs : pc[c] \notin {"close", "done"} => outcome[c] = "none"
        /\ \A c \in Subs : c \in async /\ pc[c] = "close" => outcome[c] # "none"
        /\ \A c \in Subs : c \notin async => outcome[c] = "none"
  BY DEF ResultInv, Distinct, In

LEMMA ResultPoll == ASSUME TypeOK, ResultInv, NEW t \in Turns, Poll(t) PROVE ResultInv'
  <1> DEFINE h == Head(results[t])
  <1>1. results[t] \in Seq(Subs) /\ results[t] # <<>> /\ Distinct(results[t])
    BY ResultForm DEF TypeOK, Poll
  <1>2. /\ Distinct(Tail(results[t])) /\ h \in Subs /\ In(h, results[t])
        /\ \A d \in Subs : In(d, Tail(results[t])) <=> In(d, results[t]) /\ d # h
    BY <1>1, TailHolds
  <1>3. outcome[h] = "sent" /\ parent[h] = t
    BY <1>2, ResultForm
  <1> HIDE DEF h
  <1>4. /\ results'[t] = Tail(results[t]) /\ \A u \in Turns \ {t} : results'[u] = results[u]
        /\ outcome'[h] = "read" /\ \A d \in Subs \ {h} : outcome'[d] = outcome[d]
        /\ pc' = pc /\ parent' = parent /\ async' = async
    BY <1>2 DEF Poll, TypeOK, h, spawnVars
  <1>5. \A u \in Turns : Distinct(results'[u])
    BY <1>2, <1>4, ResultForm
  <1>6. \A u \in Turns, c \in Subs :
            In(c, results'[u]) <=> (outcome'[c] = "sent" /\ parent'[c] = u)
    BY <1>2, <1>3, <1>4, ResultForm
  <1>7. \A c \in Subs : /\ pc[c] \notin {"close", "done"} => outcome'[c] = "none"
                        /\ c \in async /\ pc[c] = "close" => outcome'[c] # "none"
                        /\ c \notin async => outcome'[c] = "none"
    BY <1>2, <1>3, <1>4, ResultForm
  <1>8. QED
    BY <1>4, <1>5, <1>6, <1>7 DEF ResultInv, Distinct, In

(* A step of c that decides about its result, or leaves it.                  *)
LEMMA ResultGoes ==
    ASSUME TypeOK, CallInv, ResultInv, NEW c \in Subs, NEW from, NEW to,
           from \notin {"none", "close", "done"}, Goes(c, from, to),
           results' = results, outcome' = outcome \/ outcome' = [outcome EXCEPT ![c] = "orphan"],
           outcome' # outcome => c \in async /\ to \in {"close", "done"},
           c \in async /\ to = "close" => outcome'[c] # "none"
    PROVE  ResultInv'
  <1>a. /\ pc[c] = from /\ pc'[c] = to /\ parent' = parent /\ async' = async
        /\ \A d \in Subs \ {c} : pc'[d] = pc[d]
    BY GoesMoves
  <1>b. \A d \in Subs \ {c} : outcome'[d] = outcome[d]
    BY DEF TypeOK
  <1>1. /\ pc[c] = from /\ pc'[c] = to /\ parent' = parent /\ async' = async
        /\ \A d \in Subs \ {c} : pc'[d] = pc[d] /\ outcome'[d] = outcome[d]
    BY <1>a, <1>b
  <1>2. outcome[c] = "none" /\ outcome'[c] \in {"none", "orphan"}
    BY <1>1 DEF ResultInv, TypeOK
  <1>3. outcome'[c] # "none" => c \in async /\ to \in {"close", "done"}
    BY <1>2
  <1>4. QED
    BY <1>1, <1>2, <1>3 DEF ResultInv

LEMMA ResultSent ==
    ASSUME TypeOK, CallInv, ResultInv, NEW c \in Subs, Goes(c, "send", "close"),
           results' = [results EXCEPT ![parent[c]] = Append(@, c)],
           outcome' = [outcome EXCEPT ![c] = "sent"]
    PROVE  ResultInv'
  <1> DEFINE p == parent[c]
             q == results[p]
  <1>1. /\ pc[c] = "send" /\ pc'[c] = "close" /\ parent' = parent /\ async' = async
        /\ c \in async /\ outcome'[c] = "sent"
        /\ \A d \in Subs \ {c} : pc'[d] = pc[d] /\ outcome'[d] = outcome[d]
    BY SMTT(40), GoesMoves DEF TypeOK, CallInv
  <1>2. p \in Turns /\ q \in Seq(Subs) /\ Distinct(q) /\ ~In(c, q) /\ outcome[c] = "none"
    <2>1. p \in Turns /\ q \in Seq(Subs)
      BY DEF TypeOK
    <2>2. outcome[c] = "none"
      BY <1>1, ResultForm
    <2>3. Distinct(q) /\ (In(c, q) <=> (outcome[c] = "sent" /\ parent[c] = p))
      BY <2>1, ResultForm
    <2>4. QED
      BY <2>1, <2>2, <2>3
  <1>3. /\ results'[p] = Append(q, c) /\ \A u \in Turns \ {p} : results'[u] = results[u]
    BY <1>2 DEF TypeOK
  <1>4. /\ Distinct(results'[p])
        /\ \A d \in Subs : In(d, results'[p]) <=> In(d, q) \/ d = c
    BY <1>2, <1>3, AppendHolds
  <1> HIDE DEF p
  <1>5. \A u \in Turns : Distinct(results'[u])
    BY <1>3, <1>4, ResultForm
  <1>6. \A u \in Turns, d \in Subs :
            In(d, results'[u]) <=> (outcome'[d] = "sent" /\ parent[d] = u)
    <2> TAKE u \in Turns, d \in Subs
    <2>1. In(d, results[u]) <=> (outcome[d] = "sent" /\ parent[d] = u)
      BY ResultForm
    <2>2. CASE u = p
      BY <1>1, <1>4, <2>1, <2>2 DEF p
    <2>3. CASE u # p
      BY <1>1, <1>2, <1>3, <2>1, <2>3 DEF p
    <2>4. QED
      BY <2>2, <2>3
  <1>7. \A d \in Subs : /\ pc'[d] \notin {"close", "done"} => outcome'[d] = "none"
                        /\ d \in async /\ pc'[d] = "close" => outcome'[d] # "none"
                        /\ d \notin async => outcome'[d] = "none"
    BY <1>1, ResultForm
  <1>8. QED
    BY <1>1, <1>5, <1>6, <1>7 DEF ResultInv, Distinct, In

LEMMA ResultStep == ASSUME TypeOK, CallInv, ResultInv, [Next]_vars PROVE ResultInv'
  <1>1. CASE \E p \in Turns, a \in BOOLEAN : Spawn(p, a)
    <2>1. PICK p \in Turns, a \in BOOLEAN : Spawn(p, a)
      BY <1>1
    <2> DEFINE c == spawned + 1
    <2>2. c \in Subs /\ c > spawned
      BY <2>1, SubsNumbered DEF Spawn, TypeOK
    <2>3. outcome[c] = "none"
      BY <2>2 DEF CallInv, ResultInv
    <2>4. /\ results' = results /\ outcome' = outcome /\ pc'[c] \in {"admitted", "semWait"}
          /\ async' \subseteq async \union {c} /\ async \subseteq async'
          /\ \A d \in Subs \ {c} : pc'[d] = pc[d] /\ parent'[d] = parent[d]
      BY <2>1, <2>2 DEF Spawn, TypeOK
    <2> HIDE DEF c
    <2>5. QED
      BY <2>2, <2>3, <2>4 DEF ResultInv
  <1>2. CASE \E t \in Turns : Poll(t)
    BY <1>2, ResultPoll
  <1>3. CASE \/ (\E t \in Turns : HardAbort(t) \/ Finish(t)) \/ HardAbortReturns
             \/ RootEnds \/ Over \/ UNCHANGED vars
    <2>1. UNCHANGED <<results, outcome, parent, async>> /\ \A d \in Subs : pc'[d] = pc[d]
      BY <1>3 DEF HardAbort, Finish, HardAbortReturns, RootEnds, Over, vars, spawnVars, TypeOK
    <2>2. QED
      BY <2>1 DEF ResultInv
  <1>4. ASSUME NEW c \in Subs, Call(c) PROVE ResultInv'
    <2>1. CASE Acquire(c) \/ GiveUp(c) \/ Refuse(c) \/ Register(c) \/ Link(c)
      BY <2>1, ResultGoes DEF Acquire, GiveUp, Refuse, Register, Link
    <2>2. CASE End(c) \/ Panic(c)
      BY <2>2, ResultGoes DEF End, Panic, TurnReturns
    <2>3. CASE DeliverLook(c)
      <3>1. c \in async /\ outcome \in [Subs -> {"none", "sent", "read", "orphan"}]
        BY <2>3 DEF DeliverLook, Goes, CallInv, TypeOK
      <3>2. QED
        BY <2>3, <3>1, ResultGoes DEF DeliverLook
    <2>4. CASE DeliverSend(c) /\ results' # results
      BY <2>4, ResultSent DEF DeliverSend
    <2>5. CASE DeliverSend(c) /\ results' = results
      <3>1. c \in async /\ outcome \in [Subs -> {"none", "sent", "read", "orphan"}]
        BY <2>5 DEF DeliverSend, Goes, CallInv, TypeOK
      <3>2. CASE outcome' = [outcome EXCEPT ![c] = "orphan"]
        BY <2>5, <3>1, <3>2, ResultGoes DEF DeliverSend
      <3>3. CASE outcome' = [outcome EXCEPT ![c] = "sent"]
                 /\ results' = [results EXCEPT ![parent[c]] = Append(@, c)]
        BY <2>5, <3>3, ResultSent DEF DeliverSend
      <3>4. QED
        BY <2>5, <3>2, <3>3 DEF DeliverSend
    <2>6. CASE Close(c)
      <3>1. /\ pc'[c] = "done" /\ \A d \in Subs \ {c} : pc'[d] = pc[d]
            /\ UNCHANGED <<results, outcome, parent, async>>
        BY <2>6, GoesMoves DEF Close, TypeOK
      <3>2. QED
        BY <3>1 DEF ResultInv
    <2>7. QED
      BY <1>4, <2>1, <2>2, <2>3, <2>4, <2>5, <2>6 DEF Call
  <1>5. QED
    BY <1>1, <1>2, <1>3, <1>4 DEF Next

(* The result of an asynchronous call is in its parent's channel, read or an *)
(* orphan, and in one of these only, however sends, polls and ends meet.     *)
THEOREM ResultOnceCorrect == Spec => []ResultOnce
  <1>1. TypeOK /\ ResultInv => ResultOnce
    <2> SUFFICES ASSUME TypeOK, ResultInv, NEW c \in Subs PROVE
                   /\ \A t \in Turns : Cardinality(Held(c, t)) =
                          (IF outcome[c] = "sent" /\ parent[c] = t THEN 1 ELSE 0)
                   /\ c \in async /\ pc[c] = "close" => outcome[c] # "none"
                   /\ c \notin async => outcome[c] = "none"
      BY DEF ResultOnce
    <2>1. ASSUME NEW t \in Turns
          PROVE  Cardinality(Held(c, t)) =
                   (IF outcome[c] = "sent" /\ parent[c] = t THEN 1 ELSE 0)
      <3>1. CASE outcome[c] = "sent" /\ parent[c] = t
        <4>1. PICK i \in DOMAIN results[t] : results[t][i] = c
          BY <3>1 DEF ResultInv
        <4>2. Held(c, t) = {i}
          BY <4>1 DEF Held, ResultInv
        <4>3. Cardinality({i}) = 1
          BY FS_Singleton
        <4>4. QED
          BY <3>1, <4>2, <4>3
      <3>2. CASE ~(outcome[c] = "sent" /\ parent[c] = t)
        <4>1. Held(c, t) = {}
          BY <3>2 DEF Held, ResultInv
        <4>2. QED
          BY <3>2, <4>1, FS_EmptySet
      <3>3. QED
        BY <3>1, <3>2
    <2>2. QED
      BY <2>1 DEF ResultInv
  <1>2. QED
    BY <1>1, TypeInit, TypeStep, CallInit, CallStep, ResultInit, ResultStep, PTL DEF Spec
=============================================================================
