--------------------------- MODULE MessageBusProof ---------------------------
(* What is proved of MessageBus for every number of streams, publishers,   *)
(* closers and buffer places.                                              *)
EXTENDS MessageBus, FiniteSetTheorems, SequenceTheorems, TLAPS

(* The facts that make the closing of the channels safe.  The WaitGroup    *)
(* counts the calls between enterPublish and their deferred Done; none is  *)
(* counted any more from the moment Wait returns, because closed refuses   *)
(* the new ones; a channel is closed only after that.                      *)
CountInv == wg = Cardinality({m \in Publications : InFlight(m)})
PhaseInv ==
    /\ once \in {"no", "flag"} <=> ~closed
    /\ once \in {"close", "drain", "finished"} => \A m \in Publications : ~InFlight(m)
    /\ shut # {} => once \in {"close", "drain", "finished"}
    /\ \A m \in Publications : pub[m] # "panicked"

CloseStep ==
    \/ RaiseClosed \/ WaitPublishers \/ CloseFinishes
    \/ \E s \in Streams : CloseChannel(s) \/ Drain(s)

USE BusAssumption

-----------------------------------------------------------------------------
LEMMA TypeInit == Init => TypeOK
  <1> SUFFICES ASSUME Init PROVE TypeOK
    OBVIOUS
  <1>1. buffer \in [Streams -> Seq(Publications)]
    BY EmptySeq DEF Init
  <1>2. QED
    BY <1>1 DEF Init, TypeOK

LEMMA CountedIsFinite == IsFiniteSet({m \in Publications : InFlight(m)})
  BY FS_Subset

(* A call is counted as long as it is in flight, so a call that leaves      *)
(* finds the counter above zero.                                            *)
LEMMA CountPositive ==
    ASSUME CountInv, NEW m \in Publications, InFlight(m)
    PROVE  wg \in Nat \ {0}
  <1>1. {x \in Publications : InFlight(x)} # {}
    OBVIOUS
  <1>2. QED
    BY <1>1, CountedIsFinite, FS_EmptySet, FS_CardinalityType DEF CountInv

LEMMA TypePublisher ==
    ASSUME TypeOK, CountInv, NEW m \in Publications, Call(m) \/ Publisher(m)
    PROVE  TypeOK'
  <1> USE DEF TypeOK, Goes, Returns
  <1>1. CASE Call(m)
    <2>1. CASE RefuseInvalid(m)
      BY <2>1 DEF RefuseInvalid
    <2>2. CASE EnterRefused(m)
      BY <2>2 DEF EnterRefused
    <2>3. CASE EnterPublish(m)
      BY <2>3 DEF EnterPublish
    <2>4. QED
      BY <1>1, <2>1, <2>2, <2>3 DEF Call
  <1>2. CASE Send(m)
    <2>1. Append(buffer[stream[m]], m) \in Seq(Publications)
      BY AppendProperties
    <2>2. QED
      BY <1>2, <2>1 DEF Send
  <1>3. CASE SendPanics(m) \/ GiveUp(m) \/ TimesOut(m)
    <2>1. CASE SendPanics(m)
      BY <2>1 DEF SendPanics
    <2>2. CASE GiveUp(m)
      BY <2>2 DEF GiveUp
    <2>3. CASE TimesOut(m)
      <3>1. stream[m] \in Streams /\ dropped' \in [Streams -> Nat]
        BY <2>3 DEF TimesOut
      <3>2. QED
        BY <2>3, <3>1 DEF TimesOut
    <2>4. QED
      BY <1>3, <2>1, <2>2, <2>3
  <1>4. CASE Leave(m)
    <2>1. wg \in Nat \ {0}
      BY <1>4, CountPositive DEF Leave, InFlight
    <2>2. QED
      BY <1>4, <2>1 DEF Leave
  <1>5. QED
    BY <1>1, <1>2, <1>3, <1>4 DEF Publisher, Offer

LEMMA HeadTail ==
    ASSUME TypeOK, NEW s \in Streams, buffer[s] # <<>>
    PROVE  Head(buffer[s]) \in Publications /\ Tail(buffer[s]) \in Seq(Publications)
  BY HeadTailProperties DEF TypeOK

LEMMA TypeOthers ==
    ASSUME TypeOK,
           \/ \E m \in Publications : CancelContext(m)
           \/ \E s \in Streams : Receive(s) \/ ConsumerStops(s)
           \/ \E c \in Closers : CloseCall(c) \/ CloseReturns(c)
           \/ CloseStep
    PROVE  TypeOK'
  <1> USE DEF TypeOK, Unmoved
  <1>1. CASE \E m \in Publications : CancelContext(m)
    BY <1>1 DEF CancelContext
  <1>2. CASE \E s \in Streams : Receive(s)
    BY <1>2, HeadTail DEF Receive
  <1>3. CASE \E s \in Streams : ConsumerStops(s)
    BY <1>3 DEF ConsumerStops
  <1>4. CASE \E c \in Closers : CloseCall(c) \/ CloseReturns(c)
    BY <1>4 DEF CloseCall, CloseReturns
  <1>5. CASE \E s \in Streams : Drain(s)
    BY <1>5, HeadTail DEF Drain
  <1>6. CASE RaiseClosed \/ WaitPublishers \/ CloseFinishes \/ \E s \in Streams : CloseChannel(s)
    BY <1>6 DEF RaiseClosed, WaitPublishers, CloseFinishes, CloseChannel
  <1>7. QED
    BY <1>1, <1>2, <1>3, <1>4, <1>5, <1>6 DEF CloseStep

-----------------------------------------------------------------------------
LEMMA SafeInit == Init => CountInv /\ PhaseInv
  <1> SUFFICES ASSUME Init PROVE CountInv /\ PhaseInv
    OBVIOUS
  <1>1. {m \in Publications : InFlight(m)} = {}
    BY DEF Init, InFlight
  <1>2. QED
    BY <1>1, FS_EmptySet DEF Init, CountInv, PhaseInv

LEMMA SafePublisher ==
    ASSUME TypeOK, CountInv, PhaseInv, NEW m \in Publications, Call(m) \/ Publisher(m)
    PROVE  CountInv' /\ PhaseInv'
  <1> DEFINE In == {x \in Publications : InFlight(x)}
  <1>0. \A f, t : Goes(m, f, t) =>
            /\ pub[m] = f /\ pub'[m] = t
            /\ \A x \in Publications \ {m} : pub'[x] = pub[x]
            /\ UNCHANGED <<closed, shut, once>>
    BY DEF Goes, TypeOK
  <1> USE <1>0 DEF InFlight, PhaseInv
  <1>1. CASE EnterPublish(m)
    <2>1. m \notin In /\ In' = In \union {m} /\ wg' = wg + 1
      BY <1>1 DEF EnterPublish
    <2>2. Cardinality(In') = Cardinality(In) + 1
      BY <2>1, CountedIsFinite, FS_AddElement
    <2>3. CountInv'
      BY <2>1, <2>2 DEF CountInv
    <2>4. PhaseInv'
      BY <1>1 DEF EnterPublish
    <2>5. QED
      BY <2>3, <2>4
  <1>2. CASE Leave(m)
    <2>1. m \in In /\ In' = In \ {m} /\ wg' = wg - 1
      BY <1>2 DEF Leave
    <2>2. Cardinality(In') = Cardinality(In) - 1
      <3>1. IsFiniteSet(In)
        BY CountedIsFinite DEF In
      <3>2. Cardinality(In \ {m}) = Cardinality(In) - 1
        BY <2>1, <3>1, FS_RemoveElement
      <3>3. QED
        BY <2>1, <3>2
    <2>3. CountInv'
      BY <2>1, <2>2 DEF CountInv
    <2>4. PhaseInv'
      BY <1>2 DEF Leave
    <2>5. QED
      BY <2>3, <2>4
  <1>3. CASE RefuseInvalid(m) \/ EnterRefused(m)
    <2>1. In' = In /\ wg' = wg /\ PhaseInv'
      BY <1>3 DEF RefuseInvalid, EnterRefused
    <2>2. QED
      BY <2>1 DEF CountInv
  <1>4. CASE Send(m) \/ SendPanics(m) \/ GiveUp(m) \/ TimesOut(m)
    <2>1. ~SendPanics(m)
      BY DEF SendPanics
    <2>2. In' = In /\ wg' = wg /\ PhaseInv'
      BY <1>4, <2>1 DEF Send, GiveUp, TimesOut
    <2>3. QED
      BY <2>2 DEF CountInv
  <1>5. QED
    BY <1>1, <1>2, <1>3, <1>4 DEF Call, Publisher, Offer

LEMMA SafeOthers ==
    ASSUME TypeOK, CountInv, PhaseInv,
           \/ \E m \in Publications : CancelContext(m)
           \/ \E s \in Streams : Receive(s) \/ ConsumerStops(s)
           \/ \E c \in Closers : CloseCall(c) \/ CloseReturns(c)
           \/ CloseStep
    PROVE  CountInv' /\ PhaseInv'
  <1>1. UNCHANGED <<pub, wg>>
    BY DEF CancelContext, Receive, ConsumerStops, CloseCall, CloseReturns, CloseStep,
           RaiseClosed, WaitPublishers, CloseFinishes, CloseChannel, Drain, Unmoved
  <1>2. CountInv'
    BY <1>1 DEF CountInv, InFlight
  <1>3. CASE WaitPublishers
    <2>1. {m \in Publications : InFlight(m)} = {}
      BY <1>3, CountedIsFinite, FS_EmptySet DEF WaitPublishers, CountInv
    <2>2. \A m \in Publications : ~InFlight(m)
      BY <2>1
    <2>3. QED
      BY <1>1, <1>2, <1>3, <2>2 DEF WaitPublishers, PhaseInv, InFlight
  <1>4. CASE ~WaitPublishers
    BY <1>1, <1>2, <1>4
    DEF CancelContext, Receive, ConsumerStops, CloseCall, CloseReturns, CloseStep,
        RaiseClosed, CloseFinishes, CloseChannel, Drain, Unmoved, PhaseInv, InFlight
  <1>5. QED
    BY <1>3, <1>4

LEMMA NextCases ==
    ASSUME Next
    PROVE  \/ \E m \in Publications : Call(m) \/ Publisher(m)
           \/ \E m \in Publications : CancelContext(m)
           \/ \E s \in Streams : Receive(s) \/ ConsumerStops(s)
           \/ \E c \in Closers : CloseCall(c) \/ CloseReturns(c)
           \/ CloseStep
           \/ UNCHANGED vars
  BY DEF Next, Closing, CloseStep, Terminated

LEMMA SafeStutter ==
    ASSUME TypeOK, CountInv, PhaseInv, UNCHANGED vars
    PROVE  TypeOK' /\ CountInv' /\ PhaseInv'
  <1>1. TypeOK'
    BY DEF TypeOK, vars
  <1>2. CountInv' /\ PhaseInv'
    BY DEF CountInv, PhaseInv, InFlight, vars
  <1>3. QED
    BY <1>1, <1>2

SafeInv == TypeOK /\ CountInv /\ PhaseInv

LEMMA SafeStep == SafeInv /\ [Next]_vars => SafeInv'
  BY NextCases, TypePublisher, TypeOthers, SafePublisher, SafeOthers, SafeStutter DEF SafeInv

(* Every variable stays in its type; in particular the WaitGroup's counter *)
(* never goes below zero, which would panic.                               *)
THEOREM TypeCorrect == Spec => []TypeOK
  <1>1. Init => SafeInv
    BY TypeInit, SafeInit DEF SafeInv
  <1>2. SafeInv => TypeOK
    BY DEF SafeInv
  <1>3. QED
    BY <1>1, <1>2, SafeStep, PTL DEF Spec

(* No publisher ever sends on a closed channel, whatever the number of     *)
(* publishers and wherever Close interrupts them.                          *)
THEOREM NoSendOnClosedCorrect == Spec => []NoSendOnClosed
  <1>1. Init => SafeInv
    BY TypeInit, SafeInit DEF SafeInv
  <1>2. SafeInv => NoSendOnClosed
    BY DEF SafeInv, PhaseInv, NoSendOnClosed
  <1>3. QED
    BY <1>1, <1>2, SafeStep, PTL DEF Spec

-----------------------------------------------------------------------------
(* Where the messages are. *)
Elems(q) == {q[i] : i \in DOMAIN q}
Distinct(q) == \A i, j \in DOMAIN q : q[i] = q[j] => i = j

LEMMA AppendElems ==
    ASSUME NEW S, NEW q \in Seq(S), NEW x \in S
    PROVE  /\ Elems(Append(q, x)) = Elems(q) \union {x}
           /\ Distinct(q) /\ x \notin Elems(q) => Distinct(Append(q, x))
  <1> DEFINE a == Append(q, x)
  <1>1. /\ Len(q) \in Nat
        /\ DOMAIN q = 1 .. Len(q)
        /\ DOMAIN a = 1 .. (Len(q) + 1)
        /\ \A k \in 1 .. Len(q) : a[k] = q[k]
        /\ a[Len(q) + 1] = x
    BY LenProperties, AppendProperties
  <1> HIDE DEF a
  <1>2. QED
    BY <1>1 DEF Elems, Distinct, a

LEMMA TailElems ==
    ASSUME NEW S, NEW q \in Seq(S), q # <<>>
    PROVE  /\ Elems(q) = {Head(q)} \union Elems(Tail(q))
           /\ Distinct(q) => Distinct(Tail(q)) /\ Head(q) \notin Elems(Tail(q))
  <1> DEFINE t == Tail(q)
  <1>1. /\ Len(q) \in Nat \ {0}
        /\ DOMAIN q = 1 .. Len(q)
        /\ DOMAIN t = 1 .. (Len(q) - 1)
        /\ \A k \in 1 .. (Len(q) - 1) : t[k] = q[k + 1]
        /\ Head(q) = q[1]
    BY LenProperties, HeadTailProperties, EmptySeq
  <1> HIDE DEF t
  <1>2. ASSUME NEW k \in 2 .. Len(q) PROVE q[k] = t[k - 1] /\ k - 1 \in DOMAIN t
    BY <1>1
  <1>3. Elems(q) = {Head(q)} \union Elems(t)
    <2>1. ASSUME NEW x \in Elems(q) PROVE x \in {Head(q)} \union Elems(t)
      <3>1. PICK k \in 1 .. Len(q) : x = q[k]
        BY <1>1 DEF Elems
      <3>2. CASE k = 1
        BY <1>1, <3>1, <3>2
      <3>3. CASE k # 1
        BY SMTT(40), <1>1, <1>2, <3>1, <3>3 DEF Elems
      <3>4. QED
        BY <3>2, <3>3
    <2>2. ASSUME NEW x \in Elems(t) PROVE x \in Elems(q)
      <3>1. PICK k \in 1 .. (Len(q) - 1) : x = t[k]
        BY <1>1, <2>2 DEF Elems
      <3>2. x = q[k + 1] /\ k + 1 \in 1 .. Len(q)
        BY <1>1, <3>1
      <3>3. QED
        BY <1>1, <3>2 DEF Elems
    <2>3. Head(q) \in Elems(q)
      BY <1>1 DEF Elems
    <2>4. QED
      BY <2>1, <2>2, <2>3
  <1>4. ASSUME Distinct(q) PROVE Distinct(t) /\ Head(q) \notin Elems(t)
    <2>1. \A k \in DOMAIN t : k + 1 \in DOMAIN q /\ t[k] = q[k + 1] /\ k + 1 # 1
      BY <1>1
    <2>2. QED
      BY SMTT(40), <1>1, <1>4, <2>1 DEF Distinct, Elems
  <1>5. QED
    BY <1>3, <1>4 DEF t

(* A message stays on its own stream, once; it is in the buffer, consumed   *)
(* or drained exactly if its publisher's call has had, or will return, nil. *)
PlaceInv ==
    /\ \A s \in Streams : /\ Distinct(buffer[s])
                          /\ \A m \in Elems(buffer[s]) : stream[m] = s
                          /\ Len(buffer[s]) <= Cap[s]
    /\ \A m \in Publications :
         /\ pub[m] \in {"idle", "sending"} <=> result[m] = "none"
         /\ result[m] = "ok" <=> m \in Elems(buffer[stream[m]]) \union consumed \union drained
         /\ m \in Elems(buffer[stream[m]]) => m \notin consumed /\ m \notin drained
         /\ m \notin consumed \intersect drained

LEMMA PlaceInit == Init => PlaceInv
  BY EmptySeq DEF Init, PlaceInv, Elems, Distinct

LEMMA BufferedElems ==
    ASSUME TypeOK, PlaceInv
    PROVE  Buffered = {m \in Publications : m \in Elems(buffer[stream[m]])}
  <1>1. \A s \in Streams : Elems(buffer[s]) \subseteq Publications
    <2> SUFFICES ASSUME NEW s \in Streams PROVE Elems(buffer[s]) \subseteq Publications
      OBVIOUS
    <2>1. buffer[s] \in Seq(Publications)
      BY DEF TypeOK
    <2>2. QED
      BY <2>1, ElementOfSeq DEF Elems
  <1>2. Buffered = UNION {Elems(buffer[s]) : s \in Streams}
    BY DEF Buffered, Elems
  <1>3. QED
    BY <1>1, <1>2 DEF PlaceInv

LEMMA PlacePublisher ==
    ASSUME SafeInv, PlaceInv, NEW m \in Publications, Call(m) \/ Publisher(m)
    PROVE  PlaceInv'
  <1>0. \A f, t : Goes(m, f, t) =>
            /\ pub[m] = f /\ pub'[m] = t
            /\ \A x \in Publications \ {m} : pub'[x] = pub[x]
            /\ UNCHANGED <<consumed, drained>>
    BY DEF Goes, SafeInv, TypeOK
  <1>a. \A r : Returns(m, r) =>
            result'[m] = r /\ \A x \in Publications \ {m} : result'[x] = result[x]
    BY DEF Returns, SafeInv, TypeOK
  <1>1. CASE Send(m)
    <2> DEFINE s == stream[m]
    <2>1. /\ s \in Streams /\ buffer[s] \in Seq(Publications)
          /\ buffer' = [buffer EXCEPT ![s] = Append(buffer[s], m)]
          /\ buffer \in [Streams -> Seq(Publications)]
          /\ Len(buffer[s]) < Cap[s] /\ Cap[s] \in Nat /\ Len(buffer[s]) \in Nat
      BY <1>1, LenProperties DEF Send, SafeInv, TypeOK
    <2>2. m \notin Elems(buffer[s]) /\ m \notin consumed /\ m \notin drained
      BY <1>0, <1>1 DEF Send, PlaceInv
    <2>3. /\ buffer'[s] = Append(buffer[s], m)
          /\ \A t \in Streams \ {s} : buffer'[t] = buffer[t]
      BY <2>1
    <2>4. Elems(buffer'[s]) = Elems(buffer[s]) \union {m} /\ Distinct(buffer'[s])
      BY <2>1, <2>2, <2>3, AppendElems DEF PlaceInv
    <2>5. Len(buffer'[s]) <= Cap[s]
      BY <2>1, <2>3, AppendProperties
    <2>6. \A t \in Streams : /\ Distinct(buffer'[t])
                             /\ \A x \in Elems(buffer'[t]) : stream[x] = t
                             /\ Len(buffer'[t]) <= Cap[t]
      <3>1. \A x \in Elems(buffer'[s]) : stream[x] = s
        BY <2>1, <2>4 DEF PlaceInv
      <3>2. QED
        BY <2>3, <2>4, <2>5, <3>1 DEF PlaceInv
    <2>7. pub'[m] = "leaving" /\ result'[m] = "ok" /\ UNCHANGED <<consumed, drained>>
      BY <1>0, <1>1, <1>a DEF Send
    <2>8. ASSUME NEW x \in Publications \ {m}
          PROVE  /\ pub'[x] = pub[x] /\ result'[x] = result[x]
                 /\ x \in Elems(buffer'[stream[x]]) <=> x \in Elems(buffer[stream[x]])
      BY <1>0, <1>1, <1>a, <2>3, <2>4 DEF Send
    <2>9. m \in Elems(buffer'[s])
      BY <2>4
    <2>10. QED
      BY SMTT(40), <2>2, <2>6, <2>7, <2>8, <2>9 DEF PlaceInv
  <1>2. CASE ~Send(m)
    <2>1. UNCHANGED <<buffer, consumed, drained>>
      BY <1>2 DEF Call, Publisher, Offer, RefuseInvalid, EnterRefused, EnterPublish, SendPanics,
                  GiveUp, TimesOut, Leave, Goes
    <2>2. pub'[m] \in {"idle", "sending"} <=> result'[m] = "none"
      <3> USE <1>0, <1>a
      <3>1. CASE RefuseInvalid(m) \/ EnterRefused(m)
        BY <3>1 DEF RefuseInvalid, EnterRefused
      <3>2. CASE EnterPublish(m) \/ Leave(m)
        BY <3>2 DEF EnterPublish, Leave, PlaceInv
      <3>3. CASE SendPanics(m) \/ GiveUp(m) \/ TimesOut(m)
        <4>1. ~SendPanics(m)
          BY DEF SendPanics, SafeInv, PhaseInv, InFlight
        <4>2. QED
          BY <3>3, <4>1 DEF GiveUp, TimesOut
      <3>4. QED
        BY <1>2, <3>1, <3>2, <3>3 DEF Call, Publisher, Offer
    <2>3. result'[m] = "ok" <=> result[m] = "ok"
      BY <1>0, <1>a, <1>2 DEF Call, Publisher, Offer, RefuseInvalid, EnterRefused, EnterPublish,
                              SendPanics, GiveUp, TimesOut, Leave, PlaceInv
    <2>4. \A x \in Publications \ {m} : pub'[x] = pub[x] /\ result'[x] = result[x]
      BY <1>0, <1>a, <1>2 DEF Call, Publisher, Offer, RefuseInvalid, EnterRefused, EnterPublish,
                              SendPanics, GiveUp, TimesOut, Leave
    <2>5. QED
      BY <2>1, <2>2, <2>3, <2>4 DEF PlaceInv
  <1>3. QED
    BY <1>1, <1>2

(* The head of a buffer goes to one of the two sets. *)
LEMMA PlaceOut ==
    ASSUME TypeOK, PlaceInv, NEW s \in Streams, buffer[s] # <<>>,
           buffer' = [buffer EXCEPT ![s] = Tail(@)],
           UNCHANGED <<pub, result>>,
           \/ consumed' = consumed \union {Head(buffer[s])} /\ drained' = drained
           \/ drained' = drained \union {Head(buffer[s])} /\ consumed' = consumed
    PROVE  PlaceInv'
  <1> DEFINE h == Head(buffer[s])
  <1>1. buffer[s] \in Seq(Publications) /\ buffer \in [Streams -> Seq(Publications)]
    BY DEF TypeOK
  <1>2. h \in Publications /\ Tail(buffer[s]) \in Seq(Publications)
    BY HeadTail
  <1>3. buffer'[s] = Tail(buffer[s]) /\ \A t \in Streams \ {s} : buffer'[t] = buffer[t]
    BY <1>1
  <1>4. /\ Elems(buffer[s]) = {h} \union Elems(buffer'[s])
        /\ Distinct(buffer'[s]) /\ h \notin Elems(buffer'[s])
    BY <1>1, <1>3, TailElems DEF PlaceInv
  <1>5. Len(buffer'[s]) <= Cap[s]
    <2>1. Len(Tail(buffer[s])) = Len(buffer[s]) - 1 /\ Len(buffer[s]) \in Nat /\ Cap[s] \in Nat
      BY <1>1, HeadTailProperties, LenProperties
    <2>2. QED
      BY <1>3, <2>1 DEF PlaceInv
  <1>6. h \in Elems(buffer[s]) /\ stream[h] = s
    BY <1>4 DEF PlaceInv
  <1>7. \A t \in Streams : /\ Distinct(buffer'[t])
                           /\ \A x \in Elems(buffer'[t]) : stream[x] = t
                           /\ Len(buffer'[t]) <= Cap[t]
    BY <1>3, <1>4, <1>5 DEF PlaceInv
  <1>8. ASSUME NEW x \in Publications \ {h}
        PROVE  /\ x \in Elems(buffer'[stream[x]]) <=> x \in Elems(buffer[stream[x]])
               /\ x \in consumed' <=> x \in consumed
               /\ x \in drained' <=> x \in drained
    BY <1>3, <1>4
  <1>9. h \notin Elems(buffer'[stream[h]]) /\ h \notin consumed /\ h \notin drained
    BY <1>2, <1>4, <1>6 DEF PlaceInv
  <1>10. h \in consumed' \union drained' /\ h \notin consumed' \intersect drained'
    BY <1>9
  <1>11. result[h] = "ok"
    BY <1>2, <1>6 DEF PlaceInv
  <1>12. QED
    BY <1>7, <1>8, <1>9, <1>10, <1>11 DEF PlaceInv

LEMMA PlaceOthers ==
    ASSUME SafeInv, PlaceInv,
           \/ \E m \in Publications : CancelContext(m)
           \/ \E s \in Streams : Receive(s) \/ ConsumerStops(s)
           \/ \E c \in Closers : CloseCall(c) \/ CloseReturns(c)
           \/ CloseStep
           \/ UNCHANGED vars
    PROVE  PlaceInv'
  <1>1. CASE \E s \in Streams : Receive(s) \/ Drain(s)
    BY <1>1, PlaceOut DEF Receive, Drain, Unmoved, SafeInv
  <1>2. CASE ~ \E s \in Streams : Receive(s) \/ Drain(s)
    <2>1. UNCHANGED <<pub, result, buffer, consumed, drained>>
      BY <1>2 DEF CancelContext, ConsumerStops, CloseCall, CloseReturns, CloseStep, RaiseClosed,
                  WaitPublishers, CloseFinishes, CloseChannel, Unmoved, vars
    <2>2. QED
      BY <2>1 DEF PlaceInv
  <1>3. QED
    BY <1>1, <1>2

FullInv == SafeInv /\ PlaceInv

LEMMA FullInit == Init => FullInv
  BY TypeInit, SafeInit, PlaceInit DEF FullInv, SafeInv

LEMMA FullStep == FullInv /\ [Next]_vars => FullInv'
  BY SafeStep, NextCases, PlacePublisher, PlaceOthers DEF FullInv

(* No message is lost, duplicated or handed to two parties, and no call    *)
(* returns nil for a message that did not enter its channel.               *)
THEOREM AccountedCorrect == Spec => []Accounted
  <1>1. FullInv => Accounted
    <2> SUFFICES ASSUME FullInv PROVE Accounted
      OBVIOUS
    <2>1. /\ Buffered = {m \in Publications : m \in Elems(buffer[stream[m]])}
          /\ consumed \subseteq Publications /\ drained \subseteq Publications
      BY BufferedElems DEF FullInv, SafeInv, TypeOK
    <2>2. PlaceInv
      BY DEF FullInv
    <2> HIDE DEF Elems
    <2>3. \A m \in Publications :
             result[m] = "ok" <=> m \in Buffered \union consumed \union drained
      BY <2>1, <2>2 DEF PlaceInv
    <2>4. /\ Buffered \intersect consumed = {}
          /\ Buffered \intersect drained = {}
          /\ consumed \intersect drained = {}
      BY <2>1, <2>2 DEF PlaceInv
    <2>5. QED
      BY <2>2, <2>3, <2>4 DEF Accounted, PlaceInv
  <1>2. QED
    BY <1>1, FullInit, FullStep, PTL DEF Spec

-----------------------------------------------------------------------------
(* What has been done once Close is done. *)
DoneInv ==
    /\ once = "finished" => \A s \in Streams : buffer[s] = <<>>
    /\ \A c \in Closers : closer[c] = "returned" => once = "finished"

LEMMA DoneInit == Init => DoneInv
  BY DEF Init, DoneInv

LEMMA DoneStep ==
    ASSUME FullInv, DoneInv, [Next]_vars
    PROVE  DoneInv'
  <1> USE DEF DoneInv
  <1>0. TypeOK /\ PhaseInv
    BY DEF FullInv, SafeInv
  <1>1. CASE \E m \in Publications : Call(m) \/ Publisher(m)
    <2>1. PICK m \in Publications : Call(m) \/ Publisher(m)
      BY <1>1
    <2>2. UNCHANGED <<once, closer>>
      BY <2>1 DEF Call, Publisher, Offer, RefuseInvalid, EnterRefused, EnterPublish, Send, SendPanics,
                  GiveUp, TimesOut, Leave, Goes
    <2>3. once = "finished" => UNCHANGED buffer
      <3>1. once = "finished" => pub[m] # "sending"
        BY <1>0 DEF PhaseInv, InFlight
      <3>2. QED
        BY <2>1, <3>1 DEF Call, Publisher, Offer, RefuseInvalid, EnterRefused, EnterPublish, Send,
                          SendPanics, GiveUp, TimesOut, Leave, Goes
    <2>4. QED
      BY <2>2, <2>3
  <1>2. CASE \E s \in Streams : Receive(s) \/ Drain(s)
    <2>1. PICK s \in Streams : Receive(s) \/ Drain(s)
      BY <1>2
    <2>2. UNCHANGED <<once, closer>> /\ once # "finished"
      BY <2>1 DEF Receive, Drain
    <2>3. QED
      BY <2>2
  <1>3. CASE \E c \in Closers : CloseCall(c) \/ CloseReturns(c)
    BY <1>0, <1>3 DEF CloseCall, CloseReturns, TypeOK
  <1>4. CASE CloseFinishes
    BY <1>4 DEF CloseFinishes
  <1>5. CASE \/ \E m \in Publications : CancelContext(m)
             \/ \E s \in Streams : ConsumerStops(s)
             \/ UNCHANGED vars
    BY <1>5 DEF CancelContext, ConsumerStops, vars
  <1>6. CASE RaiseClosed \/ WaitPublishers \/ \E s \in Streams : CloseChannel(s)
    BY <1>6 DEF RaiseClosed, WaitPublishers, CloseChannel
  <1>7. QED
    BY <1>1, <1>2, <1>3, <1>4, <1>5, <1>6, NextCases DEF CloseStep

AllInv == FullInv /\ DoneInv

LEMMA AllInit == Init => AllInv
  BY FullInit, DoneInit DEF AllInv

LEMMA AllStep == AllInv /\ [Next]_vars => AllInv'
  BY FullStep, DoneStep DEF AllInv

(* Whichever caller of Close returns, the bus is empty and stays so. *)
THEOREM ClosedIsEmptyCorrect == Spec => []ClosedIsEmpty
  <1>1. AllInv => ClosedIsEmpty
    <2> SUFFICES ASSUME AllInv, NEW c \in Closers, closer[c] = "returned"
                 PROVE  closed /\ Buffered = {} /\ \A m \in Publications : pub[m] # "sending"
      BY DEF ClosedIsEmpty
    <2>1. once = "finished" /\ \A s \in Streams : buffer[s] = <<>>
      BY DEF AllInv, DoneInv
    <2>2. closed /\ \A m \in Publications : pub[m] # "sending"
      BY <2>1 DEF AllInv, FullInv, SafeInv, PhaseInv, InFlight
    <2>3. Buffered = {}
      BY <2>1, EmptySeq DEF Buffered
    <2>4. QED
      BY <2>2, <2>3
  <1>2. QED
    BY <1>1, AllInit, AllStep, PTL DEF Spec

-----------------------------------------------------------------------------
(* The bus implements the mailbox. *)
LEMMA RefineInit == Init => M!Init
  BY DEF Init, M!Init, outcome, phase

(* Only the call's result, and the two sets of messages, count for what     *)
(* became of a message.                                                     *)
LEMMA OutcomeOf ==
    ASSUME FullInv, NEW m \in Publications
    PROVE  /\ result[m] = "none" => outcome[m] = "none"
           /\ result[m] = "ok" /\ m \notin consumed /\ m \notin drained => outcome[m] = "accepted"
  BY DEF outcome, FullInv, PlaceInv

LEMMA RefinePublisher ==
    ASSUME AllInv, NEW m \in Publications, Call(m) \/ Publisher(m)
    PROVE  M!Next \/ UNCHANGED <<buffer, outcome, phase>>
  <1>0. /\ TypeOK /\ PhaseInv /\ PlaceInv /\ FullInv
        /\ UNCHANGED <<consumed, drained, closed, once>>
    BY DEF AllInv, FullInv, SafeInv, Call, Publisher, Offer, RefuseInvalid, EnterRefused, EnterPublish,
           Send, SendPanics, GiveUp, TimesOut, Leave, Goes
  <1>1. UNCHANGED phase
    BY <1>0 DEF phase
  <1>2. ASSUME NEW r, Returns(m, r), result[m] = "none", r # "none"
        PROVE  outcome' = [outcome EXCEPT ![m] = IF r = "ok" THEN "accepted" ELSE r]
    <2>1. m \notin consumed /\ m \notin drained
      BY <1>0, <1>2 DEF PlaceInv
    <2>2. result \in [Publications -> {"none", "ok", "invalid", "cancelled", "closed", "dropped"}]
      BY <1>0 DEF TypeOK
    <2>3. QED
      BY <1>0, <1>2, <2>1, <2>2 DEF outcome, Returns
  <1>3. pub[m] \in {"idle", "sending"} => result[m] = "none" /\ outcome[m] = "none"
    BY <1>0, OutcomeOf DEF PlaceInv
  <1>4. CASE Send(m)
    <2>1. phase # "closed"
      BY <1>0, <1>4 DEF Send, Goes, PhaseInv, InFlight, phase
    <2>2. outcome' = [outcome EXCEPT ![m] = "accepted"]
      BY <1>2, <1>3, <1>4 DEF Send, Goes
    <2>3. M!Accept(m)
      BY <1>1, <1>3, <1>4, <2>1, <2>2 DEF Send, Goes, M!Accept
    <2>4. QED
      BY <2>3 DEF M!Next
  <1>5. CASE \/ RefuseInvalid(m) \/ EnterRefused(m) \/ GiveUp(m) \/ TimesOut(m)
    <2>1. PICK r \in {"invalid", "cancelled", "closed", "dropped"} :
              Returns(m, r) /\ (r = "closed" => closed)
      BY <1>5 DEF RefuseInvalid, EnterRefused, GiveUp, TimesOut
    <2>2. /\ result[m] = "none" /\ outcome[m] = "none"
          /\ buffer' = buffer
      BY <1>3, <1>5 DEF RefuseInvalid, EnterRefused, GiveUp, TimesOut, Goes
    <2>3. outcome' = [outcome EXCEPT ![m] = r]
      BY <1>2, <2>1, <2>2
    <2>4. r = "closed" => phase # "open"
      BY <2>1 DEF phase
    <2>5. M!Refuse(m)
      BY <1>1, <2>1, <2>2, <2>3, <2>4 DEF M!Refuse, M!Refusals
    <2>6. QED
      BY <2>5 DEF M!Next
  <1>6. CASE EnterPublish(m) \/ Leave(m)
    BY <1>0, <1>1, <1>6 DEF EnterPublish, Leave, outcome
  <1>7. ~SendPanics(m)
    BY <1>0 DEF SendPanics, Goes, PhaseInv, InFlight
  <1>8. QED
    BY <1>4, <1>5, <1>6, <1>7 DEF Call, Publisher, Offer

LEMMA RefineOut ==
    ASSUME AllInv, NEW s \in Streams, Receive(s) \/ Drain(s)
    PROVE  M!Next
  <1> DEFINE h == Head(buffer[s])
  <1>0. TypeOK /\ PhaseInv /\ PlaceInv
    BY DEF AllInv, FullInv, SafeInv
  <1>1. /\ buffer[s] # <<>>
        /\ buffer' = [buffer EXCEPT ![s] = Tail(@)]
        /\ UNCHANGED <<result, closed, once>>
    BY DEF Receive, Drain, Unmoved
  <1>2. h \in Elems(buffer[s])
    BY <1>0, <1>1, TailElems DEF TypeOK
  <1>3. h \in Publications /\ h \notin consumed /\ h \notin drained
    BY <1>0, <1>1, <1>2, HeadTail DEF PlaceInv
  <1>4. CASE Receive(s)
    <2>1. consumed' = consumed \union {h} /\ drained' = drained
      BY <1>4 DEF Receive
    <2>2. outcome' = [outcome EXCEPT ![h] = "delivered"]
      BY <1>1, <1>3, <2>1 DEF outcome
    <2>3. M!Deliver(s)
      BY <1>1, <2>2 DEF M!Deliver, M!Out, phase
    <2>4. QED
      BY <2>3 DEF M!Next
  <1>5. CASE Drain(s)
    <2>1. drained' = drained \union {h} /\ consumed' = consumed /\ once = "drain"
      BY <1>5 DEF Drain, Unmoved
    <2>2. outcome' = [outcome EXCEPT ![h] = "discarded"]
      BY <1>1, <1>3, <2>1 DEF outcome
    <2>3. phase = "closing"
      BY <1>0, <2>1 DEF phase, PhaseInv
    <2>4. M!Discard(s)
      BY <1>1, <2>2, <2>3 DEF M!Discard, M!Out, phase
    <2>5. QED
      BY <2>4 DEF M!Next
  <1>6. QED
    BY <1>4, <1>5

LEMMA RefineOthers ==
    ASSUME AllInv,
           \/ \E m \in Publications : CancelContext(m)
           \/ \E s \in Streams : ConsumerStops(s) \/ CloseChannel(s)
           \/ \E c \in Closers : CloseCall(c) \/ CloseReturns(c)
           \/ RaiseClosed \/ WaitPublishers \/ CloseFinishes
           \/ UNCHANGED vars
    PROVE  M!Next \/ UNCHANGED <<buffer, outcome, phase>>
  <1>0. PhaseInv /\ TypeOK
    BY DEF AllInv, FullInv, SafeInv
  <1>1. UNCHANGED <<buffer, result, consumed, drained>>
    BY DEF CancelContext, ConsumerStops, CloseChannel, CloseCall, CloseReturns, RaiseClosed,
           WaitPublishers, CloseFinishes, Unmoved, vars
  <1>2. UNCHANGED outcome
    BY <1>1 DEF outcome
  <1>3. CASE RaiseClosed
    <2>1. phase = "open" /\ phase' = "closing"
      BY <1>0, <1>3 DEF RaiseClosed, PhaseInv, phase
    <2>2. QED
      BY <1>1, <1>2, <2>1 DEF M!Next, M!BeginClose
  <1>4. CASE CloseFinishes
    <2>1. phase = "closing" /\ phase' = "closed"
      BY <1>0, <1>4 DEF CloseFinishes, PhaseInv, phase
    <2>2. \A s \in Streams : buffer[s] = <<>>
      BY <1>4 DEF CloseFinishes
    <2>3. QED
      BY <1>1, <1>2, <2>1, <2>2 DEF M!Next, M!EndClose
  <1>5. CASE ~RaiseClosed /\ ~CloseFinishes
    <2>1. closed' = closed /\ (once' = "finished" <=> once = "finished")
      BY <1>5 DEF CancelContext, ConsumerStops, CloseChannel, CloseCall, CloseReturns,
                  WaitPublishers, Unmoved, vars
    <2>2. QED
      BY <1>1, <1>2, <2>1 DEF phase
  <1>6. QED
    BY <1>3, <1>4, <1>5

(* Every behaviour of the bus is one of the bounded mailbox: accepted       *)
(* messages come out in order, a publisher hears of the closing only when   *)
(* there is one, and after Close nothing is left and nothing enters.        *)
THEOREM BusImplementsMailbox == Spec => ImplementsMailbox
  <1>1. AllInv /\ [Next]_vars => [M!Next]_<<buffer, outcome, phase>>
    <2> SUFFICES ASSUME AllInv, [Next]_vars
                 PROVE  M!Next \/ UNCHANGED <<buffer, outcome, phase>>
      OBVIOUS
    <2>1. CASE \E m \in Publications : Call(m) \/ Publisher(m)
      BY <2>1, RefinePublisher
    <2>2. CASE \E s \in Streams : Receive(s) \/ Drain(s)
      BY <2>2, RefineOut
    <2>3. CASE \/ \E m \in Publications : CancelContext(m)
               \/ \E s \in Streams : ConsumerStops(s) \/ CloseChannel(s)
               \/ \E c \in Closers : CloseCall(c) \/ CloseReturns(c)
               \/ RaiseClosed \/ WaitPublishers \/ CloseFinishes
               \/ UNCHANGED vars
      BY <2>3, RefineOthers
    <2>4. QED
      BY <2>1, <2>2, <2>3, NextCases DEF CloseStep
  <1>2. QED
    BY <1>1, RefineInit, AllInit, AllStep, PTL DEF Spec, ImplementsMailbox, M!Spec, M!mvars

=============================================================================
