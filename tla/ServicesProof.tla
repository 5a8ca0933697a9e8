---------------------------- MODULE ServicesProof ----------------------------
(* What is proved of EventBus for every number of publishers, subscriptions, *)
(* events and buffer places, and for every policy, of Cron for every set of  *)
(* jobs, any length of time, and any number of services and operations, and  *)
(* of ChannelManager for every set of channels, and any number of reloads,   *)
(* messages, retries and places in a queue; and of the three side by side,    *)
(* as MCServices puts them.                                                  *)
EXTENDS MCServices, SequenceTheorems, FiniteSetTheorems, FunctionTheorems,
        WellFoundedInduction, TLAPS

-----------------------------------------------------------------------------
(* The event bus.                                                            *)

(* Where a publisher is on its way through the subscriptions.                *)
PlaceInv ==
    \A p \in Publishers :
        /\ ~At(p, "idle") => publisher[p].count > 0
        /\ IF publisher[p].at \in {"idle", "next"} THEN publisher[p].sub = 0
           ELSE publisher[p].sub \in Subs /\ publisher[p].sub \notin publisher[p].left

(* A publisher's event has yet to be offered to s, or is being offered.      *)
Owes(p, s) == ~At(p, "idle") /\ (s \in publisher[p].left \/ publisher[p].sub = s)
Limit(p, s) == publisher[p].count - (IF Owes(p, s) THEN 1 ELSE 0)

(* HandledInOrder for a queue q and the events l handled last; and that no   *)
(* event of p beyond the n-th has come that far.                             *)
InOrder(q, l) ==
    \A k \in DOMAIN q :
        /\ q[k][2] > l[q[k][1]]
        /\ \A j \in 1 .. k - 1 : q[j][1] = q[k][1] => q[j][2] < q[k][2]
UpTo(q, l, p, n) == l[p] <= n /\ \A k \in DOMAIN q : q[k][1] = p => q[k][2] <= n

(* What makes the order last: a publisher's event is newer than all of its   *)
(* own that a subscription already has, as long as it owes it.               *)
OrderInv ==
    \A s \in Subs : /\ InOrder(queue[s], last[s])
                    /\ \A p \in Publishers : UpTo(queue[s], last[s], p, Limit(p, s))

SafeInv == TypeOK /\ PlaceInv

-----------------------------------------------------------------------------
(* The choice of the next subscription is one of those to come.              *)
LEMMA LeastExists ==
    ASSUME NEW left \in SUBSET Nat, left # {}
    PROVE  (CHOOSE x \in left : \A y \in left : x <= y) \in left
  <1>1. PICK x \in left : \A y \in left : ~(<<y, x>> \in OpToRel(<, Nat))
    BY NatLessThanWellFounded, WFMin
  <1>2. ASSUME NEW y \in left PROVE x <= y
    <2>1. <<y, x>> \in Nat \X Nat /\ ~(<<y, x>> \in OpToRel(<, Nat))
      BY <1>1
    <2>2. OpToRel(<, Nat) = {ss \in Nat \X Nat : ss[1] < ss[2]}
      BY DEF OpToRel
    <2>3. ~(y < x)
      BY <2>1, <2>2
    <2>4. QED
      BY <2>3
  <1>3. QED
    BY <1>2

LEMMA NextSub ==
    ASSUME EventBusAssumption, TypeOK, NEW p \in Publishers, publisher[p].left # {}
    PROVE  (CHOOSE x \in publisher[p].left : \A y \in publisher[p].left : x <= y)
              \in publisher[p].left
  <1>1. publisher[p].left \in SUBSET Nat
    BY DEF TypeOK, EventBusAssumption, Subs
  <1>2. QED
    BY <1>1, LeastExists

(* Where Send, Resend and Block put an event.                                *)
LEMMA DeliverType ==
    ASSUME EventBusAssumption, TypeOK, PlaceInv, NEW p \in Publishers, NEW s \in Subs,
           ~At(p, "idle"), Deliver(p, s)
    PROVE  queue' \in [Subs -> Seq(Events)] /\ \A r \in Subs : Len(queue'[r]) <= Buffer
  <1>1. Event(p) \in Events
    BY DEF Event, Events, TypeOK, PlaceInv, EventBusAssumption
  <1>2. /\ Append(queue[s], Event(p)) \in Seq(Events)
        /\ Len(Append(queue[s], Event(p))) = Len(queue[s]) + 1
    BY <1>1, AppendProperties DEF TypeOK
  <1>3. Len(queue[s]) \in Nat /\ Buffer \in Nat
    BY LenProperties DEF TypeOK, EventBusAssumption
  <1>4. QED
    BY <1>2, <1>3 DEF Deliver, TypeOK

LEMMA TailType ==
    ASSUME EventBusAssumption, TypeOK, NEW s \in Subs, queue[s] # <<>>,
           queue' = [queue EXCEPT ![s] = Tail(@)]
    PROVE  queue' \in [Subs -> Seq(Events)] /\ \A r \in Subs : Len(queue'[r]) <= Buffer
  <1>1. Tail(queue[s]) \in Seq(Events) /\ Len(Tail(queue[s])) = Len(queue[s]) - 1
    BY HeadTailProperties DEF TypeOK
  <1>2. Len(queue[s]) \in Nat /\ Buffer \in Nat
    BY LenProperties DEF TypeOK, EventBusAssumption
  <1>3. QED
    BY <1>1, <1>2 DEF TypeOK

-----------------------------------------------------------------------------
LEMMA SafeInit == ASSUME EventBusAssumption, Init PROVE SafeInv
  <1>1. PICK setup \in Setups :
          /\ registered = setup.subs
          /\ stage = [s \in Subs |-> IF s \in setup.subs THEN "open" ELSE "shut"]
          /\ runner = [s \in Subs |-> IF s \in setup.subs THEN "take" ELSE "done"]
          /\ publisher = [p \in Publishers |-> [at |-> "idle", count |-> setup.count[p],
                             left |-> {}, sub |-> 0, wait |-> FALSE]]
    BY DEF Init
  <1>2. setup.subs \subseteq Subs /\ setup.count \in [Publishers -> 0 .. MaxEvents]
    BY DEF EventBusAssumption
  <1>3. queue \in [Subs -> Seq(Events)] /\ \A s \in Subs : Len(queue[s]) <= Buffer
    BY EmptySeq DEF Init, EventBusAssumption
  <1>4. publisher \in [Publishers -> [at: Places, count: 0 .. MaxEvents, left: SUBSET Subs,
                                      sub: 0 .. NumSubs, wait: BOOLEAN]]
    BY <1>1, <1>2 DEF Places, EventBusAssumption
  <1>5. stage \in [Subs -> Stages] /\ runner \in [Subs -> {"take", "handle", "close", "done"}]
    BY <1>1 DEF Stages
  <1>6. last \in [Subs -> [Publishers -> 0 .. MaxEvents]]
    BY DEF Init, EventBusAssumption
  <1>7. TypeOK
    BY <1>1, <1>2, <1>3, <1>4, <1>5, <1>6 DEF Init, TypeOK
  <1>8. PlaceInv
    BY <1>1 DEF PlaceInv, At
  <1>9. QED
    BY <1>7, <1>8 DEF SafeInv

LEMMA SafePublisher ==
    ASSUME EventBusAssumption, SafeInv, NEW p \in Publishers, Publishing(p) \/ ContextDone(p)
    PROVE  SafeInv'
  <1> USE DEF SafeInv
  <1>0. DEFINE Publisher == [at: Places, count: 0 .. MaxEvents, left: SUBSET Subs,
                             sub: 0 .. NumSubs, wait: BOOLEAN]
  <1>a. ASSUME NEW new \in Publisher, publisher' = [publisher EXCEPT ![p] = new],
               BusSame, queue' \in [Subs -> Seq(Events)],
               \A r \in Subs : Len(queue'[r]) <= Buffer,
               new.at # "idle" => new.count > 0,
               IF new.at \in {"idle", "next"} THEN new.sub = 0
               ELSE new.sub \in Subs /\ new.sub \notin new.left
        PROVE  SafeInv'
    <2>1. publisher' \in [Publishers -> Publisher]
      BY <1>a DEF TypeOK
    <2>2. TypeOK'
      BY <1>a, <2>1 DEF TypeOK, BusSame
    <2>3. \A x \in Publishers : publisher'[x] = IF x = p THEN new ELSE publisher[x]
      BY <1>a DEF TypeOK
    <2>4. PlaceInv'
      BY <1>a, <2>3 DEF PlaceInv, At
    <2>5. QED
      BY <2>2, <2>4
  <1>b. publisher[p] \in Publisher /\ 0 \in 0 .. NumSubs /\ Subs \subseteq 0 .. NumSubs
    BY DEF TypeOK, EventBusAssumption, Subs
  <1>c. queue \in [Subs -> Seq(Events)] /\ \A r \in Subs : Len(queue[r]) <= Buffer
    BY DEF TypeOK
  <1>d. publisher[p].at \notin {"idle", "next"} =>
            publisher[p].sub \in Subs /\ publisher[p].sub \notin publisher[p].left
    BY DEF PlaceInv
  <1>e. publisher[p].at # "idle" => publisher[p].count > 0
    BY DEF PlaceInv, At
  <1>f. ASSUME Return(p), BusSame, ~At(p, "idle"), queue' \in [Subs -> Seq(Events)],
               \A r \in Subs : Len(queue'[r]) <= Buffer
        PROVE  SafeInv'
    <2> DEFINE new == [publisher[p] EXCEPT !.at = "next", !.sub = 0]
    <2>1. new \in Publisher /\ new.at = "next" /\ new.sub = 0 /\ new.count = publisher[p].count
      BY <1>b DEF Places
    <2>2. publisher' = [publisher EXCEPT ![p] = new]
      BY <1>f DEF Return, TypeOK
    <2>3. QED
      BY <1>a, <1>e, <1>f, <2>1, <2>2 DEF At
  <1>g. ASSUME NEW place \in {"offer", "evict", "resend"}, Goto(p, place), BusSame,
               publisher[p].at \notin {"idle", "next"}, queue' \in [Subs -> Seq(Events)],
               \A r \in Subs : Len(queue'[r]) <= Buffer
        PROVE  SafeInv'
    <2> DEFINE new == [publisher[p] EXCEPT !.at = place]
    <2>1. /\ new \in Publisher /\ new.at = place /\ new.sub = publisher[p].sub
          /\ new.count = publisher[p].count /\ new.left = publisher[p].left
      BY <1>b DEF Places
    <2>2. publisher' = [publisher EXCEPT ![p] = new]
      BY <1>g DEF Goto
    <2>3. QED
      BY <1>a, <1>d, <1>e, <1>g, <2>1, <2>2
  <1>1. CASE \E wait \in BOOLEAN : Publish(p, wait)
    <2>1. PICK wait \in BOOLEAN : Publish(p, wait)
      BY <1>1
    <2> DEFINE new == [publisher[p] EXCEPT !.count = @ + 1, !.wait = wait, !.left = registered,
                                           !.at = IF open THEN "next" ELSE "idle"]
    <2>2. publisher' = [publisher EXCEPT ![p] = new]
      BY <2>1, Zenon DEF Publish
    <2>8. BusSame /\ queue' = queue
      BY <2>1 DEF Publish
    <2>3. publisher[p].count < MaxEvents /\ At(p, "idle") /\ registered \in SUBSET Subs
      BY <2>1 DEF Publish, TypeOK
    <2>4. publisher[p].count + 1 \in 0 .. MaxEvents /\ publisher[p].count + 1 > 0
      BY <1>b, <2>3 DEF EventBusAssumption
    <2>5. /\ new \in Publisher /\ new.at \in {"idle", "next"} /\ new.sub = publisher[p].sub
          /\ new.count = publisher[p].count + 1
      BY <1>b, <2>3, <2>4 DEF Places
    <2>6. new.sub = 0
      BY <2>3, <2>5 DEF PlaceInv, At
    <2>7. QED
      BY <1>a, <1>c, <2>2, <2>4, <2>5, <2>6, <2>8
  <1>2. CASE Enter(p)
    <2>0. At(p, "next") /\ BusSame /\ queue' = queue
      BY <1>2 DEF Enter
    <2>1. CASE publisher[p].left = {}
      <3> DEFINE new == [publisher[p] EXCEPT !.at = "idle"]
      <3>1. /\ new \in Publisher /\ new.at = "idle" /\ new.sub = publisher[p].sub
        BY <1>b DEF Places
      <3>2. publisher' = [publisher EXCEPT ![p] = new]
        BY <1>2, <2>1 DEF Enter, Goto
      <3>3. new.sub = 0
        BY <2>0, <3>1 DEF PlaceInv, At
      <3>4. QED
        BY <1>a, <1>c, <2>0, <3>1, <3>2, <3>3
    <2>2. CASE publisher[p].left # {}
      <3> DEFINE s == CHOOSE x \in publisher[p].left : \A y \in publisher[p].left : x <= y
                 gone == stage[s] \in {"closed", "shut"}
                 blocks == publisher[p].wait /\ Policy[s] = "Block"
                 new == [publisher[p] EXCEPT !.left = @ \ {s}, !.sub = IF gone THEN 0 ELSE s,
                                             !.at = IF gone THEN "next"
                                                    ELSE IF blocks THEN "block" ELSE "send"]
      <3>1. s \in publisher[p].left /\ s \in Subs /\ s \in 0 .. NumSubs
        BY <1>b, <2>2, NextSub
      <3>2. publisher' = [publisher EXCEPT ![p] = new]
        BY <1>2, <2>2, Zenon DEF Enter
      <3> DEFINE at == IF gone THEN "next" ELSE IF blocks THEN "block" ELSE "send"
      <3>3. at \in {"next", "block", "send"} /\ (at = "next" <=> gone)
        OBVIOUS
      <3> HIDE DEF s, gone, at
      <3>4. /\ new \in Publisher /\ new.at = at /\ new.sub = (IF gone THEN 0 ELSE s)
            /\ new.left = publisher[p].left \ {s} /\ new.count = publisher[p].count
        BY <1>b, <3>1, <3>3 DEF Places, at
      <3> HIDE DEF new
      <3>5. QED
        BY <1>a, <1>c, <1>e, <2>0, <3>1, <3>2, <3>3, <3>4 DEF At
    <2>3. QED
      BY <2>1, <2>2
  <1>3. ASSUME NEW s \in Subs, s = publisher[p].sub, ~At(p, "idle"),
               BusSame, Deliver(p, s) \/ Refuse(p)
        PROVE  SafeInv'
    BY <1>3, <1>c, <1>f, DeliverType DEF Deliver, Refuse
  <1>4. CASE Send(p)
    <2>1. /\ ~At(p, "idle") /\ publisher[p].at \notin {"idle", "next"}
          /\ BusSame /\ queue' = queue
          /\ Return(p) \/ Goto(p, "offer")
      BY <1>4 DEF Send, At
    <2>2. QED
      BY <1>c, <1>f, <1>g, <2>1
  <1>9. CASE Offer(p)
    <2>1. publisher[p].sub \in Subs /\ ~At(p, "idle") /\ BusSame
      BY <1>9, <1>d DEF Offer, At
    <2>2. CASE Goto(p, "evict") /\ queue' = queue
      BY <1>9, <1>c, <1>g, <2>1, <2>2 DEF Offer, At
    <2>3. QED
      BY <1>9, <1>3, <2>1, <2>2 DEF Offer
  <1>5. CASE Evict(p)
    <2> DEFINE s == publisher[p].sub
    <2>1. s \in Subs /\ BusSame /\ Goto(p, "resend") /\ publisher[p].at \notin {"idle", "next"}
      BY <1>5, <1>d DEF Evict, At
    <2>2. CASE queue[s] = <<>>
      <3>1. queue' = queue
        BY <1>5, <2>2, <1>c, <2>1 DEF Evict
      <3>2. QED
        BY <1>c, <1>g, <2>1, <3>1
    <2>3. CASE queue[s] # <<>>
      <3>1. queue' = [queue EXCEPT ![s] = Tail(@)]
        BY <1>5, <2>3, <2>1, <1>c DEF Evict
      <3>2. QED
        BY <1>g, <2>1, <2>3, <3>1, TailType
    <2>4. QED
      BY <2>2, <2>3
  <1>6. CASE Resend(p)
    BY <1>6, <1>3, <1>d DEF Resend, At
  <1>7. CASE Block(p) \/ ContextDone(p)
    BY <1>7, <1>3, <1>d DEF Block, ContextDone, At
  <1>8. QED
    BY <1>1, <1>2, <1>4, <1>5, <1>6, <1>7, <1>9 DEF Publishing

LEMMA SafeOthers ==
    ASSUME EventBusAssumption, SafeInv,
           \/ \E s \in Subs : Unsubscribe(s) \/ Close(s) \/ Run(s)
           \/ CloseBus \/ CloseNext
    PROVE  SafeInv'
  <1> USE DEF SafeInv, TypeOK, CloseOnly, RunOnly, Stages
  <1>0. publisher' = publisher => PlaceInv'
    BY DEF PlaceInv, At
  <1>1. CASE \E s \in Subs : Unsubscribe(s)
    BY <1>0, <1>1 DEF Unsubscribe
  <1>2. CASE \E s \in Subs : Close(s)
    BY <1>0, <1>2 DEF Close, MarkClosing, MarkClosed, Shut
  <1>3. CASE \E s \in Subs : Handle(s)
    <2>1. PICK s \in Subs : Handle(s)
      BY <1>3
    <2>2. queue[s] # <<>> /\ queue' = [queue EXCEPT ![s] = Tail(@)]
      BY <2>1 DEF Handle
    <2>3. queue' \in [Subs -> Seq(Events)] /\ \A r \in Subs : Len(queue'[r]) <= Buffer
      BY <2>2, TailType
    <2>4. Head(queue[s]) \in Events
      BY <2>2, HeadTailProperties
    <2>5. Head(queue[s])[1] \in Publishers /\ Head(queue[s])[2] \in 0 .. MaxEvents
      BY <2>4 DEF Events
    <2>6. last' \in [Subs -> [Publishers -> 0 .. MaxEvents]]
      BY <2>1, <2>5 DEF Handle
    <2>7. QED
      BY <1>0, <2>1, <2>3, <2>6 DEF Handle
  <1>4. CASE \E s \in Subs : Handled(s)
    BY <1>0, <1>4 DEF Handled
  <1>5. CASE \E s \in Subs : Done(s)
    BY <1>0, <1>5 DEF Done
  <1>6. CASE CloseBus
    BY <1>0, <1>6 DEF CloseBus
  <1>7. CASE CloseNext
    BY <1>0, <1>7 DEF CloseNext
  <1>8. QED
    BY <1>1, <1>2, <1>3, <1>4, <1>5, <1>6, <1>7 DEF Run

LEMMA SafeStep ==
    ASSUME EventBusAssumption, SafeInv, [Next]_eventVars
    PROVE  SafeInv'
  <1>1. CASE UNCHANGED eventVars
    BY <1>1 DEF SafeInv, TypeOK, PlaceInv, At, eventVars
  <1>2. QED
    BY <1>1, SafePublisher, SafeOthers DEF Next

(* The variables keep their types; publishers offer an event to one          *)
(* subscription of their snapshot after the other.                           *)
THEOREM TypeCorrect == ASSUME EventBusAssumption PROVE Spec => []TypeOK
  <1>1. SafeInv => TypeOK
    BY DEF SafeInv
  <1>2. QED
    BY <1>1, SafeInit, SafeStep, PTL DEF Spec

-----------------------------------------------------------------------------
(* A channel is closed when no publisher is at a send, and none comes later: *)
(* Enter looks at closed first.                                              *)
LEMMA CloseStep ==
    ASSUME EventBusAssumption, SafeInv, NoSendOnClosed, [Next]_eventVars
    PROVE  NoSendOnClosed'
  <1> USE DEF NoSendOnClosed, Readers, Blocked, At
  <1>a. stage' = stage
            /\ (\A p \in Publishers :
                  \/ publisher'[p].sub \notin Subs
                  \/ publisher'[p].at \notin {"send", "offer", "evict", "resend", "block"}
                  \/ /\ publisher'[p].sub = publisher[p].sub
                     /\ publisher[p].at \in {"send", "offer", "evict", "resend", "block"}
                  \/ stage[publisher'[p].sub] # "shut")
        => NoSendOnClosed'
    OBVIOUS
  <1>b. publisher \in [Publishers -> [at: Places, count: 0 .. MaxEvents, left: SUBSET Subs,
                                      sub: 0 .. NumSubs, wait: BOOLEAN]]
    BY DEF SafeInv, TypeOK
  <1>c. 0 \notin Subs
    BY DEF Subs
  <1>1. ASSUME NEW p \in Publishers, Publishing(p) \/ ContextDone(p)
        PROVE  NoSendOnClosed'
    <2>0. stage' = stage
      BY <1>1 DEF Publishing, Publish, Enter, Send, Offer, Evict, Resend, Block, ContextDone,
                  BusSame
    <2>1. \A x \in Publishers \ {p} : publisher'[x] = publisher[x]
      BY <1>1, <1>b DEF Publishing, Publish, Enter, Send, Offer, Evict, Resend, Block,
                        ContextDone,
                        Deliver, Refuse, Return, Goto
    <2>2. CASE \E wait \in BOOLEAN : Publish(p, wait)
      <3>1. publisher'[p].at \in {"next", "idle"}
        BY <1>b, <2>2 DEF Publish
      <3>2. QED
        BY <1>a, <2>0, <2>1, <3>1
    <2>3. CASE Enter(p)
      <3>1. publisher'[p].at \in {"next", "idle"} \/ stage[publisher'[p].sub] # "shut"
        <4>1. CASE publisher[p].left = {}
          BY <1>b, <2>3, <4>1 DEF Enter, Goto
        <4>2. CASE publisher[p].left # {}
          <5> DEFINE s == CHOOSE x \in publisher[p].left : \A y \in publisher[p].left : x <= y
                     gone == stage[s] \in {"closed", "shut"}
                     blocks == publisher[p].wait /\ Policy[s] = "Block"
          <5>1. publisher' = [publisher EXCEPT
                    ![p].left = @ \ {s},
                    ![p].sub = IF gone THEN 0 ELSE s,
                    ![p].at = IF gone THEN "next" ELSE IF blocks THEN "block" ELSE "send"]
            BY <2>3, <4>2 DEF Enter
          <5> HIDE DEF s
          <5>2. gone => publisher'[p].at = "next"
            BY <1>b, <5>1
          <5>3. ~gone => publisher'[p].sub = s
            BY <1>b, <5>1
          <5>4. QED
            BY <5>2, <5>3
        <4>3. QED
          BY <4>1, <4>2
      <3>2. QED
        BY <1>a, <2>0, <2>1, <3>1
    <2>4. CASE Send(p) \/ Offer(p) \/ Evict(p) \/ Resend(p) \/ Block(p) \/ ContextDone(p)
      <3>1. /\ publisher[p].at \in {"send", "offer", "evict", "resend", "block"}
            /\ publisher'[p].at = "next" \/ publisher'[p].sub = publisher[p].sub
        <4>1. /\ publisher[p].at \in {"send", "offer", "evict", "resend", "block"}
              /\ Return(p) \/ \E place \in {"offer", "evict", "resend"} : Goto(p, place)
          BY <2>4 DEF Send, Offer, Evict, Resend, Block, ContextDone, Deliver, Refuse
        <4>2. CASE Return(p)
          BY <1>b, <4>1, <4>2 DEF Return
        <4>3. CASE \E place \in {"offer", "evict", "resend"} : Goto(p, place)
          BY <1>b, <4>1, <4>3 DEF Goto
        <4>4. QED
          BY <4>1, <4>2, <4>3
      <3>2. QED
        BY <1>a, <2>0, <2>1, <3>1
    <2>5. QED
      BY <1>1, <2>2, <2>3, <2>4 DEF Publishing
  <1>2. ASSUME publisher' = publisher,
               \A s \in Subs : stage'[s] = "shut" =>
                   stage[s] = "shut" \/ Readers(s) \cup Blocked(s) = {}
        PROVE  NoSendOnClosed'
    BY <1>2
  <1>3. stage \in [Subs -> Stages] /\ registered \subseteq Subs /\ closing \subseteq Subs
    BY DEF SafeInv, TypeOK
  <1>4. CASE \E s \in Subs : Unsubscribe(s) \/ Close(s) \/ Run(s)
    BY <1>2, <1>3, <1>4 DEF Unsubscribe, Close, MarkClosing, MarkClosed, Shut, Run, Handle,
                            Handled, Done,
                            CloseOnly, RunOnly
  <1>5. CASE CloseBus \/ CloseNext \/ UNCHANGED eventVars
    BY <1>2, <1>3, <1>5 DEF CloseBus, CloseNext, CloseOnly, eventVars
  <1>6. QED
    BY <1>1, <1>4, <1>5 DEF Next

(* No publisher sends on a closed subscription (subscription.go: closed,     *)
(* blockWG and s.mu), whatever closes it and however many publish.           *)
THEOREM NoSendOnClosedCorrect == ASSUME EventBusAssumption PROVE Spec => []NoSendOnClosed
  <1>1. Init => NoSendOnClosed
    <2> SUFFICES ASSUME Init PROVE NoSendOnClosed
      OBVIOUS
    <2>1. \A p \in Publishers : publisher[p].at = "idle"
      BY DEF Init
    <2>2. QED
      BY <2>1 DEF NoSendOnClosed, Readers, Blocked, At
  <1>2. QED
    BY <1>1, SafeInit, SafeStep, CloseStep, PTL DEF Spec

-----------------------------------------------------------------------------
(* What the steps of a queue do to its order.                                *)
LEMMA AppendOrder ==
    ASSUME EventBusAssumption, NEW q \in Seq(Events), NEW l \in [Publishers -> 0 .. MaxEvents],
           NEW p \in Publishers, NEW n \in 1 .. MaxEvents,
           InOrder(q, l), UpTo(q, l, p, n - 1)
    PROVE  /\ InOrder(Append(q, <<p, n>>), l) /\ UpTo(Append(q, <<p, n>>), l, p, n)
           /\ \A x \in Publishers \ {p}, m \in Int :
                 UpTo(q, l, x, m) => UpTo(Append(q, <<p, n>>), l, x, m)
  <1> DEFINE r == Append(q, <<p, n>>)
  <1>1. MaxEvents \in Nat /\ n \in Int
    BY DEF EventBusAssumption
  <1>2. /\ DOMAIN q = 1 .. Len(q) /\ Len(q) \in Nat
        /\ \A k \in 1 .. Len(q) : q[k][1] \in Publishers /\ q[k][2] \in Int
    BY LenProperties, ElementOfSeq, <1>1 DEF Events
  <1>3. <<p, n>> \in Events
    BY DEF Events
  <1>4. /\ r \in Seq(Events) /\ Len(r) = Len(q) + 1 /\ r[Len(q) + 1] = <<p, n>>
        /\ \A k \in 1 .. Len(q) : r[k] = q[k]
    BY <1>3, AppendProperties
  <1>5. DOMAIN r = 1 .. Len(q) + 1
    BY <1>4, LenProperties
  <1> HIDE DEF r
  <1>a. l[p] \in Int /\ l[p] <= n - 1
    BY <1>1 DEF UpTo
  <1>b. \A k \in 1 .. Len(q) : q[k][1] = p => q[k][2] <= n - 1
    BY <1>2 DEF UpTo
  <1>c. \A k \in 1 .. Len(q) : q[k][2] \in Int /\ (q[k][2] <= n - 1 => q[k][2] < n)
    BY <1>1, <1>2
  <1>6. /\ l[p] \in Int /\ l[p] < n
        /\ \A k \in 1 .. Len(q) : q[k][1] = p => q[k][2] < n
    BY <1>1, <1>a, <1>b, <1>c
  <1>7. InOrder(r, l)
    <2>1. ASSUME NEW k \in 1 .. Len(q)
          PROVE  /\ r[k][2] > l[r[k][1]]
                 /\ \A j \in 1 .. k - 1 : r[j][1] = r[k][1] => r[j][2] < r[k][2]
      <3>1. \A j \in 1 .. k - 1 : j \in 1 .. Len(q)
        BY <1>2
      <3>2. QED
        BY <1>2, <1>4, <3>1 DEF InOrder
    <2>2. ASSUME NEW k \in DOMAIN r, k = Len(q) + 1
          PROVE  /\ r[k][2] > l[r[k][1]]
                 /\ \A j \in 1 .. k - 1 : r[j][1] = r[k][1] => r[j][2] < r[k][2]
      <3>1. r[k][1] = p /\ r[k][2] = n /\ \A j \in 1 .. k - 1 : j \in 1 .. Len(q)
        BY <1>2, <1>4, <2>2
      <3>2. QED
        BY <1>1, <1>4, <1>6, <3>1
    <2>3. \A k \in DOMAIN r : k \in 1 .. Len(q) \/ k = Len(q) + 1
      BY <1>2, <1>5
    <2>4. QED
      BY <2>1, <2>2, <2>3 DEF InOrder
  <1>8. UpTo(r, l, p, n)
    BY <1>1, <1>2, <1>4, <1>5, <1>6 DEF UpTo
  <1>9. \A x \in Publishers \ {p}, m \in Int : UpTo(q, l, x, m) => UpTo(r, l, x, m)
    BY <1>2, <1>4, <1>5 DEF UpTo
  <1>10. QED
    BY <1>7, <1>8, <1>9 DEF r

LEMMA TailOrder ==
    ASSUME NEW q \in Seq(Events), q # <<>>, NEW l, InOrder(q, l)
    PROVE  /\ InOrder(Tail(q), l)
           /\ \A x \in Publishers, m \in Int : UpTo(q, l, x, m) => UpTo(Tail(q), l, x, m)
  <1>1. DOMAIN q = 1 .. Len(q) /\ Len(q) \in Nat
    BY LenProperties
  <1>2. /\ Tail(q) \in Seq(Events) /\ Len(Tail(q)) = Len(q) - 1
        /\ \A k \in 1 .. Len(Tail(q)) : Tail(q)[k] = q[k + 1]
    BY HeadTailProperties
  <1>3. DOMAIN Tail(q) = 1 .. Len(q) - 1
    BY <1>2, LenProperties
  <1>4. \A k \in DOMAIN Tail(q) : k + 1 \in DOMAIN q /\ Tail(q)[k] = q[k + 1]
    BY <1>1, <1>2, <1>3
  <1>5. \A k \in DOMAIN Tail(q) : \A j \in 1 .. k - 1 :
            j + 1 \in 1 .. (k + 1) - 1 /\ j \in DOMAIN Tail(q)
    BY <1>1, <1>3
  <1>6. InOrder(Tail(q), l)
    BY <1>4, <1>5 DEF InOrder
  <1>7. QED
    BY <1>4, <1>6 DEF UpTo

LEMMA HandleOrder ==
    ASSUME EventBusAssumption, NEW q \in Seq(Events), q # <<>>,
           NEW l \in [Publishers -> 0 .. MaxEvents], InOrder(q, l)
    PROVE  LET m == [l EXCEPT ![Head(q)[1]] = Head(q)[2]]
           IN  /\ InOrder(Tail(q), m)
               /\ \A x \in Publishers, n \in Int : UpTo(q, l, x, n) => UpTo(Tail(q), m, x, n)
  <1> DEFINE m == [l EXCEPT ![Head(q)[1]] = Head(q)[2]]
  <1>1. /\ DOMAIN q = 1 .. Len(q) /\ Len(q) \in Nat \ {0} /\ 1 \in DOMAIN q
        /\ Head(q) = q[1] /\ q[1] \in Events
    BY LenProperties, EmptySeq, HeadTailProperties
  <1>2. /\ Tail(q) \in Seq(Events) /\ Len(Tail(q)) = Len(q) - 1
        /\ \A k \in 1 .. Len(Tail(q)) : Tail(q)[k] = q[k + 1]
    BY HeadTailProperties
  <1>3. DOMAIN Tail(q) = 1 .. Len(q) - 1
    BY <1>2, LenProperties
  <1>4. \A k \in DOMAIN Tail(q) : k + 1 \in DOMAIN q /\ 1 \in 1 .. (k + 1) - 1
                                  /\ Tail(q)[k] = q[k + 1]
    BY <1>1, <1>2, <1>3
  <1>5. \A x \in Publishers : m[x] = IF x = q[1][1] THEN q[1][2] ELSE l[x]
    BY <1>1
  <1>6. \A k \in DOMAIN Tail(q) : Tail(q)[k] \in Events
    BY <1>2, <1>3, ElementOfSeq
  <1> HIDE DEF m
  <1>7. \A k \in DOMAIN Tail(q) : Tail(q)[k][2] > m[Tail(q)[k][1]]
    <2> SUFFICES ASSUME NEW k \in DOMAIN Tail(q) PROVE Tail(q)[k][2] > m[Tail(q)[k][1]]
      OBVIOUS
    <2>1. q[k + 1][2] > l[q[k + 1][1]] /\ (q[1][1] = q[k + 1][1] => q[1][2] < q[k + 1][2])
      BY <1>4 DEF InOrder
    <2>2. Tail(q)[k][1] \in Publishers
      BY <1>6 DEF Events
    <2>3. q[1][2] \in Int /\ q[k + 1][2] \in Int
      BY SMTT(40), <1>1, <1>4, <1>6 DEF Events, EventBusAssumption
    <2>4. QED
      BY <1>4, <1>5, <2>1, <2>2, <2>3
  <1>8. InOrder(Tail(q), l)
    BY TailOrder
  <1>9. InOrder(Tail(q), m)
    BY <1>7, <1>8 DEF InOrder
  <1>10. ASSUME NEW x \in Publishers, NEW n \in Int, UpTo(q, l, x, n)
         PROVE  UpTo(Tail(q), m, x, n)
    BY <1>1, <1>4, <1>5, <1>10 DEF UpTo
  <1>11. QED
    BY <1>9, <1>10 DEF m

-----------------------------------------------------------------------------
(* A publisher's limit only grows: it numbers its events and is done with    *)
(* one subscription after the other.                                         *)
LEMMA LimitGrows ==
    ASSUME EventBusAssumption, SafeInv, [Next]_eventVars, NEW p \in Publishers, NEW s \in Subs
    PROVE  Limit(p, s) \in Int /\ Limit(p, s)' \in Int /\ Limit(p, s) <= Limit(p, s)'
  <1> USE DEF Limit, Owes, At
  <1>0. publisher \in [Publishers -> [at: Places, count: 0 .. MaxEvents, left: SUBSET Subs,
                                      sub: 0 .. NumSubs, wait: BOOLEAN]]
    BY DEF SafeInv, TypeOK
  <1>1. publisher[p].count \in Int /\ MaxEvents \in Nat
    BY <1>0 DEF EventBusAssumption
  <1>2. CASE publisher'[p] = publisher[p]
    BY <1>1, <1>2
  <1>3. CASE \E wait \in BOOLEAN : Publish(p, wait)
    <2>1. publisher[p].at = "idle" /\ publisher'[p].count = publisher[p].count + 1
      BY <1>0, <1>3 DEF Publish
    <2>2. QED
      BY <1>1, <2>1
  <1>4. CASE /\ publisher'[p].count = publisher[p].count
             /\ Owes(p, s)' => Owes(p, s)
    BY <1>1, <1>4
  <1>5. CASE Enter(p)
    <2>1. CASE publisher[p].left = {}
      BY <1>0, <1>4, <1>5, <2>1 DEF Enter, Goto
    <2>2. CASE publisher[p].left # {}
      <3> DEFINE t == CHOOSE x \in publisher[p].left : \A y \in publisher[p].left : x <= y
      <3>1. t \in publisher[p].left
        BY <2>2, NextSub DEF SafeInv
      <3>2. /\ publisher[p].at = "next"
            /\ publisher' = [publisher EXCEPT
                 ![p].left = @ \ {t},
                 ![p].sub = IF stage[t] \in {"closed", "shut"} THEN 0 ELSE t,
                 ![p].at = IF stage[t] \in {"closed", "shut"} THEN "next"
                           ELSE IF publisher[p].wait /\ Policy[t] = "Block" THEN "block"
                           ELSE "send"]
        BY <1>5, <2>2 DEF Enter
      <3> HIDE DEF t
      <3>3. /\ publisher'[p].count = publisher[p].count
            /\ publisher'[p].left = publisher[p].left \ {t} /\ publisher'[p].sub \in {0, t}
        BY <1>0, <3>2
      <3>4. 0 \notin Subs
        BY DEF Subs
      <3>5. QED
        BY <1>4, <3>1, <3>2, <3>3, <3>4
    <2>3. QED
      BY <2>1, <2>2
  <1>6. CASE Send(p) \/ Offer(p) \/ Evict(p) \/ Resend(p) \/ Block(p) \/ ContextDone(p)
    <2>1. /\ publisher[p].at # "idle"
          /\ Return(p) \/ \E place \in {"offer", "evict", "resend"} : Goto(p, place)
      BY <1>6 DEF Send, Offer, Evict, Resend, Block, ContextDone, Deliver, Refuse
    <2>2. /\ publisher'[p].count = publisher[p].count /\ publisher'[p].left = publisher[p].left
          /\ publisher'[p].sub \in {0, publisher[p].sub}
      BY <1>0, <2>1 DEF Return, Goto
    <2>3. 0 \notin Subs
      BY DEF Subs
    <2>4. QED
      BY <1>4, <2>1, <2>2, <2>3
  <1>7. CASE \E x \in Publishers \ {p} : Publishing(x) \/ ContextDone(x)
    <2>1. publisher'[p] = publisher[p]
      <3>1. PICK x \in Publishers \ {p} : Publishing(x) \/ ContextDone(x)
        BY <1>7
      <3>2. CASE \E wait \in BOOLEAN : Publish(x, wait)
        BY <1>0, <3>2 DEF Publish
      <3>3. CASE Enter(x)
        BY <1>0, <3>3 DEF Enter, Goto
      <3>4. CASE Send(x) \/ Offer(x) \/ Evict(x) \/ Resend(x) \/ Block(x) \/ ContextDone(x)
        <4>1. Return(x) \/ \E place \in {"offer", "evict", "resend"} : Goto(x, place)
          BY <3>4 DEF Send, Offer, Evict, Resend, Block, ContextDone, Deliver, Refuse
        <4>2. QED
          BY <1>0, <4>1 DEF Return, Goto
      <3>5. QED
        BY <3>1, <3>2, <3>3, <3>4 DEF Publishing
    <2>2. QED
      BY <1>2, <2>1
  <1>8. CASE \/ \E r \in Subs : Unsubscribe(r) \/ Close(r) \/ Run(r)
             \/ CloseBus \/ CloseNext \/ UNCHANGED eventVars
    <2>1. publisher' = publisher
      BY <1>8 DEF Unsubscribe, Close, MarkClosing, MarkClosed, Shut, Run, Handle, Handled,
                  Done, CloseBus,
                  CloseNext, CloseOnly, RunOnly, eventVars
    <2>2. QED
      BY <1>2, <2>1
  <1>9. QED
    BY <1>3, <1>5, <1>6, <1>7, <1>8 DEF Next, Publishing

LEMMA UpToGrows ==
    ASSUME EventBusAssumption, SafeInv, [Next]_eventVars, NEW p \in Publishers, NEW s \in Subs,
           NEW q \in Seq(Events), NEW l \in [Publishers -> 0 .. MaxEvents],
           UpTo(q, l, p, Limit(p, s))
    PROVE  UpTo(q, l, p, Limit(p, s)')
  <1>1. Limit(p, s) \in Int /\ Limit(p, s)' \in Int /\ Limit(p, s) <= Limit(p, s)'
    BY LimitGrows
  <1>2. l[p] \in Int
    BY DEF EventBusAssumption
  <1>3. \A k \in DOMAIN q : q[k][2] \in Int
    BY LenProperties, ElementOfSeq DEF Events, EventBusAssumption
  <1>4. QED
    BY <1>1, <1>2, <1>3 DEF UpTo

(* An event put into a queue is the newest of its publisher there.           *)
LEMMA OrderDeliver ==
    ASSUME EventBusAssumption, SafeInv, OrderInv, [Next]_eventVars, NEW p \in Publishers,
           NEW s \in Subs, s = publisher[p].sub, ~At(p, "idle"), Deliver(p, s), last' = last
    PROVE  OrderInv'
  <1> DEFINE n == publisher[p].count
  <1>1. publisher \in [Publishers -> [at: Places, count: 0 .. MaxEvents, left: SUBSET Subs,
                                      sub: 0 .. NumSubs, wait: BOOLEAN]]
    BY DEF SafeInv, TypeOK
  <1>2. n \in 1 .. MaxEvents /\ MaxEvents \in Nat /\ n \in Int
    BY <1>1 DEF SafeInv, PlaceInv, EventBusAssumption
  <1>3. publisher[p].at \notin {"idle", "next"} /\ s \notin publisher[p].left /\ 0 \notin Subs
    BY DEF SafeInv, PlaceInv, At, Subs
  <1>4. Limit(p, s) = n - 1
    BY <1>2 DEF Limit, Owes
  <1>5. /\ queue[s] \in Seq(Events) /\ last[s] \in [Publishers -> 0 .. MaxEvents]
        /\ queue'[s] = Append(queue[s], <<p, n>>)
        /\ \A r \in Subs \ {s} : queue'[r] = queue[r]
    BY DEF Deliver, Event, SafeInv, TypeOK
  <1>6. publisher'[p].left = publisher[p].left /\ publisher'[p].sub = 0 /\ publisher'[p].count = n
    BY <1>1 DEF Deliver, Return
  <1>7. Limit(p, s)' = n
    BY <1>2, <1>3, <1>6 DEF Limit, Owes
  <1>8. InOrder(queue[s], last[s]) /\ UpTo(queue[s], last[s], p, n - 1)
    BY <1>4 DEF OrderInv
  <1> HIDE DEF n
  <1>9. /\ InOrder(queue'[s], last[s]) /\ UpTo(queue'[s], last[s], p, n)
        /\ \A x \in Publishers \ {p}, m \in Int :
              UpTo(queue[s], last[s], x, m) => UpTo(queue'[s], last[s], x, m)
    <2> DEFINE q == queue[s]
               l == last[s]
    <2>1. /\ q \in Seq(Events) /\ l \in [Publishers -> 0 .. MaxEvents]
          /\ InOrder(q, l) /\ UpTo(q, l, p, n - 1)
      BY <1>5, <1>8
    <2> HIDE DEF q, l
    <2>2. /\ InOrder(Append(q, <<p, n>>), l) /\ UpTo(Append(q, <<p, n>>), l, p, n)
          /\ \A x \in Publishers \ {p}, m \in Int :
                UpTo(q, l, x, m) => UpTo(Append(q, <<p, n>>), l, x, m)
      BY <1>2, <2>1, AppendOrder
    <2>3. QED
      BY <1>5, <2>2 DEF q, l
  <1>13. \A r \in Subs : queue'[r] \in Seq(Events) /\ last[r] \in [Publishers -> 0 .. MaxEvents]
    BY DeliverType DEF SafeInv, TypeOK
  <1>10. ASSUME NEW r \in Subs, NEW x \in Publishers
         PROVE  UpTo(queue'[r], last[r], x, Limit(x, r)')
    <2>1. CASE r = s /\ x = p
      BY <1>7, <1>9, <2>1
    <2>2. CASE ~(r = s /\ x = p)
      <3>1. UpTo(queue[r], last[r], x, Limit(x, r))
        BY DEF OrderInv
      <3>2. UpTo(queue'[r], last[r], x, Limit(x, r))
        BY <1>5, <1>9, <2>2, <3>1, LimitGrows
      <3>3. QED
        BY <1>13, <3>2, UpToGrows
    <2>3. QED
      BY <2>1, <2>2
  <1>11. ASSUME NEW r \in Subs PROVE InOrder(queue'[r], last[r])
    BY <1>5, <1>9 DEF OrderInv
  <1>12. QED
    BY <1>10, <1>11 DEF OrderInv

(* A step that takes out the oldest event, or leaves the queue alone.        *)
LEMMA OrderTake ==
    ASSUME EventBusAssumption, SafeInv, OrderInv, [Next]_eventVars, NEW s \in Subs,
           queue[s] # <<>>, queue' = [queue EXCEPT ![s] = Tail(@)],
           \/ last' = last
           \/ last' = [last EXCEPT ![s][Head(queue[s])[1]] = Head(queue[s])[2]]
    PROVE  OrderInv'
  <1>1. /\ queue[s] \in Seq(Events) /\ last[s] \in [Publishers -> 0 .. MaxEvents]
        /\ queue'[s] = Tail(queue[s])
        /\ \A r \in Subs \ {s} : queue'[r] = queue[r] /\ last'[r] = last[r]
        /\ InOrder(queue[s], last[s])
    BY DEF SafeInv, TypeOK, OrderInv
  <1>2. \/ last'[s] = last[s]
        \/ last'[s] = [last[s] EXCEPT ![Head(queue[s])[1]] = Head(queue[s])[2]]
    BY DEF SafeInv, TypeOK
  <1>3. /\ InOrder(queue'[s], last'[s])
        /\ \A x \in Publishers, n \in Int :
              UpTo(queue[s], last[s], x, n) => UpTo(queue'[s], last'[s], x, n)
    <2>1. CASE last'[s] = last[s]
      BY <1>1, <2>1, TailOrder
    <2>2. CASE last'[s] = [last[s] EXCEPT ![Head(queue[s])[1]] = Head(queue[s])[2]]
      BY <1>1, <2>2, HandleOrder
    <2>3. QED
      BY <1>2, <2>1, <2>2
  <1>4. \A r \in Subs : queue'[r] \in Seq(Events) /\ last'[r] \in [Publishers -> 0 .. MaxEvents]
    BY SafeStep DEF SafeInv, TypeOK
  <1>5. ASSUME NEW r \in Subs, NEW x \in Publishers
        PROVE  UpTo(queue'[r], last'[r], x, Limit(x, r)')
    <2>1. UpTo(queue[r], last[r], x, Limit(x, r)) /\ Limit(x, r) \in Int
      BY LimitGrows DEF OrderInv
    <2>2. UpTo(queue'[r], last'[r], x, Limit(x, r))
      BY <1>1, <1>3, <2>1
    <2>3. QED
      BY <1>4, <2>2, UpToGrows
  <1>6. ASSUME NEW r \in Subs PROVE InOrder(queue'[r], last'[r])
    BY <1>1, <1>3 DEF OrderInv
  <1>7. QED
    BY <1>5, <1>6 DEF OrderInv

LEMMA OrderSame ==
    ASSUME EventBusAssumption, SafeInv, OrderInv, [Next]_eventVars,
           queue' = queue, last' = last
    PROVE  OrderInv'
  <1>1. \A s \in Subs : queue[s] \in Seq(Events) /\ last[s] \in [Publishers -> 0 .. MaxEvents]
    BY DEF SafeInv, TypeOK
  <1>2. ASSUME NEW s \in Subs, NEW p \in Publishers
        PROVE  UpTo(queue[s], last[s], p, Limit(p, s)')
    BY <1>1, UpToGrows DEF OrderInv
  <1>3. QED
    BY <1>2 DEF OrderInv

LEMMA OrderPublisher ==
    ASSUME EventBusAssumption, SafeInv, OrderInv, [Next]_eventVars, NEW p \in Publishers,
           Publishing(p) \/ ContextDone(p)
    PROVE  OrderInv'
  <1> DEFINE s == publisher[p].sub
  <1>1. last' = last
    BY DEF Publishing, Publish, Enter, Send, Offer, Evict, Resend, Block, ContextDone, BusSame
  <1>2. ~At(p, "idle") /\ ~At(p, "next") => s \in Subs
    BY DEF SafeInv, PlaceInv, At
  <1>3. CASE queue' = queue
    BY <1>1, <1>3, OrderSame
  <1>4. CASE ~At(p, "idle") /\ ~At(p, "next") /\ Deliver(p, s)
    BY <1>1, <1>2, <1>4, OrderDeliver
  <1>5. CASE Evict(p) /\ queue' # queue
    <2>1. s \in Subs
      BY <1>2, <1>5 DEF Evict, At
    <2>2. queue[s] # <<>>
      BY <1>5, <2>1 DEF Evict, SafeInv, TypeOK
    <2>3. queue' = [queue EXCEPT ![s] = Tail(@)]
      BY <1>5, <2>1, <2>2 DEF Evict
    <2>4. QED
      BY <1>1, <2>1, <2>2, <2>3, OrderTake
  <1>6. QED
    BY <1>3, <1>4, <1>5 DEF Publishing, Publish, Enter, Send, Offer, Resend, Block,
                            ContextDone, Refuse, At

LEMMA OrderStep ==
    ASSUME EventBusAssumption, SafeInv, OrderInv, [Next]_eventVars
    PROVE  OrderInv'
  <1>1. CASE \E p \in Publishers : Publishing(p) \/ ContextDone(p)
    BY <1>1, OrderPublisher
  <1>2. CASE \E s \in Subs : Handle(s)
    <2>1. PICK s \in Subs : Handle(s)
      BY <1>2
    <2>2. /\ queue[s] # <<>> /\ queue' = [queue EXCEPT ![s] = Tail(@)]
          /\ last' = [last EXCEPT ![s][Head(queue[s])[1]] = Head(queue[s])[2]]
      BY <2>1 DEF Handle
    <2>3. QED
      BY <2>2, OrderTake
  <1>3. CASE \/ \E s \in Subs : Unsubscribe(s) \/ Close(s) \/ Handled(s) \/ Done(s)
             \/ CloseBus \/ CloseNext \/ UNCHANGED eventVars
    <2>1. queue' = queue /\ last' = last
      BY <1>3 DEF Unsubscribe, Close, MarkClosing, MarkClosed, Shut, Handled, Done, CloseBus,
                  CloseNext,
                  CloseOnly, eventVars
    <2>2. QED
      BY <2>1, OrderSame
  <1>4. QED
    BY <1>1, <1>2, <1>3 DEF Next, Run

(* A handler sees a publisher's events in the order they were published and  *)
(* none twice, under every policy: eviction, blocked senders and the close   *)
(* of a subscription drop events but never move one past another.            *)
THEOREM HandledInOrderCorrect == ASSUME EventBusAssumption PROVE Spec => []HandledInOrder
  <1>1. Init => OrderInv
    <2> SUFFICES ASSUME Init PROVE OrderInv
      OBVIOUS
    <2>1. SafeInv
      BY SafeInit
    <2>2. /\ \A s \in Subs : queue[s] = <<>> /\ last[s] = [p \in Publishers |-> 0]
          /\ \A p \in Publishers : publisher[p].at = "idle"
      BY DEF Init
    <2>3. \A p \in Publishers : publisher[p].count \in Nat
      BY <2>1 DEF SafeInv, TypeOK, EventBusAssumption
    <2>4. DOMAIN <<>> = {}
      OBVIOUS
    <2>5. \A p \in Publishers, s \in Subs : Limit(p, s) \in Nat
      BY <2>2, <2>3 DEF Limit, Owes, At
    <2>6. QED
      BY <2>2, <2>4, <2>5 DEF OrderInv, InOrder, UpTo
  <1>2. OrderInv => HandledInOrder
    BY DEF OrderInv, HandledInOrder, InOrder
  <1>3. QED
    BY <1>1, <1>2, SafeInit, SafeStep, OrderStep, PTL DEF Spec

-----------------------------------------------------------------------------
(* A goroutine that is over leaves a closed channel, which stays closed      *)
(* because only a registered subscription, an open one, is closed.           *)
DrainInv ==
    /\ \A s \in registered : stage[s] = "open"
    /\ closing # {} => registered = {}
    /\ \A s \in Subs : runner[s] = "done" => s \in Once \/ (stage[s] = "shut" /\ queue[s] = <<>>)
    /\ \A s \in Subs : runner[s] = "close" => s \in Once

LEMMA DrainPublisher ==
    ASSUME EventBusAssumption, SafeInv, NoSendOnClosed, DrainInv,
           NEW p \in Publishers, Publishing(p) \/ ContextDone(p)
    PROVE  DrainInv'
  <1> DEFINE s == publisher[p].sub
  <1>1. /\ registered' = registered /\ closing' = closing
        /\ stage' = stage /\ runner' = runner
    BY DEF Publishing, Publish, Enter, Send, Offer, Evict, Resend, Block, ContextDone, BusSame
  <1>2. CASE queue' = queue
    BY <1>1, <1>2 DEF DrainInv
  <1>3. CASE queue' # queue
    <2>1. /\ publisher[p].at \in {"send", "offer", "evict", "resend", "block"}
          /\ \A r \in Subs \ {s} : queue'[r] = queue[r]
      BY <1>3 DEF Publishing, Publish, Enter, Send, Offer, Evict, Resend, Block, ContextDone,
                  Deliver,
                  Refuse, At, SafeInv, TypeOK
    <2>2. s \in Subs => stage[s] # "shut"
      BY <2>1 DEF NoSendOnClosed, Readers, Blocked, At
    <2>3. QED
      BY <1>1, <2>1, <2>2 DEF DrainInv
  <1>4. QED
    BY <1>2, <1>3

LEMMA DrainStep ==
    ASSUME EventBusAssumption, SafeInv, NoSendOnClosed, DrainInv, [Next]_eventVars
    PROVE  DrainInv'
  <1> USE DEF DrainInv, SafeInv, TypeOK, CloseOnly, RunOnly
  <1>1. CASE \E p \in Publishers : Publishing(p) \/ ContextDone(p)
    BY <1>1, DrainPublisher
  <1>2. CASE \E s \in Subs : Unsubscribe(s)
    BY <1>2 DEF Unsubscribe
  <1>3. CASE \E s \in Subs : Close(s)
    BY <1>3 DEF Close, MarkClosing, MarkClosed, Shut
  <1>4. CASE \E s \in Subs : Handle(s)
    BY <1>4 DEF Handle
  <1>5. CASE \E s \in Subs : Handled(s)
    BY <1>5 DEF Handled
  <1>6. CASE \E s \in Subs : Done(s)
    BY <1>6 DEF Done
  <1>7. CASE CloseBus
    BY <1>7 DEF CloseBus
  <1>8. CASE CloseNext
    BY <1>8 DEF CloseNext
  <1>9. CASE UNCHANGED eventVars
    BY <1>9 DEF eventVars
  <1>10. QED
    BY <1>1, <1>2, <1>3, <1>4, <1>5, <1>6, <1>7, <1>8, <1>9 DEF Next, Run

(* Closing is clean for every number of publishers and subscriptions and     *)
(* every policy: no send on a closed channel, what was accepted is handled   *)
(* before the goroutine ends, and in order.                                  *)
THEOREM CloseIsCleanCorrect == ASSUME EventBusAssumption PROVE Spec => []CloseIsClean
  <1>1. Init => DrainInv
    <2> SUFFICES ASSUME Init PROVE DrainInv
      OBVIOUS
    <2>1. PICK setup \in Setups :
            /\ registered = setup.subs
            /\ stage = [s \in Subs |-> IF s \in setup.subs THEN "open" ELSE "shut"]
            /\ runner = [s \in Subs |-> IF s \in setup.subs THEN "take" ELSE "done"]
      BY DEF Init
    <2>2. setup.subs \subseteq Subs /\ queue = [s \in Subs |-> <<>>] /\ closing = {}
      BY DEF Init, EventBusAssumption
    <2>3. QED
      BY <2>1, <2>2 DEF DrainInv
  <1>2. DrainInv => ClosedIsDrained
    BY DEF DrainInv, ClosedIsDrained
  <1>3. SafeInv /\ NoSendOnClosed /\ DrainInv /\ [Next]_eventVars => DrainInv'
    BY DrainStep
  <1>4. Spec => []DrainInv
    BY <1>1, <1>3, SafeInit, SafeStep, NoSendOnClosedCorrect, PTL DEF Spec
  <1>5. NoSendOnClosed /\ ClosedIsDrained /\ HandledInOrder => CloseIsClean
    BY DEF CloseIsClean
  <1>6. QED
    BY <1>2, <1>4, <1>5, NoSendOnClosedCorrect, HandledInOrderCorrect, PTL

-----------------------------------------------------------------------------
(* The cron service.                                                         *)

(* A record of each kind that Cron keeps; TypeInv is CronTypeOK in parts.    *)
LoopRec == [at: LoopPlaces, deadline: 0 .. Latest, due: SUBSET Ids, job: SUBSET Ids]
CopyRec == [by: 0 .. MaxServices, id: Ids, job: Job]

TypeInv ==
    /\ clock \in 1 .. MaxTime /\ phase \in {"down", "up", "reloading"}
    /\ service \in 0 .. MaxServices /\ first \in 1 .. MaxServices + 1
    /\ store \in [Services -> [Ids -> Job]] /\ disk \in [Ids -> Job]
    /\ loop \in [Services -> LoopRec] /\ copy \in CopyRec
    /\ edits \in 0 .. MaxEdits
    /\ used \in SUBSET Ids /\ lapsed \in SUBSET Ids /\ stale \in SUBSET Ids
    /\ missed \in BOOLEAN /\ clobbered \in BOOLEAN
    /\ taken \subseteq Ids \X (1 .. MaxTime)

(* A loop has jobs to execute only where it executes, and one at a time; no   *)
(* loop runs before its service is started.                                   *)
LoopOK(l) ==
    /\ l.due # {} => l.at \in {"execute", "run"}
    /\ l.job # {} => l.at = "run" /\ \E i \in Ids : l.job = {i}

LoopInv ==
    /\ \A s \in Services : LoopOK(loop[s]) /\ (s > service => loop[s] = Idle)
    /\ phase # "down" => service \in Services

(* What every copy of a job has, in memory, in the file and in a tool call: a *)
(* one-shot job with a next run is enabled and runs at its time.              *)
Sane(job) ==
    /\ job.kind = "none" => ~job.enabled
    /\ job.kind = "at" =>
          job.when \in 1 .. MaxTime /\ (job.next # 0 => job.enabled /\ job.next = job.when)

Given(i, job) == Sane(job) /\ (job.kind # "none" => i \in used)

(* A copy has the schedule of its job, unless that is gone.                   *)
SameSchedule(old, new) == old.kind = new.kind /\ old.when = new.when
JobsInv ==
    /\ \A i \in Ids : Given(i, disk[i]) /\ \A s \in Services : Given(i, store[s][i])
    /\ copy.by # 0 =>
          /\ copy.by <= service /\ Given(copy.id, copy.job) /\ copy.job.kind # "none"
          /\ store[copy.by][copy.id].kind # "none" =>
                SameSchedule(store[copy.by][copy.id], copy.job)

Held(l) == l.due \cup l.job
InTime(l, job) == job.enabled /\ job.next # 0 => l.deadline <= job.next

KeptInv ==
    phase = "up" =>
        /\ \A i \in Ids : store[service][i].enabled /\ store[service][i].next = 0 =>
               i \in Held(loop[service]) \cup lapsed \cup stale
        /\ loop[service].at \in {"armed", "asleep"} /\ ~missed =>
               \A i \in Ids : InTime(loop[service], store[service][i])
        /\ disk = store[service] \/ clobbered

(* What was taken up and could be again is still in the hands of the loop,    *)
(* which deletes it before it looks again: so for what the running service    *)
(* has and for what a tool call may write back to it.                         *)
Again(i, job) == job.kind = "at" /\ job.next # 0 /\ <<i, job.when>> \in taken
OnceInv ==
    /\ \A i \in Ids, t \in 1 .. MaxTime : <<i, t>> \in taken => t <= clock
    /\ phase = "up" =>
          /\ \A i \in Ids : Again(i, store[service][i]) => i \in Held(loop[service])
          /\ /\ copy.by = service /\ Again(copy.id, copy.job)
             /\ store[service][copy.id].kind # "none"
             => copy.id \in Held(loop[service])

(* The inductive invariant.                                                  *)
Inv == TypeInv /\ LoopInv /\ JobsInv /\ KeptInv /\ OnceInv

-----------------------------------------------------------------------------
LEMMA NoJobFacts ==
    ASSUME CronAssumption
    PROVE  /\ NoJob \in Job /\ NoJob.kind = "none" /\ ~NoJob.enabled
           /\ \A i : Given(i, NoJob)
           /\ Idle \in LoopRec /\ LoopOK(Idle) /\ Held(Idle) = {} /\ Idle.at = "off"
           /\ NoCopy \in CopyRec /\ NoCopy.by = 0
           /\ Latest \in Nat /\ MaxTime \in Nat /\ 1 \in 1 .. MaxTime /\ MaxTime <= Latest
  <1>1. Latest \in Nat /\ MaxTime \in Nat /\ 1 \in 1 .. MaxTime /\ MaxTime <= Latest
    BY DEF CronAssumption, Latest
  <1>2. NoJob \in Job /\ NoJob.kind = "none" /\ ~NoJob.enabled
    BY <1>1 DEF NoJob, Job, Kinds
  <1>3. \A i : Given(i, NoJob)
    BY DEF NoJob, Given, Sane
  <1>4. Idle \in LoopRec /\ LoopOK(Idle) /\ Held(Idle) = {} /\ Idle.at = "off"
    BY <1>1 DEF Idle, LoopRec, LoopPlaces, LoopOK, Held
  <1>5. NoCopy \in CopyRec /\ NoCopy.by = 0
    <2>1. (CHOOSE i \in Ids : TRUE) \in Ids
      BY DEF CronAssumption
    <2>2. 0 \in 0 .. MaxServices
      BY DEF CronAssumption
    <2>3. QED
      BY <1>2, <2>1, <2>2 DEF NoCopy, CopyRec
  <1>6. QED
    BY <1>1, <1>2, <1>3, <1>4, <1>5

(* computeNextRun answers with nothing, or with a time to come: the one-shot  *)
(* job's own.                                                                 *)
LEMMA NextRunType ==
    ASSUME CronAssumption, TypeInv, NEW job \in Job,
           job.kind = "at" => job.when \in 1 .. MaxTime
    PROVE  /\ NextRun(job) \in 0 .. Latest
           /\ job.kind = "every" => NextRun(job) # 0
           /\ job.kind = "at" /\ NextRun(job) # 0 => NextRun(job) = job.when /\ job.when > clock
           /\ [job EXCEPT !.next = NextRun(job)] \in Job
  <1>1. clock \in 1 .. MaxTime /\ job.kind \in Kinds /\ job.when \in 0 .. Latest
    BY DEF TypeInv, Job
  <1>2. CASE job.kind = "at"
    BY <1>1, <1>2, NoJobFacts DEF NextRun, Job
  <1>3. CASE job.kind = "every"
    <2>1. NextRun(job) = clock + Period
      BY <1>3 DEF NextRun
    <2>2. clock + Period \in 0 .. Latest /\ clock + Period # 0
      BY <1>1 DEF CronAssumption, Latest
    <2>3. QED
      BY <1>3, <2>1, <2>2 DEF Job
  <1>4. CASE job.kind \notin {"at", "every"}
    <2>1. NextRun(job) = 0
      BY <1>4 DEF NextRun
    <2>2. QED
      BY <1>4, <2>1, NoJobFacts DEF Job
  <1>5. QED
    BY <1>2, <1>3, <1>4

LEMMA InitCron ==
    ASSUME CronAssumption, CronInit
    PROVE  Inv
  <1> USE NoJobFacts
  <1>1. TypeInv
    <2>1. /\ 1 \in 1 .. MaxTime /\ 0 \in 0 .. MaxServices /\ 1 \in 1 .. MaxServices + 1
          /\ MaxEdits \in 0 .. MaxEdits
      BY DEF CronAssumption
    <2>2. /\ store \in [Services -> [Ids -> Job]] /\ disk \in [Ids -> Job]
          /\ loop \in [Services -> LoopRec] /\ copy \in CopyRec
      BY DEF CronInit
    <2>3. QED
      BY <2>1, <2>2 DEF CronInit, TypeInv
  <1>2. LoopInv /\ JobsInv
    BY DEF CronInit, LoopInv, JobsInv
  <1>3. KeptInv /\ OnceInv
    BY DEF CronInit, KeptInv, OnceInv
  <1>4. QED
    BY <1>1, <1>2, <1>3 DEF Inv

(* A step of a loop that changes no job: what it lets go of is gone.          *)
LEMMA LoopKeeps ==
    ASSUME CronAssumption, Inv, NEW s \in Services, NEW l \in LoopRec, LoopOK(l),
           s <= service,
           loop' = [loop EXCEPT ![s] = l], InLoop,
           s = service /\ phase = "up" =>
               /\ \A i \in Held(loop[s]) \ Held(l) : store[s][i].kind = "none"
               /\ l.at \in {"armed", "asleep"} /\ ~missed =>
                      \A i \in Ids : InTime(l, store[s][i])
    PROVE  Inv'
  <1> USE DEF InLoop, LoopOnly
  <1>1. /\ loop'[s] = l /\ \A r \in Services \ {s} : loop'[r] = loop[r]
        /\ loop' \in [Services -> LoopRec]
    BY DEF Inv, TypeInv
  <1>2. TypeInv'
    BY <1>1 DEF Inv, TypeInv
  <1>3. LoopInv'
    <2>1. /\ service \in Int /\ ~(s > service)
          /\ \A r \in Services : LoopOK(loop[r]) /\ (r > service => loop[r] = Idle)
      BY DEF Inv, LoopInv, TypeInv, Services, CronAssumption
    <2>2. \A r \in Services : LoopOK(loop'[r]) /\ (r > service => loop'[r] = Idle)
      BY <1>1, <2>1
    <2>3. (\A r \in Services : LoopOK(loop[r]) /\ (r > service => loop[r] = Idle))'
      BY <2>2
    <2>4. QED
      BY <2>3 DEF Inv, LoopInv
  <1>4. JobsInv'
    BY DEF Inv, JobsInv, Given, Sane
  <1>5. KeptInv'
    <2> SUFFICES ASSUME phase = "up" PROVE KeptInv'
      BY DEF KeptInv
    <2>1. service \in Services
      BY DEF Inv, LoopInv
    <2>2. CASE s # service
      BY <1>1, <2>1, <2>2 DEF Inv, KeptInv, InTime
    <2>3. CASE s = service
      <3>1. \A i \in Ids : store[service][i].enabled /\ store[service][i].next = 0 =>
                i \in Held(l) \cup lapsed \cup stale
        <4>1. \A i \in Ids : store[service][i].enabled => store[service][i].kind # "none"
          BY <2>1 DEF Inv, JobsInv, Given, Sane
        <4>2. QED
          BY <2>3, <4>1 DEF Inv, KeptInv
      <3>2. QED
        BY <1>1, <2>3, <3>1 DEF Inv, KeptInv, InTime
    <2>4. QED
      BY <2>2, <2>3
  <1>6. OnceInv'
    <2>1. /\ \A i \in Ids : Again(i, store[service][i])' <=> Again(i, store[service][i])
          /\ Again(copy.id, copy.job)' <=> Again(copy.id, copy.job)
      BY DEF Again
    <2>2. \A i \in Ids, t \in 1 .. MaxTime : (<<i, t>> \in taken => t <= clock)'
      BY DEF Inv, OnceInv
    <2> SUFFICES ASSUME phase = "up"
                 PROVE  /\ \A i \in Ids : Again(i, store[service][i]) => i \in Held(loop'[service])
                        /\ /\ copy.by = service /\ Again(copy.id, copy.job)
                           /\ store[service][copy.id].kind # "none"
                           => copy.id \in Held(loop'[service])
      BY <2>1, <2>2 DEF OnceInv
    <2>3. service \in Services /\ copy.id \in Ids
      BY DEF Inv, LoopInv, TypeInv, CopyRec
    <2>4. CASE s # service
      BY <1>1, <2>3, <2>4 DEF Inv, OnceInv
    <2>5. CASE s = service
      BY <1>1, <2>3, <2>5 DEF Inv, OnceInv, Again
    <2>6. QED
      BY <2>4, <2>5
  <1>7. QED
    BY <1>2, <1>3, <1>4, <1>5, <1>6 DEF Inv

(* A step that saves the jobs of a service.  What must be said of the new     *)
(* jobs is said job by job, and only for the running service is there more to *)
(* say than that they are sane.                                               *)
TakenOK ==
    /\ taken' \subseteq Ids \X (1 .. MaxTime) /\ taken \subseteq taken'
    /\ \A i \in Ids, t \in 1 .. MaxTime : <<i, t>> \in taken' => t <= clock

GhostsGrow ==
    /\ used' \in SUBSET Ids /\ used \subseteq used'
    /\ lapsed' \in SUBSET Ids /\ lapsed \subseteq lapsed'
    /\ stale' \in SUBSET Ids /\ stale \subseteq stale'
    /\ missed' \in BOOLEAN /\ (missed => missed')

AgainThen(i, job) == job.kind = "at" /\ job.next # 0 /\ <<i, job.when>> \in taken'

LEMMA SaveKeeps ==
    ASSUME CronAssumption, Inv, NEW s \in Services, s <= service,
           NEW l \in LoopRec, LoopOK(l), NEW jobs \in [Ids -> Job],
           Save(s, jobs), loop' = [loop EXCEPT ![s] = l],
           UNCHANGED <<clock, phase, service, first>>, edits' \in 0 .. MaxEdits,
           TakenOK, s = service \/ taken' = taken, GhostsGrow,
           copy' \in {copy, NoCopy},
           \A i \in Ids : Sane(jobs[i]) /\ (jobs[i].kind # "none" => i \in used'),
           copy' = copy /\ copy.by = s /\ jobs[copy.id].kind # "none" =>
               SameSchedule(jobs[copy.id], copy.job),
           s = service /\ phase = "up" =>
               /\ \A i \in Ids : jobs[i].enabled /\ jobs[i].next = 0 =>
                      i \in Held(l) \cup lapsed' \cup stale'
               /\ l.at \in {"armed", "asleep"} /\ ~missed' => \A i \in Ids : InTime(l, jobs[i])
               /\ \A i \in Ids : AgainThen(i, jobs[i]) => i \in Held(l)
               /\ /\ copy' = copy /\ copy.by = s /\ AgainThen(copy.id, copy.job)
                  /\ jobs[copy.id].kind # "none"
                  => copy.id \in Held(l)
    PROVE  Inv'
  <1>1. /\ loop'[s] = l /\ \A r \in Services \ {s} : loop'[r] = loop[r]
        /\ loop' \in [Services -> LoopRec]
    BY DEF Inv, TypeInv
  <1>2. /\ store'[s] = jobs /\ \A r \in Services \ {s} : store'[r] = store[r]
        /\ store' \in [Services -> [Ids -> Job]] /\ disk' = jobs
        /\ clobbered' = (s # service)
    BY DEF Inv, TypeInv, Save
  <1>3. /\ copy' \in CopyRec /\ copy.id \in Ids /\ copy.by \in 0 .. MaxServices
        /\ copy'.by # 0 => copy' = copy
    BY NoJobFacts DEF Inv, TypeInv, CopyRec
  <1>4. TypeInv'
    BY <1>1, <1>2, <1>3 DEF Inv, TypeInv, TakenOK, GhostsGrow
  <1>5. LoopInv'
    <2>1. /\ service \in Int /\ ~(s > service)
          /\ \A r \in Services : LoopOK(loop[r]) /\ (r > service => loop[r] = Idle)
      BY DEF Inv, LoopInv, TypeInv, Services, CronAssumption
    <2>2. \A r \in Services : LoopOK(loop'[r]) /\ (r > service => loop'[r] = Idle)
      BY <1>1, <2>1
    <2>3. (\A r \in Services : LoopOK(loop[r]) /\ (r > service => loop[r] = Idle))'
      BY <2>2
    <2>4. QED
      BY <2>3 DEF Inv, LoopInv
  <1>6. JobsInv'
    <2>1. used \subseteq used'
      BY DEF GhostsGrow
    <2>2. ASSUME NEW i \in Ids
          PROVE  Given(i, disk[i])' /\ \A r \in Services : Given(i, store[r][i])'
      <3>1. Given(i, disk[i])'
        BY <1>2 DEF Given, Sane
      <3>2. ASSUME NEW r \in Services PROVE Given(i, store[r][i])'
        <4>1. CASE r = s
          BY <4>1, <1>2 DEF Given, Sane
        <4>2. CASE r # s
          BY <4>2, <1>2, <2>1 DEF Inv, JobsInv, Given, Sane
        <4>3. QED
          BY <4>1, <4>2
      <3>3. QED
        BY <3>1, <3>2
    <2>3. ASSUME copy'.by # 0
          PROVE  /\ copy'.by <= service' /\ Given(copy.id, copy.job)' /\ copy'.job.kind # "none"
                 /\ store'[copy'.by][copy'.id].kind # "none" =>
                       SameSchedule(store'[copy'.by][copy'.id], copy'.job)
      <3>1. copy' = copy /\ copy.by # 0 /\ copy.by \in Services
        BY <1>3, <2>3 DEF Services, CronAssumption
      <3>2. copy.by <= service /\ Given(copy.id, copy.job) /\ copy.job.kind # "none"
        BY <3>1 DEF Inv, JobsInv
      <3>3. Given(copy.id, copy.job)'
        BY <2>1, <3>1, <3>2 DEF Given, Sane
      <3>4. store'[copy.by][copy.id].kind # "none" =>
                SameSchedule(store'[copy.by][copy.id], copy.job)
        <4>1. CASE copy.by = s
          BY <4>1, <3>1, <1>2
        <4>2. CASE copy.by # s
          BY <4>2, <3>1, <1>2 DEF Inv, JobsInv
        <4>3. QED
          BY <4>1, <4>2
      <3>5. QED
        BY <3>1, <3>2, <3>3, <3>4
    <2>4. (\A i \in Ids : Given(i, disk[i]) /\ \A r \in Services : Given(i, store[r][i]))'
      BY <2>2
    <2>5. QED
      BY <2>3, <2>4 DEF JobsInv, SameSchedule
  <1>7. KeptInv'
    <2> SUFFICES ASSUME phase = "up" PROVE KeptInv'
      BY DEF KeptInv
    <2>1. service \in Services
      BY DEF Inv, LoopInv
    <2>2. CASE s = service
      BY <1>1, <1>2, <2>1, <2>2 DEF KeptInv, InTime
    <2>3. CASE s # service
      BY <1>1, <1>2, <2>1, <2>3 DEF Inv, KeptInv, InTime, GhostsGrow
    <2>4. QED
      BY <2>2, <2>3
  <1>8. OnceInv'
    <2>1. \A i \in Ids, t \in 1 .. MaxTime : (<<i, t>> \in taken => t <= clock)'
      BY DEF TakenOK
    <2> SUFFICES ASSUME phase = "up"
                 PROVE  /\ \A i \in Ids : AgainThen(i, store'[service][i]) =>
                               i \in Held(loop'[service])
                        /\ /\ copy'.by = service /\ AgainThen(copy'.id, copy'.job)
                           /\ store'[service][copy'.id].kind # "none"
                           => copy'.id \in Held(loop'[service])
      BY <2>1 DEF OnceInv, Again, AgainThen, Held
    <2>2. service \in Services /\ service # 0
      BY DEF Inv, LoopInv, Services
    <2>3. CASE s = service
      BY <1>1, <1>2, <1>3, <2>2, <2>3
    <2>4. CASE s # service
      BY <1>1, <1>2, <1>3, <2>2, <2>4 DEF Inv, OnceInv, Again, AgainThen
    <2>5. QED
      BY <2>3, <2>4
  <1>9. QED
    BY <1>4, <1>5, <1>6, <1>7, <1>8 DEF Inv

-----------------------------------------------------------------------------
(* The loop.                                                                 *)

LEMMA LoopFacts ==
    ASSUME CronAssumption, Inv, NEW s \in Services
    PROVE  /\ loop[s] \in LoopRec /\ LoopOK(loop[s])
           /\ loop[s].at # "off" => s <= service
           /\ store[s] \in [Ids -> Job]
           /\ service \in Int /\ s \in Int /\ clock \in 1 .. MaxTime
  BY NoJobFacts DEF Inv, TypeInv, LoopInv, Services, CronAssumption

LEMMA PlanKeeps ==
    ASSUME CronAssumption, Inv, NEW s \in Services, Plan(s)
    PROVE  Inv'
  <1> DEFINE wakes == {store[s][i].next : i \in Scheduled(store[s])}
  <1>1. PICK deadline \in 1 .. Latest :
            /\ IF wakes = {} THEN deadline = clock + Hour
               ELSE deadline \in wakes /\ \A w \in wakes : deadline <= w
            /\ loop' = [loop EXCEPT ![s].at = "armed", ![s].deadline = deadline]
    BY DEF Plan
  <1> DEFINE l == [loop[s] EXCEPT !.at = "armed", !.deadline = deadline]
  <1>2. loop[s].at = "top" /\ loop[s] \in LoopRec /\ LoopOK(loop[s]) /\ s <= service
    BY LoopFacts DEF Plan
  <1>3. l \in LoopRec /\ l.at = "armed" /\ l.deadline = deadline
        /\ l.due = loop[s].due /\ l.job = loop[s].job
    <2>1. deadline \in 0 .. Latest
      BY NoJobFacts
    <2>2. QED
      BY <1>2, <2>1 DEF LoopRec, LoopPlaces
  <1>4. loop' = [loop EXCEPT ![s] = l]
    <2>1. l = [[loop[s] EXCEPT !.at = "armed"] EXCEPT !.deadline = deadline]
      BY <1>2 DEF LoopRec
    <2>2. QED
      BY <1>1, <1>2 DEF Inv, TypeInv, LoopRec
  <1>5. LoopOK(l) /\ Held(l) = Held(loop[s])
    BY <1>2, <1>3 DEF LoopOK, Held
  <1>6. \A i \in Ids : InTime(l, store[s][i])
    <2> SUFFICES ASSUME NEW i \in Ids, store[s][i].enabled, store[s][i].next # 0
                 PROVE  deadline <= store[s][i].next
      BY <1>3 DEF InTime
    <2>1. store[s][i].next \in wakes
      BY DEF Scheduled
    <2>2. QED
      BY <1>1, <2>1
  <1> HIDE DEF l
  <1>7. InLoop
    BY DEF Plan
  <1>8. QED
    BY <1>2, <1>3, <1>4, <1>5, <1>6, <1>7, LoopKeeps

(* Steps from one place to the next with nothing in hand.                    *)
LEMMA PlaceKeeps ==
    ASSUME CronAssumption, Inv, NEW s \in Services, loop[s].at \in {"armed", "asleep"},
           NEW at \in {"asleep", "check"}, at = "asleep" => loop[s].at = "armed",
           loop' = [loop EXCEPT ![s].at = at], InLoop
    PROVE  Inv'
  <1> DEFINE l == [loop[s] EXCEPT !.at = at]
  <1>1. loop[s] \in LoopRec /\ LoopOK(loop[s]) /\ s <= service
    BY LoopFacts
  <1>2. l \in LoopRec /\ l.at = at /\ l.deadline = loop[s].deadline
        /\ l.due = loop[s].due /\ l.job = loop[s].job
    BY <1>1 DEF LoopRec, LoopPlaces
  <1>3. loop' = [loop EXCEPT ![s] = l]
    BY DEF Inv, TypeInv
  <1>4. LoopOK(l) /\ Held(l) = Held(loop[s])
    BY <1>1, <1>2 DEF LoopOK, Held
  <1> HIDE DEF l
  <1>5. s = service /\ phase = "up" /\ l.at \in {"armed", "asleep"} /\ ~missed =>
            \A i \in Ids : InTime(l, store[s][i])
    BY <1>2 DEF Inv, KeptInv, InTime
  <1>6. QED
    BY <1>1, <1>2, <1>3, <1>4, <1>5, LoopKeeps

LEMMA QuitKeeps ==
    ASSUME CronAssumption, Inv, NEW s \in Services, Quit(s)
    PROVE  Inv'
  <1>1. s <= service /\ LoopOK(loop[s]) /\ loop[s].at = "asleep"
    BY LoopFacts DEF Quit
  <1>2. Held(loop[s]) = {}
    BY <1>1 DEF LoopOK, Held
  <1>3. Idle \in LoopRec /\ LoopOK(Idle) /\ Idle.at = "off"
    BY NoJobFacts
  <1>4. loop' = [loop EXCEPT ![s] = Idle] /\ InLoop
    BY DEF Quit
  <1>5. QED
    BY <1>1, <1>2, <1>3, <1>4, LoopKeeps

(* checkJobs takes up what is due: the loop had nothing in hand, so none of   *)
(* it was taken up before.                                                    *)
Due(s) == {i \in Scheduled(store[s]) : store[s][i].next <= clock}

LEMMA DueIsNew ==
    ASSUME CronAssumption, Inv, NEW s \in Services, loop[s].at = "check", Running(s)
    PROVE  /\ Due(s) \subseteq Ids /\ Held(loop[s]) = {} /\ s = service /\ phase = "up"
           /\ \A i \in Due(s) : store[s][i].kind = "at" =>
                  /\ store[s][i].when \in 1 .. MaxTime /\ store[s][i].when <= clock
                  /\ <<i, store[s][i].when>> \notin taken
  <1>1. s = service /\ phase = "up"
    BY DEF Running
  <1>2. Due(s) \subseteq Ids
    BY DEF Due, Scheduled
  <1>3. Held(loop[s]) = {}
    BY LoopFacts DEF LoopOK, Held
  <1>4. ASSUME NEW i \in Due(s), store[s][i].kind = "at"
        PROVE  /\ store[s][i].when \in 1 .. MaxTime /\ store[s][i].when <= clock
               /\ <<i, store[s][i].when>> \notin taken
    <2>1. i \in Ids /\ store[s][i].next # 0 /\ store[s][i].next <= clock
      BY <1>2, <1>4 DEF Due, Scheduled
    <2>2. store[s][i].when \in 1 .. MaxTime /\ store[s][i].next = store[s][i].when
      BY <1>4, <2>1 DEF Inv, JobsInv, Given, Sane
    <2>3. ~Again(i, store[s][i])
      BY <1>1, <1>3, <2>1 DEF Inv, OnceInv
    <2>4. QED
      BY <1>4, <2>1, <2>2, <2>3 DEF Again
  <1>5. QED
    BY <1>1, <1>2, <1>3, <1>4

LEMMA CheckKeeps ==
    ASSUME CronAssumption, Inv, NEW s \in Services, Check(s)
    PROVE  Inv'
  <1>1. loop[s].at = "check" /\ loop[s] \in LoopRec /\ LoopOK(loop[s]) /\ s <= service
        /\ Held(loop[s]) = {} /\ store[s] \in [Ids -> Job]
    BY LoopFacts DEF Check, LoopOK, Held
  <1>2. CASE ~Running(s)
    <2> DEFINE l == [loop[s] EXCEPT !.at = "top"]
    <2>1. l \in LoopRec /\ l.at = "top" /\ l.due = loop[s].due /\ l.job = loop[s].job
      BY <1>1 DEF LoopRec, LoopPlaces
    <2>2. LoopOK(l) /\ Held(l) = {}
      BY <1>1, <2>1 DEF LoopOK, Held
    <2>3. loop' = [loop EXCEPT ![s] = l] /\ InLoop
      BY <1>2 DEF Check, InLoop, Inv, TypeInv
    <2> HIDE DEF l
    <2>4. QED
      BY <1>1, <2>1, <2>2, <2>3, LoopKeeps
  <1>3. CASE Running(s)
    <2> DEFINE due == Due(s)
               l == [loop[s] EXCEPT !.at = "execute", !.due = due]
               jobs == [i \in Ids |-> IF i \in due THEN [store[s][i] EXCEPT !.next = 0]
                                                   ELSE store[s][i]]
               new == {<<i, store[s][i].when>> : i \in {j \in due : store[s][j].kind = "at"}}
    <2>1. /\ loop' = [loop EXCEPT ![s].at = "execute", ![s].due = due]
          /\ Save(s, jobs) /\ taken' = taken \cup new
          /\ UNCHANGED <<clock, phase, service, first, copy, edits, used, lapsed, stale, missed>>
      BY <1>3 DEF Check, LoopOnly, Due
    <2>2. /\ due \subseteq Ids /\ s = service /\ phase = "up"
          /\ \A i \in due : store[s][i].kind = "at" =>
                 /\ store[s][i].when \in 1 .. MaxTime /\ store[s][i].when <= clock
                 /\ <<i, store[s][i].when>> \notin taken
      BY <1>1, <1>3, DueIsNew
    <2>3. l \in LoopRec /\ l.at = "execute" /\ l.due = due /\ l.job = {}
      BY <1>1, <2>2 DEF LoopRec, LoopPlaces, Held
    <2>4. LoopOK(l) /\ Held(l) = due
      BY <2>3 DEF LoopOK, Held
    <2>5. loop' = [loop EXCEPT ![s] = l]
      BY <1>1, <2>1 DEF Inv, TypeInv, LoopRec
    <2>6. ASSUME NEW i \in Ids
          PROVE  /\ jobs[i] \in Job /\ SameSchedule(jobs[i], store[s][i])
                 /\ jobs[i].enabled = store[s][i].enabled
                 /\ jobs[i].next = IF i \in due THEN 0 ELSE store[s][i].next
                 /\ Sane(jobs[i]) /\ (jobs[i].kind # "none" => i \in used')
      <3>1. store[s][i] \in Job /\ Given(i, store[s][i])
        BY <1>1 DEF Inv, JobsInv
      <3>2. CASE i \in due
        <4>1. jobs[i] = [store[s][i] EXCEPT !.next = 0]
          BY <3>2
        <4> HIDE DEF jobs
        <4>2. QED
          BY <2>1, <3>1, <3>2, <4>1, NoJobFacts DEF Job, Given, Sane, SameSchedule
      <3>3. CASE i \notin due
        <4>1. jobs[i] = store[s][i]
          BY <3>3
        <4> HIDE DEF jobs
        <4>2. QED
          BY <2>1, <3>1, <3>3, <4>1 DEF Given, SameSchedule
      <3>4. QED
        BY <3>2, <3>3
    <2>7. jobs \in [Ids -> Job]
      BY <2>6
    <2>8. \A i, t : <<i, t>> \in new => i \in due /\ store[s][i].kind = "at" /\ t = store[s][i].when
      OBVIOUS
    <2>9. new \subseteq Ids \X (1 .. MaxTime)
      BY <2>2
    <2> HIDE DEF l, jobs, new, due
    <2>10. TakenOK
      BY <2>1, <2>2, <2>8, <2>9 DEF TakenOK, Inv, TypeInv, OnceInv
    <2>11. GhostsGrow
      BY <2>1 DEF GhostsGrow, Inv, TypeInv
    <2>12. \A i \in Ids : jobs[i].enabled /\ jobs[i].next = 0 =>
               i \in Held(l) \cup lapsed' \cup stale'
      BY <1>1, <2>1, <2>2, <2>4, <2>6 DEF Inv, KeptInv
    <2>13. \A i \in Ids : AgainThen(i, jobs[i]) => i \in Held(l)
      BY <1>1, <2>1, <2>2, <2>4, <2>6, <2>8 DEF Inv, OnceInv, Again, AgainThen, SameSchedule
    <2>14. copy.by = s /\ AgainThen(copy.id, copy.job) /\ jobs[copy.id].kind # "none" =>
               copy.id \in Held(l)
      <3>1. copy.id \in Ids
        BY DEF Inv, TypeInv, CopyRec
      <3>2. QED
        BY <1>1, <2>1, <2>2, <2>4, <2>6, <2>8, <3>1
           DEF Inv, OnceInv, Again, AgainThen, SameSchedule
    <2>15. copy.by = s /\ jobs[copy.id].kind # "none" => SameSchedule(jobs[copy.id], copy.job)
      <3>1. copy.id \in Ids /\ s # 0
        BY DEF Inv, TypeInv, CopyRec, Services
      <3>2. QED
        BY <2>6, <3>1 DEF Inv, JobsInv, SameSchedule
    <2>16. edits' \in 0 .. MaxEdits
      BY <2>1 DEF Inv, TypeInv
    <2>17. /\ \A i \in Ids : Sane(jobs[i]) /\ (jobs[i].kind # "none" => i \in used')
           /\ l.at \notin {"armed", "asleep"} /\ copy' \in {copy, NoCopy}
           /\ s = service \/ taken' = taken
      BY <2>1, <2>2, <2>3, <2>6
    <2>18. QED
      BY <1>1, <2>1, <2>3, <2>4, <2>5, <2>7, <2>10, <2>11, <2>12, <2>13, <2>14, <2>15, <2>16,
         <2>17, SaveKeeps
  <1>4. QED
    BY <1>2, <1>3

LEMMA ExecuteDoes ==
    ASSUME NEW s, Execute(s)
    PROVE  /\ loop[s].at = "execute" /\ InLoop
           /\ \/ /\ loop[s].due = {}
                 /\ loop' = [loop EXCEPT ![s].at = "top", ![s].deadline = 0]
              \/ \E i \in loop[s].due :
                    /\ i \in Present(s)
                    /\ loop' = [loop EXCEPT ![s].at = "run", ![s].job = {i}, ![s].due = @ \ {i}]
              \/ \E i \in loop[s].due :
                    i \notin Present(s) /\ loop' = [loop EXCEPT ![s].due = @ \ {i}]
  BY Zenon DEF Execute

(* What the loop takes in hand stays there, and what is gone it skips.       *)
LEMMA ExecuteKeeps ==
    ASSUME CronAssumption, Inv, NEW s \in Services, Execute(s)
    PROVE  Inv'
  <1>1. loop[s].at = "execute" /\ loop[s] \in LoopRec /\ LoopOK(loop[s]) /\ s <= service
        /\ loop[s].job = {} /\ InLoop /\ store[s] \in [Ids -> Job]
    <2>1. loop[s].at = "execute" /\ InLoop
      BY Zenon, ExecuteDoes
    <2>2. QED
      BY <2>1, LoopFacts DEF LoopOK
  <1>2. ASSUME loop[s].due = {}, loop' = [loop EXCEPT ![s].at = "top", ![s].deadline = 0]
        PROVE  Inv'
    <2> DEFINE l == [loop[s] EXCEPT !.at = "top", !.deadline = 0]
    <2>1. l \in LoopRec /\ l.at = "top" /\ l.due = {} /\ l.job = {}
      <3>1. 0 \in 0 .. Latest /\ {} \in SUBSET Ids
        BY NoJobFacts
      <3>2. QED
        BY <1>1, <1>2, <3>1 DEF LoopRec, LoopPlaces
    <2>2. LoopOK(l) /\ Held(loop[s]) = {}
      BY <1>1, <1>2, <2>1 DEF LoopOK, Held
    <2>3. loop' = [loop EXCEPT ![s] = l]
      BY <1>1, <1>2 DEF Inv, TypeInv, LoopRec
    <2> HIDE DEF l
    <2>4. QED
      BY <1>1, <2>1, <2>2, <2>3, LoopKeeps
  <1>3. ASSUME NEW i \in loop[s].due, i \in Present(s),
               loop' = [loop EXCEPT ![s].at = "run", ![s].job = {i}, ![s].due = @ \ {i}]
        PROVE  Inv'
    <2> DEFINE l == [loop[s] EXCEPT !.at = "run", !.job = {i}, !.due = loop[s].due \ {i}]
    <2>1. l \in LoopRec /\ l.at = "run" /\ l.due = loop[s].due \ {i} /\ l.job = {i} /\ i \in Ids
      BY <1>1, <1>3 DEF LoopRec, LoopPlaces
    <2>2. LoopOK(l) /\ Held(loop[s]) = Held(l)
      BY <1>1, <2>1 DEF LoopOK, Held
    <2>3. loop' = [loop EXCEPT ![s] = l]
      <3>1. l = [[[loop[s] EXCEPT !.at = "run"] EXCEPT !.job = {i}]
                    EXCEPT !.due = loop[s].due \ {i}]
        BY <1>1 DEF LoopRec
      <3>2. QED
        BY <1>1, <1>3, <3>1 DEF Inv, TypeInv, LoopRec
    <2> HIDE DEF l
    <2>4. QED
      BY <1>1, <2>1, <2>2, <2>3, LoopKeeps
  <1>4. ASSUME NEW i \in loop[s].due, i \notin Present(s),
               loop' = [loop EXCEPT ![s].due = @ \ {i}]
        PROVE  Inv'
    <2> DEFINE l == [loop[s] EXCEPT !.due = loop[s].due \ {i}]
    <2>1. l \in LoopRec /\ l.at = "execute" /\ l.due = loop[s].due \ {i} /\ l.job = {} /\ i \in Ids
      BY <1>1, <1>4 DEF LoopRec, LoopPlaces
    <2>2. LoopOK(l) /\ Held(loop[s]) \ Held(l) \subseteq {i} /\ store[s][i].kind = "none"
      BY <1>1, <1>4, <2>1 DEF LoopOK, Held, Present
    <2>3. loop' = [loop EXCEPT ![s] = l]
      BY <1>1, <1>4 DEF Inv, TypeInv
    <2> HIDE DEF l
    <2>4. QED
      BY <1>1, <2>1, <2>2, <2>3, LoopKeeps
  <1>5. QED
    BY Zenon, <1>2, <1>3, <1>4, ExecuteDoes

(* A one-shot job that has run is gone before the loop looks again.          *)
LEMMA FinishKeeps ==
    ASSUME CronAssumption, Inv, NEW s \in Services, Finish(s)
    PROVE  Inv'
  <1>1. /\ loop[s].at = "run" /\ loop[s] \in LoopRec /\ LoopOK(loop[s]) /\ s <= service
        /\ loop' = [loop EXCEPT ![s].at = "execute", ![s].job = {}]
        /\ UNCHANGED <<clock, phase, service, first, copy, cli, edits, used, lapsed, stale,
                       missed, taken>>
    BY LoopFacts DEF Finish, LoopOnly
  <1> DEFINE l == [loop[s] EXCEPT !.at = "execute", !.job = {}]
  <1>2. l \in LoopRec /\ l.at = "execute" /\ l.due = loop[s].due /\ l.job = {}
    BY <1>1 DEF LoopRec, LoopPlaces
  <1>3. loop' = [loop EXCEPT ![s] = l]
    BY <1>1 DEF Inv, TypeInv, LoopRec
  <1> HIDE DEF l
  <1>4. PICK i \in loop[s].job :
            LET job == store[s][i]
            IN  IF i \notin Present(s) THEN UNCHANGED <<store, disk, clobbered>>
                ELSE Save(s, [store[s] EXCEPT ![i] =
                                IF job.kind = "at" THEN NoJob
                                ELSE [job EXCEPT !.next = NextRun(job)]])
    BY DEF Finish
  <1>5. i \in Ids /\ LoopOK(l) /\ Held(l) = loop[s].due /\ Held(loop[s]) = Held(l) \cup {i}
    BY <1>1, <1>2, <1>4 DEF LoopOK, Held
  <1>6. CASE i \notin Present(s)
    <2>1. InLoop
      BY <1>1, <1>4, <1>6 DEF InLoop, LoopOnly
    <2>2. \A j \in Held(loop[s]) \ Held(l) : store[s][j].kind = "none"
      BY <1>5, <1>6 DEF Present
    <2>3. QED
      BY <1>1, <1>2, <1>3, <1>5, <2>1, <2>2, LoopKeeps
  <1>7. CASE i \in Present(s)
    <2> DEFINE job == store[s][i]
               new == IF job.kind = "at" THEN NoJob ELSE [job EXCEPT !.next = NextRun(job)]
               jobs == [store[s] EXCEPT ![i] = new]
    <2>1. store[s] \in [Ids -> Job] /\ job \in Job /\ Given(i, job) /\ job.kind # "none"
      BY <1>5, <1>7, LoopFacts DEF Inv, JobsInv, Present
    <2>2. /\ new \in Job /\ (new.kind = "none" => new = NoJob)
          /\ (new.kind # "none" => new.kind = "every" /\ new.when = job.when /\ new.next # 0
                                   /\ job.kind = "every")
      <3>1. CASE job.kind = "at"
        BY <3>1, NoJobFacts
      <3>2. CASE job.kind # "at"
        <4>1. job.kind = "every"
          BY <2>1, <3>2 DEF Job, Kinds
        <4>2. NextRun(job) # 0 /\ [job EXCEPT !.next = NextRun(job)] \in Job
          BY <2>1, <4>1, NextRunType DEF Inv
        <4>3. new = [job EXCEPT !.next = NextRun(job)]
          BY <3>2
        <4>4. new.kind = job.kind /\ new.when = job.when /\ new.next = NextRun(job)
          BY <2>1, <4>3 DEF Job
        <4>5. QED
          BY <4>1, <4>2, <4>3, <4>4
      <3>3. QED
        BY <3>1, <3>2
    <2>3. Save(s, jobs)
      BY <1>4, <1>7
    <2>4. jobs \in [Ids -> Job] /\ jobs[i] = new /\ \A j \in Ids \ {i} : jobs[j] = store[s][j]
      BY <1>5, <2>1, <2>2
    <2>5. Sane(new) /\ (new.kind # "none" => i \in used)
      BY <2>1, <2>2, NoJobFacts DEF Given, Sane
    <2> HIDE DEF jobs, new
    <2>6. \A j \in Ids : Sane(jobs[j]) /\ (jobs[j].kind # "none" => j \in used')
      BY <1>1, <2>4, <2>5 DEF Inv, JobsInv, Given
    <2>7. TakenOK /\ GhostsGrow /\ edits' \in 0 .. MaxEdits
      BY <1>1 DEF TakenOK, GhostsGrow, Inv, TypeInv, OnceInv
    <2>8. copy.id \in Ids /\ s # 0
      BY DEF Inv, TypeInv, CopyRec, Services
    <2>9. copy.by = s /\ jobs[copy.id].kind # "none" => SameSchedule(jobs[copy.id], copy.job)
      BY <2>2, <2>4, <2>8 DEF Inv, JobsInv, SameSchedule
    <2>10. ASSUME s = service, phase = "up"
           PROVE  /\ \A j \in Ids : jobs[j].enabled /\ jobs[j].next = 0 =>
                         j \in Held(l) \cup lapsed' \cup stale'
                  /\ \A j \in Ids : AgainThen(j, jobs[j]) => j \in Held(l)
                  /\ copy.by = s /\ AgainThen(copy.id, copy.job) /\ jobs[copy.id].kind # "none"
                     => copy.id \in Held(l)
      <3>1. \A j \in Ids : jobs[j].enabled /\ jobs[j].next = 0 =>
                j \in Held(l) \cup lapsed' \cup stale'
        BY <1>1, <1>5, <2>2, <2>4, <2>10, NoJobFacts DEF Inv, KeptInv
      <3>2. \A j \in Ids : AgainThen(j, jobs[j]) => j \in Held(l)
        BY <1>1, <1>5, <2>2, <2>4, <2>10 DEF Inv, OnceInv, Again, AgainThen
      <3>3. copy.by = s /\ AgainThen(copy.id, copy.job) /\ jobs[copy.id].kind # "none"
                => copy.id \in Held(l)
        <4> SUFFICES ASSUME copy.by = s, AgainThen(copy.id, copy.job),
                            jobs[copy.id].kind # "none"
                     PROVE  copy.id \in Held(l)
          OBVIOUS
        <4>1. Again(copy.id, copy.job) /\ copy.job.kind = jobs[copy.id].kind
          BY <1>1, <2>8, <2>9 DEF Again, AgainThen, SameSchedule
        <4>2. copy.id # i /\ jobs[copy.id] = store[s][copy.id]
          BY <2>2, <2>4, <2>8, <4>1 DEF Again
        <4>3. copy.id \in Held(loop[s])
          BY <1>1, <2>10, <4>1, <4>2 DEF Inv, OnceInv
        <4> QED BY <1>5, <4>2, <4>3
      <3>4. QED
        BY <3>1, <3>2, <3>3
    <2>11. l.at \notin {"armed", "asleep"} /\ copy' \in {copy, NoCopy} /\ taken' = taken
      BY <1>1, <1>2
    <2>12. /\ s <= service /\ l \in LoopRec /\ LoopOK(l) /\ jobs \in [Ids -> Job]
           /\ Save(s, jobs) /\ loop' = [loop EXCEPT ![s] = l]
           /\ UNCHANGED <<clock, phase, service, first>> /\ edits' \in 0 .. MaxEdits
           /\ TakenOK /\ (s = service \/ taken' = taken) /\ GhostsGrow
           /\ copy' \in {copy, NoCopy}
      BY <1>1, <1>2, <1>3, <1>5, <2>3, <2>4, <2>7, <2>11
    <2>13. copy' = copy /\ copy.by = s /\ jobs[copy.id].kind # "none" =>
               SameSchedule(jobs[copy.id], copy.job)
      BY <2>9
    <2>14. s = service /\ phase = "up" =>
               /\ \A j \in Ids : jobs[j].enabled /\ jobs[j].next = 0 =>
                      j \in Held(l) \cup lapsed' \cup stale'
               /\ l.at \in {"armed", "asleep"} /\ ~missed' => \A j \in Ids : InTime(l, jobs[j])
               /\ \A j \in Ids : AgainThen(j, jobs[j]) => j \in Held(l)
               /\ /\ copy' = copy /\ copy.by = s /\ AgainThen(copy.id, copy.job)
                  /\ jobs[copy.id].kind # "none"
                  => copy.id \in Held(l)
      BY <2>10, <2>11
    <2>15. QED
      BY <2>6, <2>12, <2>13, <2>14, SaveKeeps
  <1>8. QED
    BY <1>6, <1>7

-----------------------------------------------------------------------------
(* The tool: an operation changes one job and wakes the loop up, or knows     *)
(* that it missed it.                                                         *)

LEMMA ToolKeeps ==
    ASSUME CronAssumption, Inv, NEW s \in Services, s <= service, NEW i \in Ids, NEW job \in Job,
           Save(s, [store[s] EXCEPT ![i] = job]), Notify(s),
           UNCHANGED <<clock, phase, service, first, taken>>, edits' \in 0 .. MaxEdits,
           used' \in SUBSET Ids, used \subseteq used',
           lapsed' \in SUBSET Ids, lapsed \subseteq lapsed',
           stale' \in SUBSET Ids, stale \subseteq stale',
           copy' \in {copy, NoCopy},
           Sane(job), job.kind # "none" => i \in used',
           copy' = copy /\ copy.by = s /\ copy.id = i /\ job.kind # "none" =>
               SameSchedule(job, copy.job) /\ store[s][i].kind # "none",
           s = service /\ phase = "up" =>
               /\ job.enabled /\ job.next = 0 => i \in Held(loop[s]) \cup lapsed' \cup stale'
               /\ Again(i, job) => i \in Held(loop[s])
    PROVE  Inv'
  <1> DEFINE l == Notified(loop[s])
             jobs == [store[s] EXCEPT ![i] = job]
  <1>1. loop[s] \in LoopRec /\ LoopOK(loop[s]) /\ store[s] \in [Ids -> Job]
    BY LoopFacts
  <1>2. /\ l \in LoopRec /\ l.due = loop[s].due /\ l.job = loop[s].job
        /\ l.at # "asleep" /\ (l.at = "armed" => loop[s].at = "armed")
        /\ LoopOK(l) /\ Held(l) = Held(loop[s])
    <2>1. CASE loop[s].at = "asleep"
      <3>1. l = [loop[s] EXCEPT !.at = "top"]
        BY <2>1 DEF Notified
      <3> HIDE DEF l
      <3>2. QED
        BY <1>1, <2>1, <3>1 DEF LoopRec, LoopPlaces, LoopOK, Held
    <2>2. CASE loop[s].at # "asleep"
      BY <1>1, <2>2 DEF Notified
    <2>3. QED
      BY <2>1, <2>2
  <1>3. loop' = [loop EXCEPT ![s] = l]
    BY DEF Notify
  <1>4. missed' = (missed \/ (s = service /\ loop[s].at = "armed"))
    BY DEF Notify
  <1>5. jobs \in [Ids -> Job] /\ jobs[i] = job /\ \A j \in Ids \ {i} : jobs[j] = store[s][j]
    BY <1>1
  <1>6. Save(s, jobs)
    OBVIOUS
  <1> HIDE DEF l, jobs
  <1>7. TakenOK
    BY DEF TakenOK, Inv, TypeInv, OnceInv
  <1>8. GhostsGrow
    BY <1>4 DEF GhostsGrow, Inv, TypeInv
  <1>9. \A j \in Ids : Sane(jobs[j]) /\ (jobs[j].kind # "none" => j \in used')
    BY <1>5 DEF Inv, JobsInv, Given
  <1>10. copy.id \in Ids /\ s # 0
    BY DEF Inv, TypeInv, CopyRec, Services
  <1>11. copy' = copy /\ copy.by = s /\ jobs[copy.id].kind # "none" =>
             SameSchedule(jobs[copy.id], copy.job) /\ store[s][copy.id].kind # "none"
    BY <1>5, <1>10 DEF Inv, JobsInv
  <1>12. ASSUME s = service, phase = "up"
         PROVE  /\ \A j \in Ids : jobs[j].enabled /\ jobs[j].next = 0 =>
                       j \in Held(l) \cup lapsed' \cup stale'
                /\ l.at \in {"armed", "asleep"} /\ ~missed' => \A j \in Ids : InTime(l, jobs[j])
                /\ \A j \in Ids : AgainThen(j, jobs[j]) => j \in Held(l)
                /\ /\ copy' = copy /\ copy.by = s /\ AgainThen(copy.id, copy.job)
                   /\ jobs[copy.id].kind # "none"
                   => copy.id \in Held(l)
    <2>1. \A j \in Ids : jobs[j].enabled /\ jobs[j].next = 0 =>
              j \in Held(l) \cup lapsed' \cup stale'
      BY <1>2, <1>5, <1>12 DEF Inv, KeptInv
    <2>2. ~(l.at \in {"armed", "asleep"} /\ ~missed')
      BY <1>2, <1>4, <1>12
    <2>3. \A j \in Ids : AgainThen(j, jobs[j]) => j \in Held(l)
      BY <1>2, <1>5, <1>12 DEF Inv, OnceInv, Again, AgainThen
    <2>4. copy' = copy /\ copy.by = s /\ AgainThen(copy.id, copy.job)
          /\ jobs[copy.id].kind # "none" => copy.id \in Held(l)
      BY <1>2, <1>11, <1>12 DEF Inv, OnceInv, Again, AgainThen
    <2>5. QED
      BY <2>1, <2>2, <2>3, <2>4
  <1>13. QED
    BY <1>2, <1>3, <1>5, <1>6, <1>7, <1>8, <1>9, <1>11, <1>12, SaveKeeps

LEMMA EditFacts ==
    ASSUME CronAssumption, Inv, NEW s, Edit(s)
    PROVE  /\ s \in Services /\ s <= service
           /\ edits' \in 0 .. MaxEdits /\ UNCHANGED <<clock, phase, service, first>>
           /\ used \in SUBSET Ids /\ lapsed \in SUBSET Ids /\ stale \in SUBSET Ids
           /\ store[s] \in [Ids -> Job]
           /\ \A i \in Ids : Given(i, store[s][i])
           /\ copy.by = s => Given(copy.id, copy.job) /\ copy.job.kind # "none" /\ copy.id \in Ids
  <1>1. /\ first \in 1 .. MaxServices + 1 /\ service \in 0 .. MaxServices
        /\ edits \in 0 .. MaxEdits /\ MaxEdits \in Nat /\ MaxServices \in Nat
        /\ used \in SUBSET Ids /\ lapsed \in SUBSET Ids /\ stale \in SUBSET Ids
        /\ store \in [Services -> [Ids -> Job]] /\ copy \in CopyRec
    BY DEF Inv, TypeInv, CronAssumption
  <1>2. s \in first .. service /\ edits > 0 /\ edits' = edits - 1
        /\ UNCHANGED <<clock, phase, service, first>>
    BY DEF Edit
  <1>3. s \in Services /\ s <= service /\ s # 0
    BY <1>1, <1>2 DEF Services
  <1>4. edits' \in 0 .. MaxEdits
    BY <1>1, <1>2
  <1>5. copy.id \in Ids
    BY <1>1 DEF CopyRec
  <1>6. QED
    BY <1>1, <1>2, <1>3, <1>4, <1>5 DEF Inv, JobsInv

(* A job that is to come is none that was taken up.                          *)
LEMMA NewIsNotAgain ==
    ASSUME CronAssumption, Inv, NEW i \in Ids, NEW job \in Job,
           job.kind = "at" /\ job.next # 0 => job.when \in 1 .. MaxTime /\ job.when > clock
    PROVE  ~Again(i, job)
  BY DEF Inv, OnceInv, Again, TypeInv

(* The job as a recomputation of its next run leaves it.                     *)
LEMMA Recomputed ==
    ASSUME CronAssumption, Inv, NEW i \in Ids, NEW old \in Job, NEW new,
           old.kind # "none", old.enabled,
           old.kind = "at" => old.when \in 1 .. MaxTime,
           new = [old EXCEPT !.next = NextRun(old)]
    PROVE  /\ new \in Job /\ SameSchedule(new, old) /\ new.enabled /\ Sane(new)
           /\ ~Again(i, new)
           /\ new.next = 0 => Lapses(old)
           /\ Lapses(old) <=> Lapses(new)
  <1>1. /\ new \in Job /\ new.kind = old.kind /\ new.when = old.when
        /\ new.enabled = old.enabled /\ new.next = NextRun(old)
    BY NextRunType DEF Inv, Job
  <1>2. /\ old.kind = "every" => new.next # 0
        /\ old.kind = "at" /\ new.next # 0 => new.next = old.when /\ old.when > clock
    BY <1>1, NextRunType DEF Inv
  <1>3. old.kind \in {"at", "every"}
    BY DEF Job, Kinds
  <1>4. Sane(new)
    BY <1>1, <1>2 DEF Sane
  <1>5. ~Again(i, new)
    BY <1>1, <1>2, NewIsNotAgain
  <1>6. NextRun(new) = NextRun(old)
    BY <1>1 DEF NextRun
  <1>7. QED
    BY <1>1, <1>2, <1>3, <1>4, <1>5, <1>6 DEF SameSchedule, Lapses

LEMMA AddJobKeeps ==
    ASSUME CronAssumption, Inv, NEW s, NEW i \in Ids, NEW job, AddJob(s, i, job)
    PROVE  Inv'
  <1>1. Edit(s) /\ i \notin used /\ used' = used \cup {i} /\ Notify(s)
        /\ Save(s, [store[s] EXCEPT ![i] = [job EXCEPT !.next = NextRun(job)]])
        /\ UNCHANGED <<copy, lapsed, stale, taken>>
    BY DEF AddJob
  <1>2. /\ job \in Job /\ job.kind \in {"at", "every"} /\ job.enabled
        /\ (job.kind = "at" => job.when \in 1 .. MaxTime /\ job.when > clock)
    <2>1. job \in NewJobs /\ clock \in 1 .. MaxTime
      BY DEF AddJob, Inv, TypeInv
    <2>2. CASE job = [kind |-> "every", when |-> 0, enabled |-> TRUE, next |-> 0]
      BY <2>2, NoJobFacts DEF Job, Kinds
    <2>3. ASSUME NEW t \in clock + 1 .. MaxTime,
                 job = [kind |-> "at", when |-> t, enabled |-> TRUE, next |-> 0]
          PROVE  /\ job \in Job /\ job.kind \in {"at", "every"} /\ job.enabled
                 /\ (job.kind = "at" => job.when \in 1 .. MaxTime /\ job.when > clock)
      <3>1. t \in 1 .. MaxTime /\ t > clock /\ t \in 0 .. Latest /\ 0 \in 0 .. Latest
        BY <2>1, <2>3, NoJobFacts
      <3>2. QED
        BY <2>3, <3>1 DEF Job, Kinds
    <2>4. QED
      BY <2>1, <2>2, <2>3 DEF NewJobs
  <1> DEFINE new == [job EXCEPT !.next = NextRun(job)]
  <1>3. /\ new \in Job /\ new.kind # "none" /\ Sane(new) /\ ~Again(i, new) /\ new.next # 0
    <2>1. /\ new \in Job /\ SameSchedule(new, job) /\ Sane(new) /\ ~Again(i, new)
          /\ (new.next = 0 => Lapses(job))
      BY <1>2, Recomputed
    <2>2. ~Lapses(job)
      <3>1. job.kind = "at" => NextRun(job) = job.when
        BY <1>2 DEF NextRun
      <3>2. QED
        BY <1>2, <3>1 DEF Lapses
    <2>3. QED
      BY <1>2, <2>1, <2>2 DEF SameSchedule
  <1>4. Save(s, [store[s] EXCEPT ![i] = new])
    BY <1>1
  <1>5. copy.by = s => copy.id # i
    BY <1>1, EditFacts DEF Given
  <1> HIDE DEF new
  <1>6. /\ s \in Services /\ s <= service /\ edits' \in 0 .. MaxEdits
        /\ UNCHANGED <<clock, phase, service, first, taken>>
        /\ used' \in SUBSET Ids /\ used \subseteq used' /\ i \in used'
        /\ lapsed' \in SUBSET Ids /\ lapsed \subseteq lapsed'
        /\ stale' \in SUBSET Ids /\ stale \subseteq stale'
        /\ copy' \in {copy, NoCopy}
    BY <1>1, EditFacts
  <1>7. QED
    BY <1>1, <1>3, <1>4, <1>5, <1>6, ToolKeeps

LEMMA RemoveJobKeeps ==
    ASSUME CronAssumption, Inv, NEW s, NEW i \in Ids, RemoveJob(s, i)
    PROVE  Inv'
  <1>1. Edit(s) /\ Notify(s) /\ Save(s, [store[s] EXCEPT ![i] = NoJob])
        /\ UNCHANGED <<copy, used, lapsed, stale, taken>>
    BY DEF RemoveJob
  <1>2. /\ s \in Services /\ s <= service /\ edits' \in 0 .. MaxEdits
        /\ UNCHANGED <<clock, phase, service, first, taken>>
        /\ used' \in SUBSET Ids /\ used \subseteq used'
        /\ lapsed' \in SUBSET Ids /\ lapsed \subseteq lapsed'
        /\ stale' \in SUBSET Ids /\ stale \subseteq stale'
        /\ copy' \in {copy, NoCopy}
    BY <1>1, EditFacts
  <1>3. NoJob \in Job /\ NoJob.kind = "none" /\ ~NoJob.enabled /\ Sane(NoJob)
        /\ ~Again(i, NoJob)
    BY NoJobFacts DEF Given, Again
  <1>4. QED
    BY <1>1, <1>2, <1>3, ToolKeeps

(* The job as enable and disable leave it.                                   *)
LEMMA SwitchedFacts ==
    ASSUME CronAssumption, Inv, NEW i \in Ids, NEW old \in Job, NEW enabled \in BOOLEAN,
           old.kind # "none", old.kind = "at" => old.when \in 1 .. MaxTime
    PROVE  LET new == Switched(old, enabled)
           IN  /\ new \in Job /\ SameSchedule(new, old) /\ Sane(new) /\ ~Again(i, new)
               /\ new.enabled /\ new.next = 0 => Lapses(new)
  <1> DEFINE new == Switched(old, enabled)
  <1>1. CASE enabled
    <2> DEFINE job == [old EXCEPT !.enabled = TRUE]
    <2>1. job \in Job /\ job.kind = old.kind /\ job.when = old.when /\ job.enabled
      BY DEF Job
    <2>2. NextRun(job) = NextRun(old)
      BY <2>1 DEF NextRun
    <2>3. new = [job EXCEPT !.next = NextRun(old)]
      BY <1>1 DEF Switched, Job
    <2>4. new = [job EXCEPT !.next = NextRun(job)]
      BY <2>2, <2>3
    <2> HIDE DEF job, new
    <2>5. QED
      BY <2>1, <2>4, Recomputed DEF SameSchedule, new
  <1>2. CASE ~enabled
    <2> DEFINE job == [old EXCEPT !.enabled = FALSE]
    <2>1. job \in Job /\ job.kind = old.kind /\ job.when = old.when /\ ~job.enabled
      BY DEF Job
    <2>2. new = [job EXCEPT !.next = 0]
      BY <1>2 DEF Switched, Job
    <2> HIDE DEF job, new
    <2>3. new \in Job /\ new.kind = old.kind /\ new.when = old.when /\ ~new.enabled
          /\ new.next = 0
      BY <2>1, <2>2, NoJobFacts DEF Job
    <2>4. QED
      BY <2>3 DEF SameSchedule, Sane, Again, new
  <1>3. QED
    BY <1>1, <1>2

LEMMA EnableJobKeeps ==
    ASSUME CronAssumption, Inv, NEW s, NEW i \in Ids, NEW enabled \in BOOLEAN,
           EnableJob(s, i, enabled)
    PROVE  Inv'
  <1> DEFINE old == store[s][i]
             new == Switched(old, enabled)
  <1>1. /\ Edit(s) /\ i \in Present(s) /\ Notify(s) /\ Save(s, [store[s] EXCEPT ![i] = new])
        /\ lapsed' = (IF s = service /\ Lapses(new) THEN lapsed \cup {i} ELSE lapsed)
        /\ UNCHANGED <<copy, used, stale, taken>>
    BY DEF EnableJob
  <1>2. /\ s \in Services /\ s <= service /\ edits' \in 0 .. MaxEdits
        /\ UNCHANGED <<clock, phase, service, first, taken>>
        /\ used' \in SUBSET Ids /\ used \subseteq used'
        /\ lapsed' \in SUBSET Ids /\ lapsed \subseteq lapsed'
        /\ stale' \in SUBSET Ids /\ stale \subseteq stale'
        /\ copy' \in {copy, NoCopy}
    BY <1>1, EditFacts
  <1>3. /\ old \in Job /\ old.kind # "none" /\ i \in used
        /\ (old.kind = "at" => old.when \in 1 .. MaxTime)
    BY <1>1, EditFacts DEF Present, Given, Sane
  <1>4. /\ new \in Job /\ SameSchedule(new, old) /\ Sane(new) /\ ~Again(i, new)
        /\ (new.enabled /\ new.next = 0 => Lapses(new))
    BY <1>3, SwitchedFacts
  <1> HIDE DEF new
  <1>5. copy' = copy /\ copy.by = s /\ copy.id = i /\ new.kind # "none" =>
            SameSchedule(new, copy.job) /\ store[s][i].kind # "none"
    <2>1. s # 0
      BY <1>2 DEF Services
    <2>2. QED
      BY <1>3, <1>4, <2>1 DEF Inv, JobsInv, SameSchedule
  <1>6. s = service /\ phase = "up" =>
            /\ new.enabled /\ new.next = 0 => i \in Held(loop[s]) \cup lapsed' \cup stale'
            /\ Again(i, new) => i \in Held(loop[s])
    BY <1>1, <1>4
  <1>7. new.kind # "none" => i \in used'
    BY <1>1, <1>3
  <1>8. new \in Job /\ Sane(new) /\ Save(s, [store[s] EXCEPT ![i] = new]) /\ Notify(s)
    BY <1>1, <1>4
  <1>9. QED
    BY <1>2, <1>5, <1>6, <1>7, <1>8, ToolKeeps

LEMMA UpdateByTool ==
    ASSUME CronAssumption, Inv, NEW s \in Services, s <= service, NEW i \in Ids, NEW job \in Job,
           i \in used, copy' = NoCopy, s # 0, copy.by = s,
           Save(s, [store[s] EXCEPT ![i] = job]), Notify(s), Sane(job),
           UNCHANGED <<clock, phase, service, first, taken, used>>, edits' \in 0 .. MaxEdits,
           lapsed' \in {lapsed, lapsed \cup {i}}, stale' \in {stale, stale \cup {i}},
           s = service /\ phase = "up" =>
               /\ job.enabled /\ job.next = 0 => i \in Held(loop[s]) \cup lapsed' \cup stale'
               /\ Again(i, job) => i \in Held(loop[s])
    PROVE  Inv'
  <1>1. /\ used' \in SUBSET Ids /\ used \subseteq used' /\ i \in used'
        /\ lapsed' \in SUBSET Ids /\ lapsed \subseteq lapsed'
        /\ stale' \in SUBSET Ids /\ stale \subseteq stale'
    BY DEF Inv, TypeInv
  <1>2. copy' \in {copy, NoCopy} /\ copy' # copy
    BY NoJobFacts
  <1>3. QED
    BY <1>1, <1>2, ToolKeeps

(* What is written back keeps its next run only if nobody changed the         *)
(* schedule or the switch; so it is as much in hand as what it replaces.      *)
LEMMA UpdateJobKeeps ==
    ASSUME CronAssumption, Inv, NEW patch, UpdateJob(patch)
    PROVE  Inv'
  <1> DEFINE s == copy.by
             i == copy.id
             old == store[s][i]
             new == IF patch = NoJob THEN copy.job
                    ELSE [copy.job EXCEPT !.kind = patch.kind, !.when = patch.when]
             job == Updated(old, new)
  <1>1. /\ s # 0 /\ Edit(s) /\ patch \in NewJobs \cup {NoJob} /\ copy' = NoCopy
        /\ IF i \in Present(s)
           THEN /\ Save(s, [store[s] EXCEPT ![i] = job]) /\ Notify(s)
                /\ stale' = (IF /\ s = service /\ job.enabled /\ job = new
                                /\ job.next # old.next
                             THEN stale \cup {i} ELSE stale)
                /\ lapsed' = (IF s = service /\ Lapses(job) THEN lapsed \cup {i} ELSE lapsed)
           ELSE UNCHANGED <<store, disk, clobbered, loop, missed, stale, lapsed>>
        /\ UNCHANGED <<used, taken>>
    BY DEF UpdateJob
  <1>2. /\ s \in Services /\ s <= service /\ edits' \in 0 .. MaxEdits /\ i \in Ids
        /\ UNCHANGED <<clock, phase, service, first, taken, used>>
        /\ used \in SUBSET Ids /\ lapsed \in SUBSET Ids /\ stale \in SUBSET Ids
        /\ Given(i, copy.job) /\ copy.job.kind # "none"
        /\ copy.job \in Job
    BY <1>1, EditFacts DEF Inv, TypeInv, CopyRec
  <1>3. CASE i \notin Present(s)
    <2>1. UNCHANGED <<clock, phase, service, first, taken, used, store, disk, clobbered, loop,
                      missed, stale, lapsed>>
      BY <1>1, <1>2, <1>3
    <2>2. copy' \in CopyRec /\ copy'.by = 0
      BY <1>1, NoJobFacts
    <2>3. TypeInv' /\ LoopInv'
      BY <1>2, <2>1, <2>2 DEF Inv, TypeInv, LoopInv
    <2>4. JobsInv' /\ KeptInv'
      BY <2>1, <2>2 DEF Inv, JobsInv, KeptInv, Given, Sane, InTime
    <2>5. OnceInv'
      <3>1. service' # copy'.by \/ phase' # "up"
        BY <2>1, <2>2 DEF Inv, LoopInv, Services
      <3>2. QED
        BY <2>1, <3>1 DEF Inv, OnceInv, Again
    <2>6. QED
      BY <2>3, <2>4, <2>5 DEF Inv
  <1>4. CASE i \in Present(s)
    <2>1. /\ old \in Job /\ old.kind # "none" /\ SameSchedule(old, copy.job)
          /\ i \in used /\ Sane(copy.job)
      <3>1. old.kind # "none"
        BY <1>4 DEF Present
      <3>2. old \in Job
        BY <1>1, <1>2, EditFacts
      <3>3. QED
        BY <1>1, <1>2, <3>1, <3>2 DEF Inv, JobsInv, Given
    <2>2. /\ new \in Job /\ new.kind # "none" /\ new.enabled = copy.job.enabled
          /\ new.next = copy.job.next
          /\ (new.kind = "at" => new.when \in 1 .. MaxTime)
      <3>1. CASE patch = NoJob
        BY <1>2, <2>1, <3>1 DEF Sane
      <3>2. CASE patch # NoJob
        <4>1. /\ patch.kind \in {"at", "every"} /\ patch.when \in 0 .. Latest
              /\ (patch.kind = "at" => patch.when \in 1 .. MaxTime)
          <5>1. patch \in NewJobs /\ clock \in 1 .. MaxTime
            BY <1>1, <3>2 DEF Inv, TypeInv
          <5>2. CASE patch = [kind |-> "every", when |-> 0, enabled |-> TRUE, next |-> 0]
            BY <5>2, NoJobFacts
          <5>3. ASSUME NEW t \in clock + 1 .. MaxTime,
                       patch = [kind |-> "at", when |-> t, enabled |-> TRUE, next |-> 0]
                PROVE  patch.kind = "at" /\ patch.when \in 0 .. Latest
                       /\ patch.when \in 1 .. MaxTime
            BY <5>1, <5>3, NoJobFacts
          <5>4. QED
            BY <5>1, <5>2, <5>3 DEF NewJobs
        <4>2. new = [copy.job EXCEPT !.kind = patch.kind, !.when = patch.when]
          BY <3>2
        <4> HIDE DEF new
        <4>3. new.kind = patch.kind /\ new.when = patch.when
              /\ new.enabled = copy.job.enabled /\ new.next = copy.job.next
          BY <1>2, <4>2 DEF Job
        <4>4. new \in Job
          BY <1>2, <4>1, <4>2 DEF Job, Kinds
        <4>5. QED
          BY <4>1, <4>3, <4>4
      <3>3. QED
        BY <3>1, <3>2
    <2> HIDE DEF new
    <2>3. CASE new.enabled /\ old.enabled /\ SameSchedule(old, new)
      <3>1. job = new
        BY <2>3 DEF Updated, SameSchedule
      <3>2. SameSchedule(new, copy.job) /\ Sane(new)
        BY <2>1, <2>2, <2>3 DEF SameSchedule, Sane
      <3> HIDE DEF job
      <3>3. s = service /\ phase = "up" =>
                /\ job.enabled /\ job.next = 0 => i \in Held(loop[s]) \cup lapsed' \cup stale'
                /\ Again(i, job) => i \in Held(loop[s])
        <4> SUFFICES ASSUME s = service, phase = "up"
                     PROVE  /\ job.next = 0 => i \in Held(loop[s]) \cup lapsed' \cup stale'
                            /\ Again(i, job) => i \in Held(loop[s])
          OBVIOUS
        <4>1. job.next = 0 => i \in Held(loop[s]) \cup lapsed' \cup stale'
          <5>1. CASE old.next = 0
            <6>1. i \in Held(loop[service]) \cup lapsed \cup stale
              BY <1>2, <2>3, <5>1 DEF Inv, KeptInv
            <6>2. lapsed \subseteq lapsed' /\ stale \subseteq stale'
              BY <1>1, <1>4
            <6>3. QED
              BY <6>1, <6>2
          <5>2. CASE old.next # 0
            BY <1>1, <1>4, <2>3, <3>1, <5>2
          <5>3. QED
            BY <5>1, <5>2
        <4>2. Again(i, job) => i \in Held(loop[s])
          BY <1>2, <2>1, <2>2, <3>1, <3>2 DEF Inv, OnceInv, Again, SameSchedule
        <4>3. QED
          BY <4>1, <4>2
      <3>4. job \in Job /\ Sane(job)
        BY <2>2, <3>1, <3>2
      <3>5. QED
        BY <1>1, <1>2, <1>4, <2>1, <3>3, <3>4, UpdateByTool
    <2>4. CASE new.enabled /\ ~(old.enabled /\ SameSchedule(old, new))
      <3>1. job = [new EXCEPT !.next = NextRun(new)]
        BY <2>4 DEF Updated, SameSchedule
      <3> HIDE DEF job
      <3>2. /\ job \in Job /\ Sane(job) /\ ~Again(i, job)
            /\ (job.next = 0 => Lapses(job))
        <4>1. /\ i \in Ids /\ new \in Job /\ new.kind # "none" /\ new.enabled
              /\ (new.kind = "at" => new.when \in 1 .. MaxTime)
          BY <1>2, <2>2, <2>4
        <4> HIDE DEF i
        <4>2. /\ job \in Job /\ Sane(job) /\ ~Again(i, job)
              /\ (job.next = 0 => Lapses(new)) /\ (Lapses(new) <=> Lapses(job))
          BY <3>1, <4>1, Recomputed
        <4>3. QED
          BY <4>2
      <3>3. s = service /\ phase = "up" =>
                /\ job.enabled /\ job.next = 0 => i \in Held(loop[s]) \cup lapsed' \cup stale'
                /\ Again(i, job) => i \in Held(loop[s])
        BY <1>1, <1>4, <3>2
      <3>4. QED
        BY <1>1, <1>2, <1>4, <2>1, <3>2, <3>3, UpdateByTool
    <2>5. CASE ~new.enabled
      <3>1. job = [new EXCEPT !.next = 0]
        BY <2>5 DEF Updated
      <3> HIDE DEF job
      <3>2. job \in Job /\ job.kind = new.kind /\ job.when = new.when /\ ~job.enabled
            /\ job.next = 0
        BY <2>2, <2>5, <3>1, NoJobFacts DEF Job
      <3>3. Sane(job) /\ ~Again(i, job)
        BY <2>2, <3>2 DEF Sane, Again
      <3>4. s = service /\ phase = "up" =>
                /\ job.enabled /\ job.next = 0 => i \in Held(loop[s]) \cup lapsed' \cup stale'
                /\ Again(i, job) => i \in Held(loop[s])
        BY <3>2, <3>3
      <3>5. QED
        BY <1>1, <1>2, <1>4, <2>1, <3>2, <3>3, <3>4, UpdateByTool
    <2>6. QED
      BY <2>3, <2>4, <2>5
  <1>5. QED
    BY <1>3, <1>4

-----------------------------------------------------------------------------
(* The life of services.  A service that starts has what the file has, each   *)
(* next run computed anew, and nothing in hand.                              *)
LEMMA StartKeeps ==
    ASSUME CronAssumption, Inv, Start
    PROVE  Inv'
  <1> DEFINE n == service + 1
             jobs == [i \in Ids |-> IF disk[i].enabled
                                    THEN [disk[i] EXCEPT !.next = NextRun(disk[i])]
                                    ELSE disk[i]]
  <1>1. /\ phase # "up" /\ service < MaxServices /\ service' = n /\ phase' = "up"
        /\ store' = [store EXCEPT ![n] = jobs] /\ disk' = jobs
        /\ loop' = [loop EXCEPT ![n].at = "top"]
        /\ lapsed' = {i \in Ids : Lapses(disk[i])} /\ stale' = {}
        /\ missed' = FALSE /\ clobbered' = FALSE
        /\ UNCHANGED <<clock, first, copy, edits, used, taken>>
    BY DEF Start
  <1>2. /\ n \in Services /\ n > service /\ n \in 0 .. MaxServices /\ service \in 0 .. MaxServices
        /\ MaxServices \in Nat /\ copy.by <= service /\ copy.by \in 0 .. MaxServices
        /\ n # 0
    <2>1. service \in 0 .. MaxServices /\ MaxServices \in Nat /\ copy.by \in 0 .. MaxServices
      BY DEF Inv, TypeInv, CopyRec, CronAssumption
    <2>2. copy.by # 0 => copy.by <= service
      BY DEF Inv, JobsInv
    <2>3. QED
      BY <1>1, <2>1, <2>2 DEF Services
  <1>3. loop[n] = Idle /\ loop \in [Services -> LoopRec] /\ Idle \in LoopRec
        /\ Idle.due = {} /\ Idle.job = {}
    BY <1>2, NoJobFacts DEF Inv, LoopInv, TypeInv, Idle
  <1> DEFINE l == [Idle EXCEPT !.at = "top"]
  <1>4. l \in LoopRec /\ l.at = "top" /\ l.due = {} /\ l.job = {}
    BY <1>3 DEF LoopRec, LoopPlaces
  <1>5. LoopOK(l) /\ loop' = [loop EXCEPT ![n] = l]
    BY <1>1, <1>2, <1>3, <1>4 DEF LoopOK
  <1>6. ASSUME NEW i \in Ids
        PROVE  /\ jobs[i] \in Job /\ Given(i, jobs[i]) /\ ~Again(i, jobs[i])
               /\ (jobs[i].enabled /\ jobs[i].next = 0 => i \in lapsed')
    <2>1. disk[i] \in Job /\ Given(i, disk[i])
      BY DEF Inv, TypeInv, JobsInv
    <2>2. CASE disk[i].enabled
      <3>1. jobs[i] = [disk[i] EXCEPT !.next = NextRun(disk[i])]
        BY <2>2
      <3> HIDE DEF jobs
      <3>2. disk[i].kind # "none" /\ (disk[i].kind = "at" => disk[i].when \in 1 .. MaxTime)
        BY <2>1, <2>2 DEF Given, Sane
      <3>3. /\ jobs[i] \in Job /\ SameSchedule(jobs[i], disk[i]) /\ Sane(jobs[i])
            /\ ~Again(i, jobs[i]) /\ (jobs[i].next = 0 => Lapses(disk[i]))
        BY <2>1, <2>2, <3>1, <3>2, Recomputed
      <3>4. QED
        BY <1>1, <2>1, <3>2, <3>3 DEF Given
    <2>3. CASE ~disk[i].enabled
      <3>1. jobs[i] = disk[i]
        BY <2>3
      <3> HIDE DEF jobs
      <3>2. QED
        BY <2>1, <2>3, <3>1 DEF Given, Sane, Again
    <2>4. QED
      BY <2>2, <2>3
  <1>7. jobs \in [Ids -> Job]
    BY <1>6
  <1> HIDE DEF jobs, l
  <1>8. /\ store'[n] = jobs /\ \A s \in Services \ {n} : store'[s] = store[s]
        /\ store' \in [Services -> [Ids -> Job]]
        /\ loop'[n] = l /\ \A s \in Services \ {n} : loop'[s] = loop[s]
        /\ loop' \in [Services -> LoopRec]
    BY <1>1, <1>2, <1>3, <1>4, <1>5, <1>7 DEF Inv, TypeInv
  <1>9. TypeInv'
    BY <1>1, <1>2, <1>7, <1>8 DEF Inv, TypeInv
  <1>10. LoopInv'
    <2>1. ASSUME NEW s \in Services
          PROVE  LoopOK(loop'[s]) /\ (s > n => loop'[s] = Idle)
      <3>1. s \in Int /\ service \in Int /\ (s > n => s > service /\ s # n)
        BY <1>2 DEF Services
      <3>2. CASE s = n
        BY <1>5, <1>8, <3>1, <3>2
      <3>3. CASE s # n
        BY <1>8, <3>1, <3>3 DEF Inv, LoopInv
      <3>4. QED
        BY <3>2, <3>3
    <2>2. (\A s \in Services : LoopOK(loop[s]) /\ (s > service => loop[s] = Idle))'
      BY <1>1, <2>1
    <2>3. QED
      BY <1>1, <1>2, <2>2 DEF LoopInv
  <1>11. JobsInv'
    <2>1. ASSUME NEW i \in Ids
          PROVE  Given(i, disk[i])' /\ \A s \in Services : Given(i, store[s][i])'
      <3>1. Given(i, disk[i])'
        BY <1>1, <1>6 DEF Given, Sane
      <3>2. ASSUME NEW s \in Services PROVE Given(i, store[s][i])'
        <4>1. CASE s = n
          BY <1>1, <1>6, <1>8, <4>1 DEF Given, Sane
        <4>2. CASE s # n
          BY <1>1, <1>8, <4>2 DEF Inv, JobsInv, Given, Sane
        <4>3. QED
          BY <4>1, <4>2
      <3>3. QED
        BY <3>1, <3>2
    <2>2. ASSUME copy.by # 0
          PROVE  /\ copy.by <= n /\ Given(copy.id, copy.job)' /\ copy.job.kind # "none"
                 /\ store'[copy.by][copy.id].kind # "none" =>
                       SameSchedule(store'[copy.by][copy.id], copy.job)
      <3>1. copy.by <= service /\ Given(copy.id, copy.job) /\ copy.job.kind # "none"
            /\ (store[copy.by][copy.id].kind # "none" =>
                    SameSchedule(store[copy.by][copy.id], copy.job))
        BY <2>2 DEF Inv, JobsInv
      <3>2. copy.by \in Services \ {n} /\ copy.by <= n
        BY <1>2, <2>2 DEF Services
      <3>3. QED
        BY <1>1, <1>8, <3>1, <3>2 DEF Given, Sane
    <2>3. (\A i \in Ids : Given(i, disk[i]) /\ \A s \in Services : Given(i, store[s][i]))'
      BY <2>1
    <2>4. QED
      BY <1>1, <2>2, <2>3 DEF JobsInv, SameSchedule
  <1>12. KeptInv'
    BY <1>1, <1>4, <1>6, <1>8 DEF KeptInv
  <1>13. OnceInv'
    <2>1. \A i \in Ids, t \in 1 .. MaxTime : (<<i, t>> \in taken => t <= clock)'
      BY <1>1 DEF Inv, OnceInv
    <2>2. \A i \in Ids : ~Again(i, store[service][i])'
      BY <1>1, <1>6, <1>8 DEF Again
    <2>3. copy'.by # service'
      BY <1>1, <1>2
    <2>4. QED
      BY <2>1, <2>2, <2>3 DEF OnceInv
  <1>14. QED
    BY <1>9, <1>10, <1>11, <1>12, <1>13 DEF Inv

LEMMA CrashKeeps ==
    ASSUME CronAssumption, Inv, Crash
    PROVE  Inv'
  <1> USE NoJobFacts
  <1>1. /\ phase' = "down" /\ first' = service + 1 /\ copy' = NoCopy
        /\ loop' = [s \in Services |-> Idle]
        /\ store' = [s \in Services |-> [i \in Ids |-> NoJob]]
        /\ UNCHANGED <<clock, service, disk, edits, used, missed, lapsed, stale, clobbered,
                       taken>>
    BY DEF Crash
  <1>2. service + 1 \in 1 .. MaxServices + 1
    BY DEF Inv, TypeInv, CronAssumption
  <1>3. TypeInv'
    BY <1>1, <1>2 DEF Inv, TypeInv
  <1>4. LoopInv'
    BY <1>1 DEF LoopInv
  <1>5. JobsInv'
    <2>1. \A i \in Ids : Given(i, NoJob)' /\ Given(i, disk[i])'
      BY <1>1 DEF Inv, JobsInv, Given, Sane
    <2>2. (\A i \in Ids : Given(i, disk[i]) /\ \A s \in Services : Given(i, store[s][i]))'
      BY <1>1, <2>1
    <2>3. QED
      BY <1>1, <2>2 DEF JobsInv
  <1>6. KeptInv' /\ OnceInv'
    BY <1>1 DEF Inv, KeptInv, OnceInv
  <1>7. QED
    BY <1>3, <1>4, <1>5, <1>6 DEF Inv

(* Steps that leave the jobs and the loops as they are.                      *)
LEMMA QuietKeeps ==
    ASSUME CronAssumption, Inv,
           \/ Stop \/ Tick \/ UNCHANGED cronVars
           \/ \E s \in Services, i \in Ids : GetJob(s, i)
    PROVE  Inv'
  <1>1. CASE Stop \/ UNCHANGED cronVars
    <2>1. /\ phase' \in {phase, "reloading"} /\ (phase' = "up" => phase = "up")
          /\ (phase' # "down" => phase # "down")
          /\ UNCHANGED <<clock, service, first, store, disk, loop, copy, edits, used, missed,
                         lapsed, stale, clobbered, taken>>
      BY <1>1 DEF Stop, cronVars
    <2>2. TypeInv' /\ LoopInv' /\ JobsInv'
      BY <2>1 DEF Inv, TypeInv, LoopInv, JobsInv, Given, Sane
    <2>3. KeptInv' /\ OnceInv'
      BY <2>1 DEF Inv, KeptInv, OnceInv, Again, InTime
    <2>4. QED
      BY <2>2, <2>3 DEF Inv
  <1>2. CASE Tick
    <2>1. /\ clock < MaxTime /\ clock' = clock + 1
          /\ UNCHANGED <<phase, service, first, store, disk, loop, copy, edits, used, missed,
                         lapsed, stale, clobbered, taken>>
      BY <1>2 DEF Tick
    <2>2. clock \in 1 .. MaxTime /\ clock' \in 1 .. MaxTime
      BY <2>1, NoJobFacts DEF Inv, TypeInv
    <2>3. TypeInv' /\ LoopInv' /\ JobsInv'
      BY <2>1, <2>2 DEF Inv, TypeInv, LoopInv, JobsInv, Given, Sane
    <2>4. KeptInv'
      BY <2>1 DEF Inv, KeptInv, InTime
    <2>5. \A i \in Ids, t \in 1 .. MaxTime : <<i, t>> \in taken => t <= clock'
      BY <2>1, <2>2, NoJobFacts DEF Inv, OnceInv
    <2>6. OnceInv'
      BY <2>1, <2>5 DEF Inv, OnceInv, Again
    <2>7. QED
      BY <2>3, <2>4, <2>6 DEF Inv
  <1>3. ASSUME NEW s \in Services, NEW i \in Ids, GetJob(s, i)
        PROVE  Inv'
    <2>1. /\ s \in first .. service /\ i \in Present(s)
          /\ copy' = [by |-> s, id |-> i, job |-> store[s][i]]
          /\ UNCHANGED <<clock, phase, service, first, store, disk, loop, edits, used, missed,
                         lapsed, stale, clobbered, taken>>
      BY <1>3 DEF GetJob
    <2>2. /\ copy'.by = s /\ copy'.id = i /\ copy'.job = store[s][i]
          /\ store[s][i] \in Job /\ store[s][i].kind # "none" /\ Given(i, store[s][i])
          /\ s \in 0 .. MaxServices /\ s <= service
      <3>1. copy'.by = s /\ copy'.id = i /\ copy'.job = store[s][i]
        BY <2>1
      <3>2. store[s][i] \in Job /\ store[s][i].kind # "none" /\ Given(i, store[s][i])
        BY <2>1 DEF Inv, TypeInv, JobsInv, Present
      <3>3. first \in 1 .. MaxServices + 1 /\ service \in 0 .. MaxServices /\ MaxServices \in Nat
        BY DEF Inv, TypeInv, CronAssumption
      <3>4. s \in 0 .. MaxServices /\ s <= service
        BY <2>1, <3>3
      <3>5. QED
        BY <3>1, <3>2, <3>4
    <2>3. copy' \in CopyRec
      BY <2>1, <2>2 DEF CopyRec
    <2>4. TypeInv' /\ LoopInv'
      BY <2>1, <2>3 DEF Inv, TypeInv, LoopInv
    <2>5. JobsInv'
      BY <2>1, <2>2 DEF Inv, JobsInv, Given, Sane, SameSchedule
    <2>6. KeptInv'
      BY <2>1 DEF Inv, KeptInv, InTime
    <2>7. OnceInv'
      BY <2>1, <2>2 DEF Inv, OnceInv, Again
    <2>8. QED
      BY <2>4, <2>5, <2>6, <2>7 DEF Inv
  <1>4. QED
    BY <1>1, <1>2, <1>3

-----------------------------------------------------------------------------
(* The command.  What it has read and not saved yet is as sane as the file.   *)

CliInv == /\ cli \in [open: BOOLEAN, jobs: [Ids -> Job]]
          /\ \A i \in Ids : Given(i, cli.jobs[i])

LEMMA NoCliFacts ==
    ASSUME CronAssumption, cli = NoCli
    PROVE  CliInv
  <1>1. [i \in Ids |-> NoJob] \in [Ids -> Job]
    BY NoJobFacts
  <1>2. cli.open \in BOOLEAN /\ cli.jobs = [i \in Ids |-> NoJob]
        /\ cli \in [open: BOOLEAN, jobs: [Ids -> Job]]
    BY <1>1 DEF NoCli
  <1>3. QED
    BY <1>2, NoJobFacts DEF CliInv

(* The gateway takes no identifier back.                                     *)
LEMMA CliOnly ==
    ASSUME [CronNext]_cronVars, ~Cli
    PROVE  cli' = cli /\ used \subseteq used'
  <1>1. CASE Start \/ Stop \/ Crash \/ Tick \/ UNCHANGED cronVars
    BY <1>1 DEF Start, Stop, Crash, Tick, cronVars
  <1>2. ASSUME NEW s \in Services, Loop(s) PROVE cli' = cli /\ used \subseteq used'
    <2>1. CASE Execute(s)
      <3>1. InLoop
        BY Zenon, <2>1, ExecuteDoes
      <3>2. QED
        BY <3>1 DEF InLoop, LoopOnly
    <2>2. CASE Plan(s) \/ Sleep(s) \/ Fire(s) \/ Quit(s)
      BY <2>2 DEF Plan, Sleep, Fire, Quit, InLoop, LoopOnly
    <2>3. CASE Check(s) \/ Finish(s)
      BY <2>3 DEF Check, Finish, LoopOnly
    <2>4. QED
      BY <1>2, <2>1, <2>2, <2>3 DEF Loop
  <1>3. ASSUME NEW s \in Services, Tool(s) PROVE cli' = cli /\ used \subseteq used'
    BY <1>3 DEF Tool, AddJob, RemoveJob, EnableJob, GetJob, Edit
  <1>4. ASSUME NEW patch, UpdateJob(patch) PROVE cli' = cli /\ used \subseteq used'
    BY <1>4 DEF UpdateJob, Edit
  <1>5. QED
    BY <1>1, <1>2, <1>3, <1>4 DEF CronNext

LEMMA CliKeeps ==
    ASSUME CronAssumption, Inv, CliInv, [CronNext]_cronVars
    PROVE  CliInv'
  <1>1. CASE ~Cli
    BY <1>1, CliOnly DEF CliInv, Given, Sane
  <1>2. CASE CliOpen
    <2>1. cli' = [open |-> TRUE, jobs |-> disk] /\ used' = used
      BY <1>2 DEF CliOpen
    <2>2. disk \in [Ids -> Job] /\ \A i \in Ids : Given(i, disk[i])
      BY DEF Inv, TypeInv, JobsInv
    <2>3. cli' \in [open: BOOLEAN, jobs: [Ids -> Job]] /\ cli'.jobs = disk
      BY <2>1, <2>2
    <2>4. QED
      BY <2>1, <2>2, <2>3 DEF CliInv, Given, Sane
  <1>3. CASE CliSave \/ CliLeave
    <2>1. cli' = NoCli
      BY <1>3 DEF CliSave, CliLeave
    <2>2. [i \in Ids |-> NoJob] \in [Ids -> Job]
      BY NoJobFacts
    <2>3. cli' \in [open: BOOLEAN, jobs: [Ids -> Job]] /\ \A i \in Ids : cli'.jobs[i] = NoJob
      BY <2>1, <2>2 DEF NoCli
    <2>4. \A i \in Ids : Given(i, NoJob)'
      BY DEF NoJob, Given, Sane
    <2>5. QED
      BY <2>3, <2>4 DEF CliInv, Given, Sane
  <1>4. QED
    BY <1>1, <1>2, <1>3 DEF Cli

(* What it saves are jobs as the gateway could have saved them; the running   *)
(* service does not look at the file.                                         *)
LEMMA ChangeFacts ==
    ASSUME CronAssumption, Inv, CliInv, NEW i \in Ids, NEW job \in CliChanges(i)
    PROVE  job \in Job /\ Sane(job)
  <1>1. cli.jobs[i] \in Job /\ Given(i, cli.jobs[i])
    BY DEF CliInv
  <1>2. CASE i \notin used
    <2>1. PICK new \in NewJobs : new.kind = "every" /\ job = [new EXCEPT !.next = NextRun(new)]
      BY <1>2 DEF CliChanges
    <2>2. new = [kind |-> "every", when |-> 0, enabled |-> TRUE, next |-> 0]
      BY <2>1 DEF NewJobs
    <2>3. new \in Job /\ new.enabled /\ new.kind = "every"
      BY <2>2, NoJobFacts DEF Job, Kinds
    <2>4. QED
      BY <2>1, <2>3, Recomputed
  <1>3. CASE i \in used
    <2>1. CASE job = NoJob
      BY <2>1, NoJobFacts DEF Given
    <2>2. CASE job # NoJob
      <3>1. cli.jobs[i].kind # "none"
            /\ \E enabled \in BOOLEAN : job = Switched(cli.jobs[i], enabled)
        BY <1>3, <2>2 DEF CliChanges
      <3>2. QED
        BY <1>1, <3>1, SwitchedFacts DEF Given, Sane
    <2>3. QED
      BY <2>1, <2>2
  <1>4. QED
    BY <1>2, <1>3

LEMMA CliKeepsJobs ==
    ASSUME CronAssumption, Inv, CliInv, Cli
    PROVE  Inv'
  <1>1. /\ UNCHANGED <<clock, phase, service, first, store, loop, copy, missed, lapsed, stale,
                       taken>>
    BY DEF Cli, CliOpen, CliSave, CliLeave, CliSame
  <1>2. edits' \in 0 .. MaxEdits
    <2>1. edits \in 0 .. MaxEdits /\ MaxEdits \in Nat
      BY DEF Inv, TypeInv, CronAssumption
    <2>2. edits' = edits \/ (edits > 0 /\ edits' = edits - 1)
      BY DEF Cli, CliOpen, CliSave, CliLeave
    <2>3. QED
      BY <2>1, <2>2
  <1>3. /\ disk' \in [Ids -> Job] /\ used' \in SUBSET Ids /\ used \subseteq used'
        /\ clobbered' \in BOOLEAN /\ (clobbered' \/ (disk' = disk /\ clobbered' = clobbered))
        /\ \A i \in Ids : Sane(disk'[i]) /\ (disk'[i].kind # "none" => i \in used')
    <2>1. CASE CliOpen \/ CliLeave
      BY <2>1 DEF CliOpen, CliLeave, Inv, TypeInv, JobsInv, Given
    <2>2. CASE CliSave
      <3>1. PICK i \in Ids : \E job \in CliChanges(i) :
                disk' = [cli.jobs EXCEPT ![i] = job] /\ used' = used \cup {i}
        BY <2>2 DEF CliSave
      <3>2. PICK job \in CliChanges(i) : disk' = [cli.jobs EXCEPT ![i] = job]
        BY <3>1
      <3>3. job \in Job /\ Sane(job)
        BY <3>2, ChangeFacts
      <3>4. cli.jobs \in [Ids -> Job] /\ used \in SUBSET Ids
            /\ \A j \in Ids : Sane(cli.jobs[j]) /\ (cli.jobs[j].kind # "none" => j \in used)
        BY DEF CliInv, Given, Inv, TypeInv
      <3>5. clobbered' = TRUE
        BY <2>2 DEF CliSave
      <3>6. QED
        BY <3>1, <3>2, <3>3, <3>4, <3>5
    <2>3. QED
      BY <2>1, <2>2 DEF Cli
  <1>4. TypeInv' /\ LoopInv'
    BY <1>1, <1>2, <1>3 DEF Inv, TypeInv, LoopInv
  <1>5. JobsInv'
    <2>1. ASSUME NEW i \in Ids
          PROVE  Given(i, disk[i])' /\ \A s \in Services : Given(i, store[s][i])'
      BY <1>1, <1>3 DEF Inv, JobsInv, Given, Sane
    <2>2. (\A i \in Ids : Given(i, disk[i]) /\ \A s \in Services : Given(i, store[s][i]))'
      BY <2>1
    <2>3. copy.by # 0 => Given(copy.id, copy.job)'
      BY <1>1, <1>3 DEF Inv, JobsInv, Given, Sane
    <2>4. QED
      BY <1>1, <2>2, <2>3 DEF Inv, JobsInv, SameSchedule
  <1>6. KeptInv' /\ OnceInv'
    BY <1>1, <1>3 DEF Inv, KeptInv, OnceInv, Again, InTime
  <1>7. QED
    BY <1>4, <1>5, <1>6 DEF Inv

LEMMA NextKeeps ==
    ASSUME CronAssumption, Inv, CliInv, [CronNext]_cronVars
    PROVE  Inv'
  <1>1. ASSUME NEW s \in Services, Loop(s) PROVE Inv'
    <2>1. CASE Sleep(s)
      BY <2>1, PlaceKeeps DEF Sleep
    <2>2. CASE Fire(s)
      BY <2>2, PlaceKeeps DEF Fire
    <2>3. QED
      BY <1>1, <2>1, <2>2, PlanKeeps, QuitKeeps, CheckKeeps, ExecuteKeeps, FinishKeeps DEF Loop
  <1>2. ASSUME NEW s \in Services, Tool(s) PROVE Inv'
    BY <1>2, AddJobKeeps, RemoveJobKeeps, EnableJobKeeps, QuietKeeps DEF Tool
  <1>3. QED
    BY <1>1, <1>2, StartKeeps, CrashKeeps, QuietKeeps, UpdateJobKeeps, CliKeepsJobs DEF CronNext

LEMMA InvAlways ==
    ASSUME CronAssumption
    PROVE  CronSpec => [](Inv /\ CliInv)
  <1>1. CronInit => Inv /\ CliInv
    BY InitCron, NoCliFacts DEF CronInit
  <1>2. Inv /\ CliInv /\ [CronNext]_cronVars => Inv' /\ CliInv'
    BY NextKeeps, CliKeeps
  <1>3. QED
    BY <1>1, <1>2, PTL DEF CronSpec

-----------------------------------------------------------------------------
(* A loop with a job has one, and the rest of the types is in the invariant.  *)
LEMMA InvTypes ==
    ASSUME Inv, CliInv
    PROVE  CronTypeOK
  <1>1. ASSUME NEW s \in Services PROVE Cardinality(loop[s].job) <= 1
    <2>1. LoopOK(loop[s])
      BY DEF Inv, LoopInv
    <2>2. CASE loop[s].job = {}
      BY <2>2, FS_EmptySet
    <2>3. CASE loop[s].job # {}
      <3>1. PICK i \in Ids : loop[s].job = {i}
        BY <2>1, <2>3 DEF LoopOK
      <3>2. Cardinality({i}) = 1
        BY FS_Singleton
      <3> QED BY <3>1, <3>2
    <2>4. QED
      BY <2>2, <2>3
  <1>2. QED
    BY <1>1 DEF Inv, TypeInv, CliInv, CronTypeOK, LoopRec, CopyRec

(* Every variable of the cron service keeps its type.                        *)
THEOREM CronTypeCorrect ==
    ASSUME CronAssumption
    PROVE  CronSpec => []CronTypeOK
  BY InvTypes, InvAlways, PTL

(* An enabled job of the running service has a next run or a reason to have   *)
(* none, the loop does not sleep past a run unless a wake-up missed it, and   *)
(* the file has the jobs unless a replaced service or the command has saved   *)
(* over it since: whatever calls, reloads and crashes come between a job      *)
(* being read and saved.                                                      *)
THEOREM JobsAreKeptCorrect ==
    ASSUME CronAssumption
    PROVE  CronSpec => []JobsAreKept
  <1>1. ASSUME Inv PROVE JobsAreKept
    <2>1. EnabledIsScheduled
      BY <1>1 DEF Inv, KeptInv, EnabledIsScheduled, Held
    <2>2. SleepsNoLonger
      BY <1>1 DEF Inv, KeptInv, SleepsNoLonger, Scheduled, InTime
    <2>3. FileIsCurrent
      BY <1>1 DEF Inv, KeptInv, FileIsCurrent
    <2>4. QED
      BY <2>1, <2>2, <2>3 DEF JobsAreKept
  <1>2. QED
    BY <1>1, InvAlways, PTL

(* Only checkJobs puts a job in the loop's hands.                            *)
LEMMA OnlyCheckTakes ==
    ASSUME CronAssumption, Inv, [CronNext]_cronVars, NEW s \in Services,
           NEW i \in loop'[s].due \ loop[s].due
    PROVE  Check(s) /\ Running(s) /\ i \in Due(s)
  <1> USE DEF Inv, TypeInv
  <1>1. loop \in [Services -> LoopRec]
    OBVIOUS
  <1>2. ASSUME NEW r \in Services, NEW l, loop' = [loop EXCEPT ![r] = l],
               l.due \subseteq loop[r].due
        PROVE  FALSE
    BY <1>1, <1>2
  <1>3. ~UNCHANGED loop
    OBVIOUS
  <1>4. ~Start
    <2> SUFFICES ASSUME Start PROVE FALSE
      OBVIOUS
    <2>1. loop' = [loop EXCEPT ![service + 1].at = "top"]
      BY DEF Start
    <2>2. loop'[s].due = loop[s].due
      BY <1>1, <2>1 DEF LoopRec
    <2>3. QED
      BY <2>2
  <1>5. ~Crash
    BY DEF Crash, Idle
  <1>6. ASSUME NEW r, Notify(r) PROVE FALSE
    <2>1. loop' = [loop EXCEPT ![r] = Notified(loop[r])]
      BY <1>6 DEF Notify
    <2>2. CASE r \in Services
      <3>1. Notified(loop[r]).due = loop[r].due
        BY <1>1, <2>2 DEF Notified, LoopRec
      <3>2. /\ loop'[r].due = loop[r].due
            /\ \A t \in Services \ {r} : loop'[t] = loop[t]
        BY <1>1, <2>1, <2>2, <3>1
      <3>3. QED
        BY <2>2, <3>2
    <2>3. CASE r \notin Services
      <3>1. loop' = loop
        BY <1>1, <2>1, <2>3
      <3>2. QED
        BY <3>1
    <2>4. QED
      BY <2>2, <2>3
  <1>7. ASSUME NEW r \in Services, Tool(r) PROVE FALSE
    BY <1>3, <1>6, <1>7 DEF Tool, AddJob, RemoveJob, EnableJob, GetJob
  <1>8. ASSUME NEW patch, UpdateJob(patch) PROVE FALSE
    BY <1>3, <1>6, <1>8 DEF UpdateJob
  <1>9. ~(Stop \/ Tick \/ Cli \/ UNCHANGED cronVars)
    BY <1>3 DEF Stop, Tick, Cli, CliOpen, CliSave, CliLeave, CliSame, cronVars
  <1>10. PICK r \in Services : Loop(r)
    BY <1>4, <1>5, <1>7, <1>8, <1>9 DEF CronNext
  <1>11. loop[r] \in LoopRec
    BY <1>1
  <1>12. ~Plan(r)
    BY SMTT(30), <1>1, <1>11 DEF Plan, LoopRec
  <1>13. ~Sleep(r) /\ ~Fire(r)
    <2> SUFFICES ASSUME NEW at, loop' = [loop EXCEPT ![r].at = at] PROVE FALSE
      BY DEF Sleep, Fire
    <2>1. loop' = [loop EXCEPT ![r] = [loop[r] EXCEPT !.at = at]]
      BY <1>1
    <2>2. [loop[r] EXCEPT !.at = at].due = loop[r].due
      BY <1>11 DEF LoopRec
    <2>3. QED
      BY <1>2, <2>1, <2>2
  <1>14. ~Quit(r)
    BY <1>1, <1>11 DEF Quit, Idle
  <1>15. ~Execute(r)
    <2> SUFFICES ASSUME Execute(r) PROVE FALSE
      OBVIOUS
    <2>1. CASE loop' = [loop EXCEPT ![r].at = "top", ![r].deadline = 0]
      <3>1. loop'[r].due = loop[r].due /\ \A t \in Services \ {r} : loop'[t] = loop[t]
        BY <1>1, <1>11, <2>1 DEF LoopRec
      <3>2. QED
        BY <3>1
    <2>2. ASSUME NEW j \in loop[r].due,
                 loop' = [loop EXCEPT ![r].at = "run", ![r].job = {j}, ![r].due = @ \ {j}]
          PROVE  FALSE
      <3>1. loop'[r].due = loop[r].due \ {j} /\ \A t \in Services \ {r} : loop'[t] = loop[t]
        BY <1>1, <1>11, <2>2 DEF LoopRec
      <3>2. QED
        BY <3>1
    <2>3. ASSUME NEW j \in loop[r].due, loop' = [loop EXCEPT ![r].due = @ \ {j}]
          PROVE  FALSE
      <3>1. loop'[r].due = loop[r].due \ {j} /\ \A t \in Services \ {r} : loop'[t] = loop[t]
        BY <1>1, <1>11, <2>3 DEF LoopRec
      <3>2. QED
        BY <3>1
    <2>4. QED
      BY Zenon, <2>1, <2>2, <2>3, ExecuteDoes
  <1>16. ~Finish(r)
    <2> SUFFICES ASSUME loop' = [loop EXCEPT ![r].at = "execute", ![r].job = {}] PROVE FALSE
      BY DEF Finish
    <2>1. /\ loop'[r] = [loop[r] EXCEPT !.at = "execute", !.job = {}]
          /\ \A t \in Services \ {r} : loop'[t] = loop[t]
      BY <1>1
    <2>2. loop'[r].due = loop[r].due
      BY <1>11, <2>1 DEF LoopRec
    <2>3. QED
      BY <2>1, <2>2
  <1>17. Check(r)
    BY <1>10, <1>12, <1>13, <1>14, <1>15, <1>16 DEF Loop
  <1>18. Running(r)
    BY SMTT(30), <1>1, <1>11, <1>17 DEF Check, LoopRec
  <1>19. loop' = [loop EXCEPT ![r].at = "execute", ![r].due = Due(r)]
    BY <1>17, <1>18 DEF Check, Due
  <1>20. r = s /\ i \in Due(r)
    BY <1>1, <1>11, <1>19 DEF LoopRec
  <1>21. QED
    BY <1>17, <1>18, <1>20

(* A one-shot job is taken up at most once for each time it is scheduled,     *)
(* over crashes, reloads and services that overlap.                           *)
THEOREM OneShotOnceCorrect ==
    ASSUME CronAssumption
    PROVE  CronSpec => OneShotOnce
  <1>1. ASSUME Inv, [CronNext]_cronVars
        PROVE  \A s \in Services : \A i \in loop'[s].due \ loop[s].due :
                   store[s][i].kind = "at" => <<i, store[s][i].when>> \notin taken
    <2>1. ASSUME NEW s \in Services, NEW i \in loop'[s].due \ loop[s].due,
                 store[s][i].kind = "at"
          PROVE  <<i, store[s][i].when>> \notin taken
      <3>1. Check(s) /\ Running(s) /\ i \in Due(s)
        BY <1>1, OnlyCheckTakes
      <3>2. QED
        BY <1>1, <2>1, <3>1, DueIsNew DEF Check
    <2>2. QED
      BY <2>1
  <1>2. QED
    BY <1>1, InvAlways, PTL DEF CronSpec, OneShotOnce

-----------------------------------------------------------------------------
(* The channel manager.                                                      *)

Made == Cardinality(Names)
(* The object NewManager makes for n; a reload makes one beyond these.       *)
First(n) == Numbered(Names, 1)[n]
IsOf(o, n) == o \in {0, First(n)} \/ o > Made

(* Until StartAll nothing runs.                                              *)
BeforeStart ==
    gateway = "starting" =>
        /\ gang = <<>> /\ outbox = <<>> /\ dispatcher.at = "off" /\ cancelled = {}
        /\ halted = {} /\ touched = {} /\ owner = 0
        /\ \A n \in Names : workers[n] = 0 /\ channels[n] \in {0, First(n)}
        /\ \A m \in Messages : fate[m].is = "unborn"
        /\ \A r \in Reloads : deferred[r] = <<>>

(* The context is live as long as the manager runs, and only StopAll or a    *)
(* StartAll that fails cancels one.                                          *)
Lifecycle ==
    /\ BeforeStart
    /\ gateway \notin {"running", "crashed"} => task = 0
    /\ gateway = "running" => task # 0
    /\ cancelled # {} => task = 0
    /\ dispatcher.at = "panicked" => gateway = "crashed"

(* The dispatcher and the workers hold a message exactly where they handle   *)
(* one; the dispatcher puts it to a worker of its channel; a reload with the *)
(* lock is in an unregistration; only StopAll and a reload close a queue.    *)
Holders ==
    /\ dispatcher.msg # 0 <=> dispatcher.at \in {"look", "put", "panicked"}
    /\ dispatcher.at = "put" =>
          dispatcher.worker # 0 /\ gang[dispatcher.worker].name = fate[dispatcher.msg].name
    /\ \A n \in Names : workers[n] # 0 => gang[workers[n]].name = n
    /\ owner \in Reloads =>
          deferred[owner] # <<>> /\ Head(deferred[owner]).do = "unregister"
    /\ \A i \in Workers :
          /\ gang[i].msg # 0 <=> gang[i].at \in {"limit", "send", "pause"}
          /\ gang[i].closed => task = 0 \/ gang[i].name \in touched

(* Worker i, or the dispatcher and the stream before it, has message m.      *)
Holds(i, m) == gang[i].msg = m \/ \E k \in DOMAIN gang[i].queue : gang[i].queue[k] = m
Ahead(m) == dispatcher.msg = m \/ \E k \in DOMAIN outbox : outbox[k] = m

(* A message is with one of those that hold messages until it is settled.    *)
InPlace ==
    /\ \A m \in Messages : fate[m].is = "moving" => Ahead(m) \/ \E i \in Workers : Holds(i, m)
    /\ \A m \in Messages : Ahead(m) => fate[m].is # "unborn"
    /\ \A i \in Workers, m \in Messages : Holds(i, m) =>
          fate[m].is # "unborn" /\ fate[m].name = gang[i].name

Ascending(q) == \A j, k \in DOMAIN q : j < k => q[j] < q[k]

(* Messages leave the stream in the order they came, and no worker gets one  *)
(* before those ahead of it.                                                 *)
InOrderOut ==
    /\ \A l, m \in Messages : l < m /\ fate[l].is = "unborn" => fate[m].is = "unborn"
    /\ Ascending(outbox)
    /\ \A k \in DOMAIN outbox : dispatcher.msg < outbox[k]
    /\ \A i \in Workers, l, m \in Messages : Holds(i, l) /\ Ahead(m) => l < m
    /\ \A i \in Workers : /\ Ascending(gang[i].queue)
                          /\ \A k \in DOMAIN gang[i].queue : gang[i].msg < gang[i].queue[k]

(* Only a reload makes objects, and only of the channels it starts; it stops *)
(* no object of a name it leaves alone.                                      *)
ObjectsInv ==
    gateway \in {"starting", "running"} =>
        /\ \A n \in Names : IsOf(channels[n], n)
        /\ \A r \in Reloads : \A k \in DOMAIN deferred[r] :
              IsOf(deferred[r][k].object, deferred[r][k].name)
        /\ \A o \in halted : o = 0 \/ o > Made \/ \E n \in touched : o = First(n)

(* What a name has as long as no reload touched it.                          *)
Untouched ==
    \A n \in Names \ touched :
        /\ \A r \in Reloads : \A k \in DOMAIN deferred[r] : deferred[r][k].name # n
        /\ \A i \in Workers : gang[i].name = n => workers[n] = i
        /\ gateway = "running" =>
              IF n \in broken THEN workers[n] = 0
              ELSE /\ channels[n] = First(n) /\ workers[n] # 0
                   /\ LET w == gang[workers[n]]
                      IN  w.object = First(n) /\ ~w.closed /\ w.at # "done"

(* A closed worker that a name still has is one its reload waits for.        *)
ClosedIsOwned ==
    \A n \in Names : workers[n] # 0 /\ gang[workers[n]].closed =>
        owner \in Reloads /\ deferred[owner] # <<>> /\ Head(deferred[owner]).name = n

(* Why a configured name may have no channel object.                         *)
MissingHasCause ==
    \A n \in Names : hashes[n] # 0 /\ channels[n] = 0 =>
        n \in broken \cup overtaken \/ \E r \in Reloads : n \in Awaited(r)

(* Call k of reload r: a registration has an object, and a removal of a name *)
(* that the same reload added is followed by its registration, if it started. *)
Follows(r, k) ==
    LET n == deferred[r][k].name
    IN  IF deferred[r][k].do = "register" THEN deferred[r][k].object # 0
        ELSE hashes[n] = r + 1 =>
             n \in broken \/ \E j \in DOMAIN deferred[r] :
                k < j /\ deferred[r][j].do = "register" /\ deferred[r][j].name = n

(* The calls that the reloads' goroutines have yet to make.                  *)
Calls ==
    gateway = "running" =>
        /\ ClosedIsOwned /\ MissingHasCause
        /\ \A r \in Reloads : task <= r => deferred[r] = <<>>
        /\ \A r \in Reloads : \A k \in DOMAIN deferred[r] : Follows(r, k)

(* The inductive invariant.                                                  *)
ManagerInv ==
    /\ ManagerTypeOK /\ Lifecycle /\ Holders /\ InPlace /\ InOrderOut
    /\ ObjectsInv /\ Untouched /\ Calls /\ DropHasCause /\ SentInOrder /\ CrashHasCause

-----------------------------------------------------------------------------
(* The operators.                                                            *)

(* Numbered numbers a finite set one to one from low on.                     *)
LEMMA NumberedCounts ==
    ASSUME NEW S, IsFiniteSet(S), NEW low \in Int
    PROVE  /\ Cardinality(S) \in Nat
           /\ Numbered(S, low) \in [S -> low .. low + Cardinality(S) - 1]
           /\ \A a, b \in S : Numbered(S, low)[a] = Numbered(S, low)[b] => a = b
           /\ \A i \in low .. low + Cardinality(S) - 1 :
                 \E a \in S : Numbered(S, low)[a] = i
<1> DEFINE c == Cardinality(S)  T == low .. low + c - 1
<1>1. c \in Nat /\ ExistsBijection(1 .. c, S)
  BY FS_CardinalityType
<1>2. ExistsBijection(S, 1 .. c)
  BY <1>1, Fun_ExistsBijSymmetric
<1>3. PICK g \in Bijection(S, 1 .. c) : TRUE
  BY <1>2 DEF ExistsBijection
<1>4. /\ g \in [S -> 1 .. c] /\ \A a, b \in S : g[a] = g[b] => a = b
      /\ \A i \in 1 .. c : \E a \in S : g[a] = i
  BY <1>3 DEF Bijection, Injection, Surjection, IsInjective
<1> DEFINE f == [a \in S |-> g[a] + low - 1]
<1>5. f \in [S -> T] /\ \A a, b \in S : f[a] = f[b] => a = b
  BY <1>1, <1>4
<1>6. \A i \in T : \E a \in S : f[a] = i
  <2> SUFFICES ASSUME NEW i \in T PROVE \E a \in S : f[a] = i
    OBVIOUS
  <2>1. PICK a \in S : g[a] = i - low + 1
    BY <1>1, <1>4
  <2> QED BY <2>1, <1>1
<1>7. f \in Bijection(S, T)
  BY <1>5, <1>6 DEF Bijection, Injection, Surjection, IsInjective
<1>8. Numbered(S, low) \in Bijection(S, T)
  BY <1>7 DEF Numbered
<1> QED BY <1>1, <1>8 DEF Bijection, Injection, Surjection, IsInjective

(* The objects of a reload lie beyond those of the reloads before it.        *)
LEMMA ObjectRange ==
    ASSUME NEW c \in Nat, NEW r \in Nat \ {0}, NEW m \in Nat, r <= m, NEW k \in 0 .. c
    PROVE  c * r >= c /\ c * r + k <= c * (m + 1) /\ c * r \in Nat /\ c * (m + 1) \in Nat
<1>1. c * r >= c /\ c * r \in Nat /\ c * (m + 1) \in Nat
  BY SMT
<1>2. c * (m + 1) = c * m + c /\ c * r <= c * m /\ c * m \in Nat
  BY SMT
<1> QED BY <1>1, <1>2

(* Hire appends one new worker for each name of S and points the name to it. *)
LEMMA HireAppends ==
    ASSUME ManagerAssumption, ManagerTypeOK, NEW S \in SUBSET Names, NEW c \in Contexts,
           NEW objects \in [Names -> Objects], Hire(S, c, objects)
    PROVE  /\ gang' \in Seq(Worker) /\ workers' \in [Names -> 0 .. Len(gang')]
           /\ Workers \subseteq DOMAIN gang' /\ \A i \in Workers : gang'[i] = gang[i]
           /\ \A i \in DOMAIN gang' \ Workers :
                 \E n \in S : workers'[n] = i /\ gang'[i] = NewWorker(n, objects[n], c)
           /\ \A n \in S : /\ workers'[n] \in DOMAIN gang' \ Workers
                           /\ gang'[workers'[n]] = NewWorker(n, objects[n], c)
           /\ \A n \in Names \ S : workers'[n] = workers[n]
<1> DEFINE number == Numbered(S, Len(gang) + 1)
           d == Cardinality(S)
           holder(i) == CHOOSE n \in S : number[n] = i
           new == [k \in 1 .. d |-> NewWorker(holder(Len(gang) + k),
                                              objects[holder(Len(gang) + k)], c)]
<1>1. gang \in Seq(Worker) /\ Len(gang) \in Nat /\ Workers = 1 .. Len(gang)
      /\ workers \in [Names -> 0 .. Len(gang)]
  BY DEF ManagerTypeOK, Workers
<1>2. IsFiniteSet(S)
  BY FS_Subset DEF ManagerAssumption
<1>3. /\ d \in Nat /\ number \in [S -> Len(gang) + 1 .. Len(gang) + 1 + d - 1]
      /\ \A a, b \in S : number[a] = number[b] => a = b
      /\ \A i \in Len(gang) + 1 .. Len(gang) + 1 + d - 1 : \E a \in S : number[a] = i
  <2>1. Len(gang) + 1 \in Int
    BY <1>1
  <2>2. \A low \in Int :
           /\ Cardinality(S) \in Nat
           /\ Numbered(S, low) \in [S -> low .. low + Cardinality(S) - 1]
           /\ \A a, b \in S : Numbered(S, low)[a] = Numbered(S, low)[b] => a = b
           /\ \A i \in low .. low + Cardinality(S) - 1 :
                 \E a \in S : Numbered(S, low)[a] = i
    BY <1>2, NumberedCounts
  <2> QED BY <2>1, <2>2
<1>4. gang' = gang \o new /\ workers' = [n \in Names |-> IF n \in S THEN number[n]
                                                                 ELSE workers[n]]
  BY DEF Hire
<1> HIDE DEF number, d
<1>5. \A k \in 1 .. d : holder(Len(gang) + k) \in S /\ number[holder(Len(gang) + k)] = Len(gang) + k
  BY SMTT(30), <1>1, <1>3
<1>6. \A n \in S : NewWorker(n, objects[n], c) \in Worker
  BY DEF NewWorker, Worker, ManagerAssumption
<1>7. new \in Seq(Worker) /\ Len(new) = d /\ \A k \in 1 .. d :
         new[k] = NewWorker(holder(Len(gang) + k), objects[holder(Len(gang) + k)], c)
  <2>1. new \in [1 .. d -> Worker]
    BY <1>5, <1>6
  <2> HIDE DEF holder
  <2>2. \A k \in 1 .. d :
         new[k] = NewWorker(holder(Len(gang) + k), objects[holder(Len(gang) + k)], c)
    OBVIOUS
  <2> HIDE DEF new
  <2> QED BY <1>3, <2>1, <2>2
<1> HIDE DEF new, holder
<1>8. /\ gang' \in Seq(Worker) /\ Len(gang') = Len(gang) + d
      /\ \A i \in 1 .. Len(gang) + d :
            gang'[i] = IF i <= Len(gang) THEN gang[i] ELSE new[i - Len(gang)]
  BY <1>1, <1>4, <1>7, ConcatProperties
<1>9. DOMAIN gang' = 1 .. Len(gang) + d
  BY <1>8
<1>10. workers' \in [Names -> 0 .. Len(gang')]
  BY <1>1, <1>3, <1>4, <1>8
<1>11. Workers \subseteq DOMAIN gang' /\ \A i \in Workers : gang'[i] = gang[i]
  BY <1>1, <1>3, <1>8, <1>9
<1>12. \A n \in Names \ S : workers'[n] = workers[n]
  BY <1>4
<1>13. ASSUME NEW n \in S
       PROVE  /\ workers'[n] \in DOMAIN gang' \ Workers
              /\ gang'[workers'[n]] = NewWorker(n, objects[n], c)
  <2>1. workers'[n] = number[n] /\ number[n] \in Len(gang) + 1 .. Len(gang) + d
    BY <1>1, <1>3, <1>4
  <2>2. PICK k \in 1 .. d : number[n] = Len(gang) + k
    <3>1. number[n] - Len(gang) \in 1 .. d /\ number[n] = Len(gang) + (number[n] - Len(gang))
      BY <1>1, <1>3, <2>1
    <3> QED BY <3>1
  <2>3. holder(Len(gang) + k) = n
    BY <1>3, <1>5, <2>2
  <2>4. gang'[number[n]] = new[k]
    BY <1>1, <1>3, <1>8, <2>2
  <2> QED BY <1>1, <1>7, <1>9, <2>1, <2>2, <2>3, <2>4
<1>14. ASSUME NEW i \in DOMAIN gang' \ Workers
       PROVE  \E n \in S : workers'[n] = i /\ gang'[i] = NewWorker(n, objects[n], c)
  <2>1. i \in Len(gang) + 1 .. Len(gang) + 1 + d - 1
    BY <1>1, <1>3, <1>9
  <2>2. PICK n \in S : number[n] = i
    BY <1>3, <2>1
  <2>3. workers'[n] = i
    BY <1>4, <2>2
  <2> QED BY <1>13, <2>3
<1> QED BY <1>8, <1>10, <1>11, <1>12, <1>13, <1>14

(* A deferred call.                                                          *)
Call == [do: {"unregister", "register"}, name: Names, object: Objects]

(* What a reload defers: a removal for every removed name and then, for      *)
(* every started name, a registration with the object it has now.            *)
LEMMA RegistrationsFollow ==
    ASSUME ManagerAssumption, NEW removed \in SUBSET Names, NEW started \in SUBSET Names,
           NEW objects \in [Names -> Objects],
           NEW calls, calls = Registrations(removed, started, objects)
    PROVE  /\ calls \in Seq(Call)
           /\ \A k \in DOMAIN calls :
                 /\ calls[k].object = objects[calls[k].name]
                 /\ calls[k].name \in IF calls[k].do = "register" THEN started ELSE removed
           /\ \A k \in DOMAIN calls, n \in started : calls[k].do = "unregister" =>
                 \E j \in DOMAIN calls : k < j /\ calls[j].do = "register" /\ calls[j].name = n
<1> DEFINE nth(S, k) == CHOOSE x \in S : Numbered(S, 1)[x] = k
           list(S, what) == [k \in 1 .. Cardinality(S) |->
                                [do |-> what, name |-> nth(S, k), object |-> objects[nth(S, k)]]]
           a == Cardinality(removed)  b == Cardinality(started)
           p == list(removed, "unregister")  q == list(started, "register")
<1>1. ASSUME NEW S \in SUBSET Names
      PROVE  /\ Cardinality(S) \in Nat
             /\ \A k \in 1 .. Cardinality(S) : nth(S, k) \in S
             /\ \A n \in S : \E k \in 1 .. Cardinality(S) : nth(S, k) = n
  <2>1. IsFiniteSet(S)
    BY FS_Subset DEF ManagerAssumption
  <2>2. /\ Cardinality(S) \in Nat
        /\ Numbered(S, 1) \in [S -> 1 .. 1 + Cardinality(S) - 1]
        /\ \A x, y \in S : Numbered(S, 1)[x] = Numbered(S, 1)[y] => x = y
        /\ \A i \in 1 .. 1 + Cardinality(S) - 1 : \E x \in S : Numbered(S, 1)[x] = i
    BY <2>1, NumberedCounts
  <2>3. 1 .. 1 + Cardinality(S) - 1 = 1 .. Cardinality(S)
    BY <2>2
  <2> QED BY <2>2, <2>3
<1>2. calls = p \o q
  BY DEF Registrations
<1>3. a \in Nat /\ b \in Nat
  BY <1>1
<1>4. /\ p \in Seq(Call) /\ Len(p) = a
      /\ \A k \in 1 .. a : /\ p[k].do = "unregister" /\ p[k].name \in removed
                           /\ p[k].object = objects[p[k].name]
  <2>1. \A k \in 1 .. a : nth(removed, k) \in removed
    BY <1>1
  <2> HIDE DEF nth
  <2>2. p \in [1 .. a -> Call]
    BY <2>1 DEF Call
  <2>3. \A k \in 1 .. a : p[k] = [do |-> "unregister", name |-> nth(removed, k),
                                  object |-> objects[nth(removed, k)]]
    OBVIOUS
  <2> HIDE DEF p
  <2> QED BY <1>3, <2>1, <2>2, <2>3
<1>5. /\ q \in Seq(Call) /\ Len(q) = b
      /\ \A k \in 1 .. b : /\ q[k].do = "register" /\ q[k].name \in started
                           /\ q[k].object = objects[q[k].name]
      /\ \A n \in started : \E k \in 1 .. b : q[k].name = n
  <2>1. /\ \A k \in 1 .. b : nth(started, k) \in started
        /\ \A n \in started : \E k \in 1 .. b : nth(started, k) = n
    BY <1>1
  <2> HIDE DEF nth
  <2>2. q \in [1 .. b -> Call]
    BY <2>1 DEF Call
  <2>3. \A k \in 1 .. b : q[k] = [do |-> "register", name |-> nth(started, k),
                                  object |-> objects[nth(started, k)]]
    OBVIOUS
  <2> HIDE DEF q
  <2>4. \A k \in 1 .. b : /\ q[k].do = "register" /\ q[k].name = nth(started, k)
                          /\ q[k].object = objects[q[k].name]
    <3> SUFFICES ASSUME NEW k \in 1 .. b
                 PROVE  /\ q[k].do = "register" /\ q[k].name = nth(started, k)
                        /\ q[k].object = objects[q[k].name]
      OBVIOUS
    <3> HIDE DEF list, b
    <3>1. q[k] = [do |-> "register", name |-> nth(started, k), object |-> objects[nth(started, k)]]
      BY <2>3
    <3> QED BY <3>1
  <2>5. \A n \in started : \E k \in 1 .. b : q[k].name = n
    BY <2>1, <2>4
  <2>6. \A k \in 1 .. b : q[k].name \in started
    BY <2>1, <2>4
  <2>7. q \in Seq(Call) /\ Len(q) = b
    <3> HIDE DEF q
    <3> QED BY <1>3, <2>2
  <2> QED BY <2>4, <2>5, <2>6, <2>7
<1> HIDE DEF p, q, a, b
<1>6. /\ calls \in Seq(Call) /\ Len(calls) = a + b
      /\ \A k \in 1 .. a + b : calls[k] = IF k <= a THEN p[k] ELSE q[k - a]
  <2>1. p \in Seq(Call) /\ q \in Seq(Call) /\ Len(p) = a /\ Len(q) = b
    BY <1>4, <1>5
  <2>2. /\ p \o q \in Seq(Call) /\ Len(p \o q) = Len(p) + Len(q)
        /\ \A k \in 1 .. Len(p) + Len(q) :
              (p \o q)[k] = IF k <= Len(p) THEN p[k] ELSE q[k - Len(p)]
    BY <2>1, ConcatProperties
  <2> QED BY <1>2, <2>1, <2>2
<1>7. DOMAIN calls = 1 .. a + b
  BY <1>6
<1>8. \A k \in DOMAIN calls :
         IF k <= a THEN k \in 1 .. a /\ calls[k] = p[k] ELSE k - a \in 1 .. b /\ calls[k] = q[k - a]
  BY <1>3, <1>6, <1>7
<1>9. ASSUME NEW k \in DOMAIN calls, NEW n \in started, calls[k].do = "unregister"
      PROVE  \E j \in DOMAIN calls : k < j /\ calls[j].do = "register" /\ calls[j].name = n
  <2>1. k <= a
    BY <1>5, <1>8, <1>9
  <2>2. PICK l \in 1 .. b : q[l].name = n
    BY <1>5
  <2>3. a + l \in DOMAIN calls /\ k < a + l /\ calls[a + l] = q[l]
    BY <1>3, <1>6, <1>7, <2>1, <1>9
  <2> QED BY <1>5, <2>2, <2>3
<1>10. ASSUME NEW k \in DOMAIN calls
       PROVE  /\ calls[k].object = objects[calls[k].name]
              /\ calls[k].name \in IF calls[k].do = "register" THEN started ELSE removed
  <2>1. CASE k <= a
    BY <1>4, <1>8, <2>1
  <2>2. CASE ~(k <= a)
    BY <1>5, <1>8, <2>2
  <2> QED BY <2>1, <2>2
<1> QED BY <1>6, <1>9, <1>10

-----------------------------------------------------------------------------
(* The type.                                                                 *)

(* What a step of worker i or the dispatcher may do to the workers.          *)
Served(i, w) ==
    /\ gang' = [gang EXCEPT ![i] = w]
    /\ w \in Worker /\ Len(w.queue) <= QueueSize
    /\ w.name = gang[i].name /\ w.object = gang[i].object
    /\ w.ctx = gang[i].ctx /\ w.closed = gang[i].closed

(* Of the other workers, and of what a worker is, that keeps everything.     *)
LEMMA ServedKeeps ==
    ASSUME ManagerTypeOK, NEW i \in Workers, NEW w, Served(i, w)
    PROVE  /\ gang' \in Seq(Worker) /\ DOMAIN gang' = Workers /\ Len(gang') = Len(gang)
           /\ gang'[i] = w /\ \A j \in Workers \ {i} : gang'[j] = gang[j]
           /\ \A j \in Workers : /\ gang'[j].name = gang[j].name
                                 /\ gang'[j].object = gang[j].object
                                 /\ gang'[j].ctx = gang[j].ctx
                                 /\ gang'[j].closed = gang[j].closed
                                 /\ Len(gang'[j].queue) <= QueueSize
<1>1. gang \in Seq(Worker) /\ Workers = 1 .. Len(gang) /\ Len(gang) \in Nat
      /\ \A j \in Workers : Len(gang[j].queue) <= QueueSize
  BY DEF ManagerTypeOK, Workers
<1>2. gang' \in Seq(Worker) /\ Len(gang') = Len(gang)
  BY <1>1 DEF Served
<1>3. DOMAIN gang' = Workers /\ gang'[i] = w /\ \A j \in Workers \ {i} : gang'[j] = gang[j]
  BY <1>1, <1>2 DEF Served
<1> QED BY <1>1, <1>2, <1>3 DEF Served

(* Taking a message moves it from the worker's queue to its hands.           *)
LEMMA TakeServes ==
    ASSUME ManagerAssumption, ManagerTypeOK, NEW i \in Workers, Take(i)
    PROVE  Served(i, [gang[i] EXCEPT !.at = "limit", !.msg = Head(gang[i].queue),
                                     !.queue = Tail(gang[i].queue)])
<1>1. /\ gang \in Seq(Worker) /\ gang[i] \in Worker /\ Len(gang[i].queue) <= QueueSize
      /\ QueueSize \in Nat
  BY DEF ManagerTypeOK, Workers, ManagerAssumption
<1>2. gang[i].queue \in Seq(Messages) /\ gang[i].queue # <<>>
  BY <1>1 DEF Worker, Take
<1>3. /\ Head(gang[i].queue) \in 0 .. NumOut /\ Tail(gang[i].queue) \in Seq(Messages)
      /\ Len(Tail(gang[i].queue)) <= QueueSize
  <2>1. Head(gang[i].queue) \in Messages /\ Tail(gang[i].queue) \in Seq(Messages)
        /\ Len(Tail(gang[i].queue)) = Len(gang[i].queue) - 1 /\ Len(gang[i].queue) \in Nat
    BY <1>2, HeadTailProperties
  <2>2. Messages \subseteq 0 .. NumOut
    BY DEF Messages, ManagerAssumption
  <2>3. Head(gang[i].queue) \in 0 .. NumOut
    BY <2>1, <2>2
  <2>4. Len(Tail(gang[i].queue)) <= QueueSize
    BY <1>1, <2>1
  <2> QED BY <2>1, <2>3, <2>4
<1> DEFINE w == [gang[i] EXCEPT !.at = "limit", !.msg = Head(gang[i].queue),
                                !.queue = Tail(gang[i].queue)]
<1>4. w \in Worker
  BY <1>1, <1>3 DEF Worker
<1>5. gang' = [gang EXCEPT ![i] = w]
  BY DEF Take
<1>6. /\ w.name = gang[i].name /\ w.object = gang[i].object /\ w.ctx = gang[i].ctx
      /\ w.closed = gang[i].closed /\ w.queue = Tail(gang[i].queue)
  BY <1>1 DEF Worker
<1> QED BY <1>3, <1>4, <1>5, <1>6 DEF Served

(* Leaving changes no more of worker i than where it is.                     *)
LEMMA LeaveServes ==
    ASSUME ManagerAssumption, ManagerTypeOK, NEW i \in Workers, Leave(i)
    PROVE  Served(i, [gang[i] EXCEPT !.at = "done"])
<1>1. gang \in Seq(Worker) /\ gang[i] \in Worker /\ Len(gang[i].queue) <= QueueSize
  BY DEF ManagerTypeOK, Workers
<1> QED BY <1>1 DEF Leave, Served, Worker

(* Nor does being done with a message.                                       *)
LEMMA FreeServes ==
    ASSUME ManagerAssumption, ManagerTypeOK, NEW i \in Workers, Free(i)
    PROVE  Served(i, [gang[i] EXCEPT !.at = "select", !.msg = 0, !.tries = 0])
<1>1. gang \in Seq(Worker) /\ gang[i] \in Worker /\ Len(gang[i].queue) <= QueueSize
      /\ NumOut \in Nat /\ MaxRetries \in Nat
  BY DEF ManagerTypeOK, Workers, ManagerAssumption
<1> DEFINE w == [gang[i] EXCEPT !.at = "select", !.msg = 0, !.tries = 0]
<1>2. w \in Worker /\ w.queue = gang[i].queue
  <2>1. 0 \in 0 .. NumOut /\ 0 \in 0 .. MaxRetries
    BY <1>1
  <2> QED BY <1>1, <2>1 DEF Worker
<1>3. gang' = [gang EXCEPT ![i] = w]
  BY DEF Free
<1>4. /\ w.name = gang[i].name /\ w.object = gang[i].object /\ w.ctx = gang[i].ctx
      /\ w.closed = gang[i].closed
  BY <1>1 DEF Worker
<1> QED BY <1>1, <1>2, <1>3, <1>4 DEF Served

(* Nor does going on to the send.                                            *)
LEMMA ProceedServes ==
    ASSUME ManagerAssumption, ManagerTypeOK, NEW i \in Workers, Proceed(i)
    PROVE  Served(i, [gang[i] EXCEPT !.at = "send"])
<1>1. gang \in Seq(Worker) /\ gang[i] \in Worker /\ Len(gang[i].queue) <= QueueSize
  BY DEF ManagerTypeOK, Workers
<1> QED BY <1>1 DEF Proceed, Served, Worker

(* A send either ends, which frees the worker, or is tried again later.      *)
LEMMA SendServes ==
    ASSUME ManagerAssumption, ManagerTypeOK, NEW i \in Workers, NEW result,
           ChannelSend(i, result)
    PROVE  \/ /\ Free(i)
              /\ Settle(gang[i].msg, "sent") \/ Settle(gang[i].msg, "failed")
           \/ /\ Served(i, [gang[i] EXCEPT !.at = "pause", !.tries = gang[i].tries + 1])
              /\ UNCHANGED fate
<1>1. /\ gang \in Seq(Worker) /\ gang[i] \in Worker /\ Len(gang[i].queue) <= QueueSize
      /\ MaxRetries \in Nat
  BY DEF ManagerTypeOK, Workers, ManagerAssumption
<1>2. CASE Free(i) /\ (Settle(gang[i].msg, "sent") \/ Settle(gang[i].msg, "failed"))
  BY <1>2
<1>3. CASE /\ result = "temporary" /\ gang[i].tries < MaxRetries
           /\ gang' = [gang EXCEPT ![i].at = "pause", ![i].tries = @ + 1]
           /\ UNCHANGED fate
  <2> DEFINE w == [gang[i] EXCEPT !.at = "pause", !.tries = gang[i].tries + 1]
  <2>1. gang[i].tries + 1 \in 0 .. MaxRetries
    BY <1>1, <1>3 DEF Worker
  <2>2. w \in Worker /\ w.queue = gang[i].queue
    BY <1>1, <2>1 DEF Worker
  <2>3. gang' = [gang EXCEPT ![i] = w]
    BY <1>3
  <2>4. /\ w.name = gang[i].name /\ w.object = gang[i].object /\ w.ctx = gang[i].ctx
        /\ w.closed = gang[i].closed
    BY <1>1 DEF Worker
  <2> QED BY <1>1, <1>3, <2>2, <2>3, <2>4 DEF Served
<1> QED BY <1>2, <1>3 DEF ChannelSend

(* Putting message m into the queue of worker i.                             *)
LEMMA PutServes ==
    ASSUME ManagerAssumption, ManagerTypeOK, NEW i \in Workers, NEW m \in Messages,
           Len(gang[i].queue) < QueueSize,
           gang' = [gang EXCEPT ![i].queue = Append(@, m)]
    PROVE  Served(i, [gang[i] EXCEPT !.queue = Append(gang[i].queue, m)])
<1>1. /\ gang \in Seq(Worker) /\ gang[i] \in Worker /\ gang[i].queue \in Seq(Messages)
      /\ QueueSize \in Nat
  <2>1. gang \in Seq(Worker) /\ gang[i] \in Worker
    BY DEF ManagerTypeOK, Workers
  <2> QED BY <2>1 DEF ManagerAssumption, Worker
<1>2. Append(gang[i].queue, m) \in Seq(Messages)
      /\ Len(Append(gang[i].queue, m)) <= QueueSize
  BY <1>1
<1> DEFINE w == [gang[i] EXCEPT !.queue = Append(gang[i].queue, m)]
<1>3. w \in Worker /\ w.queue = Append(gang[i].queue, m)
  BY <1>1, <1>2 DEF Worker
<1>4. /\ w.name = gang[i].name /\ w.object = gang[i].object /\ w.ctx = gang[i].ctx
      /\ w.closed = gang[i].closed
  BY <1>1 DEF Worker
<1> QED BY <1>2, <1>3, <1>4 DEF Served

(* The channel objects after a reload.                                       *)
LEMMA ReloadMakes ==
    ASSUME ManagerAssumption, ManagerTypeOK, NEW r \in Reloads, NEW ready \in SUBSET Names,
           NEW objects,
           objects = [n \in Names |-> IF n \in ready
                        THEN Numbered(ready, 1 + Cardinality(Names) * r)[n] ELSE channels[n]]
    PROVE  /\ objects \in [Names -> Objects]
           /\ \A n \in ready : objects[n] > Made
           /\ \A n \in Names \ ready : objects[n] = channels[n]
<1> DEFINE c == Cardinality(Names)  d == Cardinality(ready)
<1>1. c \in Nat /\ d \in 0 .. c /\ IsFiniteSet(ready)
  <2>1. IsFiniteSet(Names) /\ IsFiniteSet(ready) /\ d <= c
    BY FS_Subset DEF ManagerAssumption
  <2> QED BY <2>1, FS_CardinalityType
<1>2. r \in Nat \ {0} /\ r <= MaxReloads /\ MaxReloads \in Nat
  BY DEF Reloads, ManagerAssumption
<1> HIDE DEF c, d
<1>3. /\ c * r >= c /\ c * r + d <= c * (MaxReloads + 1) /\ c * r \in Nat
      /\ c * (MaxReloads + 1) \in Nat
  BY <1>1, <1>2, ObjectRange
<1>4. /\ Numbered(ready, 1 + c * r) \in [ready -> 1 + c * r .. 1 + c * r + d - 1]
  <2>1. 1 + c * r \in Int
    BY <1>3
  <2>2. \A low \in Int : Numbered(ready, low) \in
                               [ready -> low .. low + Cardinality(ready) - 1]
    BY <1>1, NumberedCounts
  <2> QED BY <2>1, <2>2 DEF d
<1>5. ASSUME NEW n \in ready
      PROVE  /\ Numbered(ready, 1 + c * r)[n] > c
             /\ Numbered(ready, 1 + c * r)[n] \in 0 .. c * (MaxReloads + 1)
  <2>1. Numbered(ready, 1 + c * r)[n] \in 1 + c * r .. 1 + c * r + d - 1
    BY <1>4
  <2> QED BY <1>1, <1>3, <2>1
<1>6. \A n \in ready : objects[n] > c /\ objects[n] \in 0 .. c * (MaxReloads + 1)
  BY <1>5 DEF c
<1>7. \A n \in Names \ ready : objects[n] = channels[n]
  OBVIOUS
<1>8. Objects = 0 .. c * (MaxReloads + 1)
  BY DEF Objects, c
<1>9. channels \in [Names -> Objects]
  BY DEF ManagerTypeOK
<1> QED BY <1>6, <1>7, <1>8, <1>9 DEF Made, c

(* A settled message has one of the states of a message.                     *)
LEMMA SettleType ==
    ASSUME ManagerTypeOK, NEW m, NEW how \in Settled, Settle(m, how)
    PROVE  fate' \in [Messages -> [name: Names, is: {"unborn", "moving"} \cup Settled]]
<1> DEFINE Fates == [name: Names, is: {"unborn", "moving"} \cup Settled]
<1>1. fate \in [Messages -> Fates]
  BY DEF ManagerTypeOK
<1>2. \A f \in Fates : [f EXCEPT !.is = how] \in Fates
  OBVIOUS
<1> HIDE DEF Fates
<1>3. fate' \in [Messages -> Fates]
  BY <1>1, <1>2 DEF Settle
<1> QED BY <1>3 DEF Fates

(* The operations of the manager and of a reload's goroutine keep the type.  *)
LEMMA LifeKeepsType ==
    ASSUME ManagerAssumption, ManagerTypeOK, Holders,
           \/ \E started \in SUBSET Names : StartAll(started)
           \/ \E r \in Reloads, new \in [Names -> 0 .. MaxReloads + 1],
                 ready \in SUBSET Names, started \in SUBSET Names :
                    Reload(r, new, ready, started)
           \/ StopAll \/ StopAllEnds
           \/ \E r \in Reloads : Deferred(r)
    PROVE  ManagerTypeOK'
<1>0. /\ MaxReloads \in Nat /\ QueueSize \in Nat /\ gang \in Seq(Worker)
      /\ Workers = 1 .. Len(gang) /\ Len(gang) \in Nat /\ dispatcher.worker \in 0 .. Len(gang)
  BY DEF ManagerAssumption, ManagerTypeOK, Workers
<1>1. ASSUME NEW S \in SUBSET Names, NEW c \in Contexts, NEW objects \in [Names -> Objects],
             Hire(S, c, objects)
      PROVE  /\ gang' \in Seq(Worker) /\ workers' \in [Names -> 0 .. Len(gang')]
             /\ \A i \in DOMAIN gang' : Len(gang'[i].queue) <= QueueSize
             /\ Len(gang) <= Len(gang')
  <2>1. /\ gang' \in Seq(Worker) /\ workers' \in [Names -> 0 .. Len(gang')]
        /\ Workers \subseteq DOMAIN gang' /\ \A i \in Workers : gang'[i] = gang[i]
        /\ \A i \in DOMAIN gang' \ Workers :
              \E n \in S : workers'[n] = i /\ gang'[i] = NewWorker(n, objects[n], c)
    BY <1>1, HireAppends
  <2>2. \A i \in DOMAIN gang' \ Workers : Len(gang'[i].queue) <= QueueSize
    BY <1>0, <2>1 DEF NewWorker
  <2>3. \A i \in Workers : Len(gang'[i].queue) <= QueueSize
    BY <2>1 DEF ManagerTypeOK
  <2>4. Len(gang) <= Len(gang')
    BY SMTT(30), <1>0, <2>1
  <2> QED BY <2>1, <2>2, <2>3, <2>4
<1>2. ASSUME NEW started \in SUBSET Names, StartAll(started)
      PROVE  ManagerTypeOK'
  <2>1. CASE gateway' = "failed" /\ UNCHANGED <<gang, workers, task, dispatcher>>
             /\ cancelled' = cancelled \cup {1}
    <3>1. 1 \in Contexts
      BY <1>0 DEF Contexts
    <3> QED BY <1>2, <2>1, <3>1 DEF StartAll, ManagerTypeOK, Workers
  <2>2. CASE /\ Hire(started, 1, channels) /\ task' = 1 /\ UNCHANGED cancelled
             /\ dispatcher' = [dispatcher EXCEPT !.at = "receive"] /\ gateway' = "running"
    <3>1. 1 \in Contexts /\ channels \in [Names -> Objects]
      BY <1>0 DEF Contexts, ManagerTypeOK
    <3>2. /\ gang' \in Seq(Worker) /\ workers' \in [Names -> 0 .. Len(gang')]
          /\ \A i \in DOMAIN gang' : Len(gang'[i].queue) <= QueueSize
          /\ Len(gang) <= Len(gang')
      BY <1>1, <2>2, <3>1
    <3>3. dispatcher' \in [at: {"off", "receive", "look", "put", "over", "panicked"},
                           msg: 0 .. NumOut, worker: 0 .. Len(gang')]
      <4>1. dispatcher' = [at |-> "receive", msg |-> dispatcher.msg,
                           worker |-> dispatcher.worker]
            /\ dispatcher.msg \in 0 .. NumOut
        BY <2>2 DEF ManagerTypeOK
      <4>2. dispatcher.worker \in 0 .. Len(gang')
        BY <1>0, <3>2
      <4> QED BY <4>1, <4>2
    <3> QED BY <1>2, <2>2, <3>1, <3>2, <3>3 DEF StartAll, ManagerTypeOK, Workers
  <2> QED BY <1>2, <2>1, <2>2 DEF StartAll
<1>3. ASSUME NEW r \in Reloads, NEW new \in [Names -> 0 .. MaxReloads + 1],
             NEW ready \in SUBSET Names, NEW started \in SUBSET Names,
             ReloadDone(r, new, ready, started)
      PROVE  ManagerTypeOK'
  <2> DEFINE objects == [n \in Names |-> IF n \in ready
                        THEN Numbered(ready, 1 + Cardinality(Names) * r)[n] ELSE channels[n]]
  <2>1. objects \in [Names -> Objects]
    BY ReloadMakes
  <2>2. /\ channels' = objects /\ Hire(started, r + 1, objects) /\ task' = r + 1
        /\ halted' = (halted \cup {channels[n] : n \in Removed(new)})
                         \ {objects[n] : n \in started}
        /\ hashes' = new
        /\ deferred' = [deferred EXCEPT ![r] = Registrations(Removed(new), started, objects)]
        /\ touched' = touched \cup Removed(new) \cup Added(new)
        /\ broken' = (broken \ (Removed(new) \cup Added(new))) \cup (Added(new) \ started)
        /\ UNCHANGED <<cancelled, dispatcher, outbox, fate, owner, gateway, overtaken>>
    BY <1>3 DEF ReloadDone
  <2> HIDE DEF objects
  <2>3. r + 1 \in Contexts
    BY <1>0 DEF Reloads, Contexts
  <2>4. /\ gang' \in Seq(Worker) /\ workers' \in [Names -> 0 .. Len(gang')]
        /\ \A i \in DOMAIN gang' : Len(gang'[i].queue) <= QueueSize
        /\ Len(gang) <= Len(gang')
    BY <1>1, <2>1, <2>2, <2>3
  <2>5. Removed(new) \in SUBSET Names /\ Added(new) \in SUBSET Names
    BY DEF Removed, Added
  <2>6. Registrations(Removed(new), started, objects) \in Seq(Call)
    BY <2>1, <2>5, RegistrationsFollow
  <2>7. deferred' \in [Reloads -> Seq(Call)]
    BY <2>2, <2>6 DEF ManagerTypeOK, Call
  <2>8. dispatcher' \in [at: {"off", "receive", "look", "put", "over", "panicked"},
                         msg: 0 .. NumOut, worker: 0 .. Len(gang')]
    BY <1>0, <2>2, <2>4 DEF ManagerTypeOK
  <2>9. halted' \subseteq Objects
    BY <2>2, <2>5 DEF ManagerTypeOK
  <2>10. touched' \subseteq Names /\ broken' \subseteq Names
    BY <2>2, <2>5 DEF ManagerTypeOK
  <2> QED BY <2>1, <2>2, <2>3, <2>4, <2>7, <2>8, <2>9, <2>10
          DEF ManagerTypeOK, Workers, Call
<1>4. ASSUME NEW r \in Reloads, NEW new \in [Names -> 0 .. MaxReloads + 1],
             NEW ready \in SUBSET Names, ReloadPanics(new, ready)
      PROVE  ManagerTypeOK'
  BY <1>4 DEF ReloadPanics, ManagerTypeOK, Workers, Added
<1>5. CASE StopAll
  <2>1. /\ gang' \in Seq(Worker) /\ Len(gang') = Len(gang) /\ DOMAIN gang' = Workers
        /\ \A i \in Workers : Len(gang'[i].queue) <= QueueSize
    <3> DEFINE hired(i) == \E n \in Names : workers[n] = i
               closed(i) == [gang[i] EXCEPT !.closed = @ \/ hired(i)]
    <3>1. gang' = [i \in Workers |-> closed(i)]
      BY <1>5 DEF StopAll
    <3>2. ASSUME NEW i \in Workers
          PROVE  closed(i) \in Worker /\ Len(closed(i).queue) <= QueueSize
      <4>1. gang[i] \in Worker /\ Len(gang[i].queue) <= QueueSize
        BY <1>0 DEF ManagerTypeOK
      <4>2. gang[i].closed \/ hired(i) \in BOOLEAN
        OBVIOUS
      <4> QED BY <4>1, <4>2 DEF Worker
    <3> HIDE DEF closed
    <3> QED BY <1>0, <3>1, <3>2
  <2>2. task' = 0 /\ cancelled' = cancelled \cup {task} /\ 0 \in Contexts
    BY <1>0, <1>5 DEF StopAll, Contexts
  <2>3. owner' \in 0 .. StopOwner
    BY <1>0, <1>5 DEF StopAll, StopOwner
  <2> QED BY <1>5, <2>1, <2>2, <2>3 DEF StopAll, ManagerTypeOK, Workers
<1>6. CASE StopAllEnds
  <2>1. owner' \in 0 .. StopOwner
    BY <1>0, <1>6 DEF StopAllEnds, StopOwner
  <2> QED BY <1>6, <2>1 DEF StopAllEnds, ManagerTypeOK, Workers
<1>7. ASSUME NEW r \in Reloads, Deferred(r)
      PROVE  ManagerTypeOK'
  <2>1. deferred[r] \in Seq(Call)
    BY DEF ManagerTypeOK, Call
  <2> DEFINE n == Head(deferred[r]).name
  <2>2. ASSUME deferred[r] # <<>>
        PROVE  Head(deferred[r]) \in Call /\ Tail(deferred[r]) \in Seq(Call)
    BY <2>1, <2>2
  <2>3. ASSUME NEW q \in Seq(Call), deferred' = [deferred EXCEPT ![r] = q]
        PROVE  deferred' \in [Reloads -> Seq(Call)]
    BY <2>3 DEF ManagerTypeOK, Call
  <2>4. ASSUME deferred[r] # <<>>
        PROVE  /\ n \in Names /\ Head(deferred[r]).object \in Objects
               /\ [deferred EXCEPT ![r] = Tail(@)] \in [Reloads -> Seq(Call)]
               /\ [deferred EXCEPT ![r] = <<>>] \in [Reloads -> Seq(Call)]
    <3>1. Head(deferred[r]) \in Call /\ Tail(deferred[r]) \in Seq(Call)
      BY <2>2, <2>4
    <3>2. n \in Names /\ Head(deferred[r]).object \in Objects
      BY <3>1 DEF Call
    <3>3. deferred \in [Reloads -> Seq(Call)]
      BY DEF ManagerTypeOK, Call
    <3>4. <<>> \in Seq(Call)
      OBVIOUS
    <3> QED BY <3>1, <3>2, <3>3, <3>4
  <2>5. ASSUME n \in Names, Forget(r, n)
        PROVE  /\ workers' \in [Names -> 0 .. Len(gang)] /\ channels' \in [Names -> Objects]
               /\ overtaken' \subseteq Names
    <3>1. 0 \in Objects
      BY ObjectRange, FS_CardinalityType, <1>0 DEF Objects, ManagerAssumption
    <3> QED BY <1>0, <2>5, <3>1 DEF Forget, ManagerTypeOK
  <2>6. CASE Unregister(r)
    <3>0. /\ deferred[r] # <<>>
          /\ \/ workers[n] = 0 /\ Forget(r, n) /\ Pop(r) /\ UNCHANGED <<gang, owner>>
             \/ /\ deferred' = [deferred EXCEPT ![r] = <<>>]
                /\ UNCHANGED <<workers, channels, gang, owner, overtaken>>
             \/ /\ workers[n] # 0 /\ gang' = [gang EXCEPT ![workers[n]].closed = TRUE]
                /\ owner' = r /\ UNCHANGED <<workers, channels, deferred, overtaken>>
          /\ UNCHANGED <<hashes, halted, task, cancelled, dispatcher, outbox, fate, gateway,
                         touched, broken>>
      BY <2>6 DEF Unregister
    <3>1. n \in Names
      BY <2>4, <3>0
    <3> HIDE DEF n
    <3>2. CASE workers[n] = 0 /\ Forget(r, n) /\ Pop(r) /\ UNCHANGED <<gang, owner>>
      <4>1. deferred' \in [Reloads -> Seq(Call)]
        BY <2>4, <3>0, <3>2 DEF Pop
      <4>2. /\ workers' \in [Names -> 0 .. Len(gang)] /\ channels' \in [Names -> Objects]
            /\ overtaken' \subseteq Names
        BY <2>5, <3>1, <3>2
      <4> QED BY <3>0, <3>2, <4>1, <4>2 DEF ManagerTypeOK, Workers, Call
    <3>3. CASE deferred' = [deferred EXCEPT ![r] = <<>>]
               /\ UNCHANGED <<workers, channels, gang, owner, overtaken>>
      <4>1. deferred' \in [Reloads -> Seq(Call)]
        BY <2>4, <3>0, <3>3
      <4> QED BY <3>0, <3>3, <4>1 DEF ManagerTypeOK, Workers, Call
    <3>4. CASE /\ workers[n] # 0 /\ gang' = [gang EXCEPT ![workers[n]].closed = TRUE]
               /\ owner' = r /\ UNCHANGED <<workers, channels, deferred, overtaken>>
      <4> DEFINE w == workers[n]
      <4>1. w \in Workers
        <5>1. w \in 0 .. Len(gang) /\ w # 0
          BY <3>1, <3>4 DEF ManagerTypeOK
        <5> QED BY <1>0, <5>1
      <4>2. gang' = [gang EXCEPT ![w] = [gang[w] EXCEPT !.closed = TRUE]]
        BY <3>4
      <4> HIDE DEF w
      <4>3. gang[w] \in Worker
        BY <1>0, <4>1
      <4>4. [gang[w] EXCEPT !.closed = TRUE] \in Worker
        BY <4>3 DEF Worker
      <4>5. gang' \in Seq(Worker) /\ Len(gang') = Len(gang) /\ DOMAIN gang' = Workers
        BY <1>0, <4>1, <4>2, <4>4
      <4>6. \A i \in Workers : Len(gang'[i].queue) <= QueueSize
        <5>1. [gang[w] EXCEPT !.closed = TRUE].queue = gang[w].queue
          BY <4>3 DEF Worker
        <5>2. gang'[w] = [gang[w] EXCEPT !.closed = TRUE]
              /\ \A i \in Workers \ {w} : gang'[i] = gang[i]
          <6>1. DOMAIN gang = Workers
            BY <1>0
          <6>2. \A i \in DOMAIN gang :
                   gang'[i] = IF i = w THEN [gang[w] EXCEPT !.closed = TRUE] ELSE gang[i]
            BY <4>2
          <6> QED BY <4>1, <6>1, <6>2
        <5>3. \A i \in Workers : gang'[i].queue = gang[i].queue
          BY <5>1, <5>2
        <5> QED BY <5>3 DEF ManagerTypeOK
      <4>7. owner' \in 0 .. StopOwner
        <5>1. r \in 1 .. MaxReloads /\ owner' = r
          BY <3>4 DEF Reloads
        <5> QED BY <1>0, <5>1 DEF StopOwner
      <4>8. /\ UNCHANGED <<workers, channels, deferred, overtaken>>
            /\ UNCHANGED <<hashes, halted, task, cancelled, dispatcher, outbox, fate, gateway,
                           touched, broken>>
        BY <3>0, <3>4
      <4> QED BY <4>5, <4>6, <4>7, <4>8 DEF ManagerTypeOK, Workers
    <3> QED BY <3>0, <3>2, <3>3, <3>4
  <2>7. CASE UnregisterEnds(r)
    <3>1. deferred[r] # <<>> /\ n \in Names
      BY <2>4, <2>7 DEF UnregisterEnds, Holders
    <3>2. owner' \in 0 .. StopOwner
      BY <1>0, <2>7 DEF UnregisterEnds, StopOwner
    <3> QED BY <2>4, <2>5, <2>7, <3>1, <3>2 DEF UnregisterEnds, ManagerTypeOK, Workers, Pop, Call
  <2>8. CASE Register(r)
    <3>1. channels' \in [Names -> Objects]
      BY <2>4, <2>8 DEF Register, ManagerTypeOK
    <3> QED BY <2>4, <2>8, <3>1 DEF Register, ManagerTypeOK, Workers, Pop, Call
  <2> QED BY <1>7, <2>6, <2>7, <2>8 DEF Deferred
<1> QED BY <1>2, <1>3, <1>4, <1>5, <1>6, <1>7 DEF Reload

(* So do the steps with a message.                                           *)
LEMMA TrafficKeepsType ==
    ASSUME ManagerAssumption, ManagerTypeOK, Holders,
           \/ \E m \in Messages, n \in Names : PublishOutbound(m, n)
           \/ Dispatch
           \/ \E i \in Workers : Work(i)
    PROVE  ManagerTypeOK'
<1>0. /\ NumOut \in Nat /\ gang \in Seq(Worker) /\ Workers = 1 .. Len(gang)
      /\ Len(gang) \in Nat /\ outbox \in Seq(Messages)
      /\ dispatcher \in [at: {"off", "receive", "look", "put", "over", "panicked"},
                         msg: 0 .. NumOut, worker: 0 .. Len(gang)]
  BY DEF ManagerAssumption, ManagerTypeOK, Workers
<1>00. ASSUME NEW a \in {"receive", "over"}
       PROVE  [at |-> a, msg |-> 0, worker |-> 0] \in
                 [at: {"off", "receive", "look", "put", "over", "panicked"},
                  msg: 0 .. NumOut, worker: 0 .. Len(gang)]
  <2>1. 0 \in 0 .. NumOut /\ 0 \in 0 .. Len(gang)
    BY <1>0
  <2> QED BY <2>1
<1>1. ASSUME NEW m \in Messages, NEW n \in Names, PublishOutbound(m, n)
      PROVE  ManagerTypeOK'
  <2>1. fate' \in [Messages -> [name: Names, is: {"unborn", "moving"} \cup Settled]]
    BY <1>1 DEF PublishOutbound, ManagerTypeOK
  <2>2. outbox' \in Seq(Messages)
    BY <1>0, <1>1 DEF PublishOutbound
  <2> QED BY <1>1, <2>1, <2>2 DEF PublishOutbound, ManagerTypeOK, Workers
<1>2. CASE Receive
  <2>1. CASE /\ dispatcher' = [dispatcher EXCEPT !.at = "over"] /\ UNCHANGED outbox
    BY <1>0, <1>2, <2>1 DEF Receive, ManagerTypeOK, Workers
  <2>2. CASE /\ outbox # <<>> /\ outbox' = Tail(outbox)
             /\ dispatcher' = [dispatcher EXCEPT !.at = "look", !.msg = Head(outbox)]
    <3>1. Head(outbox) \in Messages /\ outbox' \in Seq(Messages)
      BY <1>0, <2>2
    <3>2. Head(outbox) \in 0 .. NumOut
      BY <1>0, <3>1 DEF Messages
    <3> QED BY <1>0, <1>2, <2>2, <3>1, <3>2 DEF Receive, ManagerTypeOK, Workers
  <2> QED BY <1>2, <2>1, <2>2 DEF Receive
<1>3. CASE Look
  <2>1. dispatcher.msg \in Messages
    BY <1>0, <1>3 DEF Look, Holders, Messages
  <2>2. CASE /\ Settle(dispatcher.msg, "skipped")
             /\ dispatcher' = [at |-> "receive", msg |-> 0, worker |-> 0]
    <3>1. fate' \in [Messages -> [name: Names, is: {"unborn", "moving"} \cup Settled]]
      BY <2>2, SettleType DEF Settled
    <3> QED BY <1>0, <1>00, <1>3, <2>2, <3>1 DEF Look, ManagerTypeOK, Workers
  <2>3. CASE /\ dispatcher' = [dispatcher EXCEPT !.at = "put",
                                  !.worker = workers[fate[dispatcher.msg].name]]
             /\ UNCHANGED fate
    <3>1. workers[fate[dispatcher.msg].name] \in 0 .. Len(gang)
      BY <2>1 DEF ManagerTypeOK
    <3> QED BY <1>0, <1>3, <2>3, <3>1 DEF Look, ManagerTypeOK, Workers
  <2> QED BY <1>3, <2>2, <2>3 DEF Look
<1>4. CASE Put
  <2>1. dispatcher.worker \in Workers /\ dispatcher.msg \in Messages
    BY <1>0, <1>4 DEF Put, Holders, Messages
  <2>2. CASE /\ Len(gang[dispatcher.worker].queue) < QueueSize
             /\ gang' = [gang EXCEPT ![dispatcher.worker].queue = Append(@, dispatcher.msg)]
             /\ dispatcher' = [at |-> "receive", msg |-> 0, worker |-> 0]
             /\ UNCHANGED <<fate, gateway>>
    <3>1. Served(dispatcher.worker, [gang[dispatcher.worker] EXCEPT
                     !.queue = Append(gang[dispatcher.worker].queue, dispatcher.msg)])
      BY <2>1, <2>2, PutServes
    <3>2. /\ gang' \in Seq(Worker) /\ DOMAIN gang' = Workers /\ Len(gang') = Len(gang)
          /\ \A j \in Workers : Len(gang'[j].queue) <= QueueSize
      BY <2>1, <3>1, ServedKeeps
    <3> QED BY <1>0, <1>00, <1>4, <2>2, <3>2 DEF Put, ManagerTypeOK, Workers
  <2>3. CASE /\ dispatcher' = [dispatcher EXCEPT !.at = "panicked"]
             /\ gateway' = "crashed" /\ UNCHANGED <<gang, fate>>
    BY <1>0, <1>4, <2>3 DEF Put, ManagerTypeOK, Workers
  <2>4. CASE /\ Settle(dispatcher.msg, "lost")
             /\ dispatcher' = [at |-> "over", msg |-> 0, worker |-> 0]
             /\ UNCHANGED <<gang, gateway>>
    <3>1. fate' \in [Messages -> [name: Names, is: {"unborn", "moving"} \cup Settled]]
      BY <2>4, SettleType DEF Settled
    <3> QED BY <1>0, <1>00, <1>4, <2>4, <3>1 DEF Put, ManagerTypeOK, Workers
  <2> QED BY <1>4, <2>2, <2>3, <2>4 DEF Put
<1>5. ASSUME NEW i \in Workers, Work(i)
      PROVE  ManagerTypeOK'
  <2>1. ASSUME NEW w, Served(i, w), WorkerOnly,
               fate' \in [Messages -> [name: Names, is: {"unborn", "moving"} \cup Settled]]
        PROVE  ManagerTypeOK'
    <3>1. /\ gang' \in Seq(Worker) /\ DOMAIN gang' = Workers /\ Len(gang') = Len(gang)
          /\ \A j \in Workers : Len(gang'[j].queue) <= QueueSize
      BY <2>1, ServedKeeps
    <3> QED BY <1>0, <2>1, <3>1 DEF WorkerOnly, ManagerTypeOK, Workers
  <2>2. fate \in [Messages -> [name: Names, is: {"unborn", "moving"} \cup Settled]]
    BY DEF ManagerTypeOK
  <2>3. ASSUME NEW m, NEW how \in Settled, Settle(m, how)
        PROVE  fate' \in [Messages -> [name: Names, is: {"unborn", "moving"} \cup Settled]]
    BY <2>3, SettleType
  <2>4. {"sent", "failed", "lost"} \subseteq Settled
    BY DEF Settled
  <2>5. CASE Take(i)
    BY <2>1, <2>2, <2>5, TakeServes DEF Take
  <2>6. CASE Leave(i)
    <3>1. fate' \in [Messages -> [name: Names, is: {"unborn", "moving"} \cup Settled]]
      BY <2>2, <2>4, <2>6 DEF Leave
    <3> QED BY <2>1, <2>6, <3>1, LeaveServes DEF Leave
  <2>7. CASE GiveUp(i)
    BY <2>1, <2>3, <2>4, <2>7, FreeServes DEF GiveUp
  <2>8. CASE Proceed(i)
    BY <2>1, <2>2, <2>8, ProceedServes DEF Proceed
  <2>9. ASSUME NEW result, ChannelSend(i, result)
        PROVE  ManagerTypeOK'
    <3>1. WorkerOnly
      BY <2>9 DEF ChannelSend
    <3>2. \/ /\ Free(i)
             /\ Settle(gang[i].msg, "sent") \/ Settle(gang[i].msg, "failed")
          \/ /\ Served(i, [gang[i] EXCEPT !.at = "pause", !.tries = gang[i].tries + 1])
             /\ UNCHANGED fate
      BY <2>9, SendServes
    <3> QED BY <2>1, <2>2, <2>3, <2>4, <3>1, <3>2, FreeServes
  <2> QED BY <1>5, <2>5, <2>6, <2>7, <2>8, <2>9 DEF Work
<1> QED BY <1>1, <1>2, <1>3, <1>4, <1>5 DEF Dispatch

-----------------------------------------------------------------------------
(* The messages while the manager's operations run.                          *)

(* An operation of the manager or of a reload's goroutine moves no message:  *)
(* it keeps the workers there are with their messages, and new ones have     *)
(* none; and it takes no name out of the history.                            *)
Still ==
    /\ UNCHANGED <<outbox, fate>>
    /\ dispatcher'.msg = dispatcher.msg /\ dispatcher'.worker = dispatcher.worker
    /\ Workers \subseteq DOMAIN gang'
    /\ \A j \in Workers : /\ gang'[j].name = gang[j].name /\ gang'[j].at = gang[j].at
                          /\ gang'[j].msg = gang[j].msg /\ gang'[j].queue = gang[j].queue
    /\ \A j \in DOMAIN gang' \ Workers :
          /\ gang'[j].msg = 0 /\ gang'[j].queue = <<>>
          /\ gang'[j].at = "select" /\ ~gang'[j].closed
    /\ \/ gateway = "starting"
       \/ /\ touched \subseteq touched' /\ touched \cup broken \subseteq touched' \cup broken'
          /\ task = 0 => task' = 0
          /\ gateway' = "running" => gateway = "running"

(* Then every message is where it was.                                       *)
LEMMA StillKeepsPlaces ==
    ASSUME ManagerInv, Still
    PROVE  InPlace' /\ InOrderOut'
<1>1. ASSUME NEW m \in Messages PROVE Ahead(m)' <=> Ahead(m)
  BY DEF Still, Ahead
<1>2. ASSUME NEW i \in Workers, NEW m \in Messages PROVE Holds(i, m)' <=> Holds(i, m)
  BY DEF Still, Holds
<1>3. ASSUME NEW i \in DOMAIN gang' \ Workers, NEW m \in Messages PROVE ~Holds(i, m)'
  BY DEF Still, Holds, Messages
<1>4. Workers' = DOMAIN gang' /\ Workers \subseteq Workers'
  BY DEF Workers, Still
<1>5. InPlace'
  <2>1. \A m \in Messages : fate[m].is = "moving" =>
           Ahead(m)' \/ \E i \in Workers' : Holds(i, m)'
    BY <1>1, <1>2, <1>4 DEF ManagerInv, InPlace
  <2>2. \A m \in Messages : Ahead(m)' => fate[m].is # "unborn"
    BY <1>1 DEF ManagerInv, InPlace
  <2>3. \A i \in Workers', m \in Messages : Holds(i, m)' =>
           fate[m].is # "unborn" /\ fate[m].name = gang'[i].name
    <3> SUFFICES ASSUME NEW i \in Workers', NEW m \in Messages, Holds(i, m)'
                 PROVE  fate[m].is # "unborn" /\ fate[m].name = gang'[i].name
      OBVIOUS
    <3>1. i \in Workers
      BY <1>3, <1>4
    <3> QED BY <1>2, <3>1 DEF ManagerInv, InPlace, Still
  <2>4. fate' = fate
    BY DEF Still
  <2> QED BY <2>1, <2>2, <2>3, <2>4 DEF InPlace
<1>6. InOrderOut'
  <2>1. \A i \in Workers', l, m \in Messages : Holds(i, l)' /\ Ahead(m)' => l < m
    <3> SUFFICES ASSUME NEW i \in Workers', NEW l \in Messages, NEW m \in Messages,
                        Holds(i, l)', Ahead(m)'
                 PROVE  l < m
      OBVIOUS
    <3>1. i \in Workers
      BY <1>3, <1>4
    <3> QED BY <1>1, <1>2, <3>1 DEF ManagerInv, InOrderOut
  <2>2. \A i \in Workers' : /\ Ascending(gang'[i].queue)
                            /\ \A k \in DOMAIN gang'[i].queue : gang'[i].msg < gang'[i].queue[k]
    <3>1. \A i \in Workers : gang'[i].queue = gang[i].queue /\ gang'[i].msg = gang[i].msg
      BY DEF Still
    <3>2. \A i \in DOMAIN gang' \ Workers : DOMAIN gang'[i].queue = {}
      BY DEF Still
    <3> QED BY <1>4, <3>1, <3>2 DEF ManagerInv, InOrderOut, Ascending
  <2>3. UNCHANGED <<outbox, fate>> /\ dispatcher'.msg = dispatcher.msg
    BY DEF Still
  <2> QED BY <2>1, <2>2, <2>3 DEF ManagerInv, InOrderOut, Ascending
<1> QED BY <1>5, <1>6

(* And what became of the messages still has its cause and its order.        *)
LEMMA StillKeepsOrder ==
    ASSUME ManagerInv, Still
    PROVE  DropHasCause' /\ SentInOrder'
<1>1. fate' = fate
  BY DEF Still
<1>2. CASE gateway = "starting"
  BY <1>1, <1>2 DEF ManagerInv, Lifecycle, BeforeStart, DropHasCause, SentInOrder, Settled
<1>3. CASE /\ touched \subseteq touched' /\ touched \cup broken \subseteq touched' \cup broken'
           /\ task = 0 => task' = 0
           /\ gateway' = "running" => gateway = "running"
  <2>1. DropHasCause'
    BY <1>1, <1>3 DEF ManagerInv, DropHasCause, Still
  <2>2. SentInOrder'
    BY <1>1, <1>3 DEF ManagerInv, SentInOrder, Still
  <2> QED BY <2>1, <2>2
<1> QED BY <1>2, <1>3 DEF Still

-----------------------------------------------------------------------------
(* The manager while messages move.                                          *)

(* A step with a message changes no more of the manager than a worker's own  *)
(* progress, unless it ends the process.                                     *)
Moving ==
    /\ UNCHANGED <<hashes, channels, halted, workers, task, cancelled, owner, deferred,
                   touched, broken, overtaken>>
    /\ gateway \notin {"starting", "crashed"} /\ gateway' \in {gateway, "crashed"}
    /\ DOMAIN gang' = Workers
    /\ \A j \in Workers : /\ gang'[j].name = gang[j].name
                          /\ gang'[j].object = gang[j].object
                          /\ gang'[j].ctx = gang[j].ctx
                          /\ gang'[j].closed = gang[j].closed
                          /\ gang'[j].at = "done" =>
                                gang[j].at = "done" \/ gang[j].closed \/ cancelled # {}

(* Then the objects, the untouched channels and the calls stay as they are.  *)
LEMMA MovingKeeps ==
    ASSUME ManagerInv, Moving
    PROVE  ObjectsInv' /\ Untouched' /\ Calls'
<1>1. gateway' = "running" => gateway = "running" /\ cancelled = {}
  BY DEF Moving, ManagerInv, Lifecycle
<1>2. ObjectsInv'
  BY <1>1 DEF ManagerInv, Moving, ObjectsInv
<1>3. workers \in [Names -> 0 .. Len(gang)] /\ Workers = 1 .. Len(gang) /\ Len(gang) \in Nat
  BY DEF ManagerInv, ManagerTypeOK, Workers
<1>4. \A n \in Names : workers[n] # 0 => workers[n] \in Workers
  BY <1>3
<1>5. Workers' = Workers
  BY DEF Moving, Workers
<1>6. Untouched'
  <2> SUFFICES ASSUME NEW n \in Names \ touched
               PROVE  /\ \A r \in Reloads : \A k \in DOMAIN deferred[r] : deferred[r][k].name # n
                      /\ \A i \in Workers : gang'[i].name = n => workers[n] = i
                      /\ gateway' = "running" =>
                            IF n \in broken THEN workers[n] = 0
                            ELSE /\ channels[n] = First(n) /\ workers[n] # 0
                                 /\ LET w == gang'[workers[n]]
                                    IN  w.object = First(n) /\ ~w.closed /\ w.at # "done"
    BY <1>5 DEF Untouched, Moving
  <2>1. /\ \A r \in Reloads : \A k \in DOMAIN deferred[r] : deferred[r][k].name # n
        /\ \A i \in Workers : gang'[i].name = n => workers[n] = i
    BY DEF ManagerInv, Untouched, Moving
  <2>2. ASSUME gateway' = "running"
        PROVE  IF n \in broken THEN workers[n] = 0
               ELSE /\ channels[n] = First(n) /\ workers[n] # 0
                    /\ LET w == gang'[workers[n]]
                       IN  w.object = First(n) /\ ~w.closed /\ w.at # "done"
    BY <1>1, <1>4, <2>2 DEF ManagerInv, Untouched, Moving
  <2> QED BY <2>1, <2>2
<1>7. Calls'
  <2>1. \A n \in Names : workers[n] # 0 => gang'[workers[n]].closed = gang[workers[n]].closed
    BY <1>4 DEF Moving
  <2>2. \A r \in Reloads : Awaited(r)' = Awaited(r)
    BY DEF Moving, Awaited
  <2>3. gateway = "running" => ClosedIsOwned' /\ MissingHasCause'
    BY <2>1, <2>2 DEF ManagerInv, Calls, ClosedIsOwned, MissingHasCause, Moving
  <2>4. ASSUME NEW r \in Reloads, NEW k \in DOMAIN deferred[r], Follows(r, k)
        PROVE  Follows(r, k)'
    BY <2>4 DEF Follows, Moving
  <2> QED BY <1>1, <2>3, <2>4 DEF ManagerInv, Calls, Moving
<1> QED BY <1>2, <1>6, <1>7

-----------------------------------------------------------------------------
(* The order of the messages.                                                *)

(* The first objects of two names differ.                                    *)
LEMMA FirstIsSmall ==
    ASSUME ManagerAssumption
    PROVE  /\ \A n \in Names : First(n) \in 1 .. Made
           /\ \A a, b \in Names : First(a) = First(b) => a = b
<1>1. 1 \in Int /\ IsFiniteSet(Names)
  BY DEF ManagerAssumption
<1>2. /\ Cardinality(Names) \in Nat
      /\ Numbered(Names, 1) \in [Names -> 1 .. 1 + Cardinality(Names) - 1]
      /\ \A a, b \in Names : Numbered(Names, 1)[a] = Numbered(Names, 1)[b] => a = b
  BY <1>1, NumberedCounts
<1>3. 1 .. 1 + Cardinality(Names) - 1 = 1 .. Cardinality(Names)
  BY <1>2
<1> QED BY <1>2, <1>3 DEF First, Made

(* Messages only leave places, or go from one to the next.                   *)
LEMMA PlacesFollow ==
    ASSUME ManagerInv, DOMAIN gang' = Workers,
           \A i \in Workers : gang'[i].name = gang[i].name,
           \A m \in Messages : Ahead(m)' => Ahead(m),
           \A i \in Workers, m \in Messages : Holds(i, m)' => Holds(i, m),
           \A m \in Messages : fate'[m].is = "moving" =>
              fate[m].is = "moving" /\ (Ahead(m)' \/ \E i \in Workers : Holds(i, m)'),
           \A m \in Messages : fate'[m].name = fate[m].name
                               /\ (fate'[m].is = "unborn" <=> fate[m].is = "unborn"),
           Ascending(outbox'), \A k \in DOMAIN outbox' : dispatcher'.msg < outbox'[k],
           \A i \in Workers : /\ Ascending(gang'[i].queue)
                              /\ \A k \in DOMAIN gang'[i].queue : gang'[i].msg < gang'[i].queue[k]
    PROVE  InPlace' /\ InOrderOut'
<1>1. Workers' = Workers
  BY DEF Workers
<1>2. InPlace'
  <2>1. \A m \in Messages : fate'[m].is = "moving" =>
           Ahead(m)' \/ \E i \in Workers' : Holds(i, m)'
    BY <1>1
  <2>2. \A m \in Messages : Ahead(m)' => fate'[m].is # "unborn"
    BY DEF ManagerInv, InPlace
  <2>3. \A i \in Workers', m \in Messages : Holds(i, m)' =>
           fate'[m].is # "unborn" /\ fate'[m].name = gang'[i].name
    BY <1>1 DEF ManagerInv, InPlace
  <2> QED BY <2>1, <2>2, <2>3 DEF InPlace
<1>3. InOrderOut'
  <2>1. \A l, m \in Messages : l < m /\ fate'[l].is = "unborn" => fate'[m].is = "unborn"
    BY DEF ManagerInv, InOrderOut
  <2>2. \A i \in Workers', l, m \in Messages : Holds(i, l)' /\ Ahead(m)' => l < m
    BY <1>1 DEF ManagerInv, InOrderOut
  <2>3. Ascending(outbox)'
    BY DEF Ascending
  <2>4. \A i \in Workers' : Ascending(gang[i].queue)'
    BY <1>1 DEF Ascending
  <2> QED BY <1>1, <2>1, <2>2, <2>3, <2>4 DEF InOrderOut
<1> QED BY <1>2, <1>3

(* While the manager runs, a message that a worker is sending, or that the   *)
(* dispatcher has in hand without a worker to give it to, is the first of    *)
(* its channel that is under way, unless a reload touched the channel.       *)
LEMMA OthersSettled ==
    ASSUME ManagerAssumption, ManagerInv, gateway = "running", NEW m \in Messages,
           fate[m].name \notin touched,
           \/ \E i \in Workers : gang[i].msg = m
           \/ /\ dispatcher.msg = m
              /\ channels[fate[m].name] = 0 \/ workers[fate[m].name] = 0,
           NEW k \in Messages, k < m, fate[k].name = fate[m].name
    PROVE  fate[k].is \in Settled
<1> DEFINE n == fate[m].name
<1>0. /\ NumOut \in Nat /\ Messages = 1 .. NumOut /\ n \in Names /\ Workers \subseteq Nat \ {0}
      /\ fate[k].is \in {"unborn", "moving"} \cup Settled
      /\ outbox \in Seq(Messages)
  <2>1. /\ fate[m] \in [name: Names, is: {"unborn", "moving"} \cup Settled]
        /\ fate[k] \in [name: Names, is: {"unborn", "moving"} \cup Settled]
        /\ gang \in Seq(Worker) /\ outbox \in Seq(Messages)
    BY DEF ManagerInv, ManagerTypeOK
  <2>2. Workers = 1 .. Len(gang)
    BY <2>1 DEF Workers
  <2> QED BY <2>1, <2>2 DEF ManagerAssumption, Messages
<1>1. fate[m].is # "unborn"
  BY DEF ManagerInv, InPlace, Holds, Ahead
<1>2. fate[k].is # "unborn"
  BY <1>1 DEF ManagerInv, InOrderOut
<1>3. \A i \in Workers : gang[i].name = n => workers[n] = i
  BY <1>0 DEF ManagerInv, Untouched
<1>4. SUFFICES ASSUME fate[k].is = "moving" PROVE FALSE
  BY <1>0, <1>2
<1>5. Ahead(k) \/ \E j \in Workers : Holds(j, k)
  BY <1>4 DEF ManagerInv, InPlace
<1>6. \A j \in Workers : Holds(j, k) => workers[n] = j
  BY <1>3 DEF ManagerInv, InPlace
<1>7. ASSUME NEW i \in Workers, gang[i].msg = m
      PROVE  FALSE
  <2>1. Holds(i, m) /\ workers[n] = i
    BY <1>3, <1>7 DEF Holds, ManagerInv, InPlace
  <2>2. ~Ahead(k)
    BY <1>0, <2>1 DEF ManagerInv, InOrderOut
  <2>3. Holds(i, k)
    BY <1>5, <1>6, <2>1, <2>2
  <2>4. PICK x \in DOMAIN gang[i].queue : gang[i].queue[x] = k
    BY <1>0, <1>7, <2>3 DEF Holds
  <2>5. m < k
    BY <1>7, <2>4 DEF ManagerInv, InOrderOut
  <2> QED BY <1>0, <2>5
<1>8. ASSUME dispatcher.msg = m, channels[n] = 0 \/ workers[n] = 0
      PROVE  FALSE
  <2>1. workers[n] = 0
    BY <1>0, <1>8, FirstIsSmall DEF ManagerInv, Untouched
  <2>2. \A j \in Workers : ~Holds(j, k)
    BY <1>0, <1>6, <2>1
  <2>3. Ahead(k)
    BY <1>5, <2>2
  <2>4. PICK x \in DOMAIN outbox : outbox[x] = k
    BY <1>0, <1>8, <2>3 DEF Ahead
  <2>5. m < k
    BY <1>8, <2>4 DEF ManagerInv, InOrderOut
  <2> QED BY <1>0, <2>5
<1> QED BY <1>7, <1>8

(* A message is settled in its turn, and without a send only for a cause.    *)
LEMMA SettledInTurn ==
    ASSUME ManagerAssumption, ManagerInv, UNCHANGED <<touched, broken, task>>,
           gateway' = "running" => gateway = "running",
           NEW m \in Messages, NEW how \in Settled, Settle(m, how),
           how \in {"lost", "skipped"} => fate[m].name \in touched \cup broken \/ task = 0,
           \/ \E i \in Workers : gang[i].msg = m
           \/ task = 0
           \/ /\ dispatcher.msg = m
              /\ channels[fate[m].name] = 0 \/ workers[fate[m].name] = 0
    PROVE  DropHasCause' /\ SentInOrder'
<1>1. /\ \A l \in Messages : fate'[l].name = fate[l].name
      /\ \A l \in Messages \ {m} : fate'[l].is = fate[l].is
      /\ fate'[m].is = how
  BY DEF Settle, ManagerInv, ManagerTypeOK
<1>2. DropHasCause'
  <2> SUFFICES ASSUME NEW l \in Messages, fate'[l].is \in {"lost", "skipped"}
               PROVE  fate'[l].name \in touched \cup broken \/ task = 0
    BY DEF DropHasCause
  <2>1. CASE l = m
    BY <1>1, <2>1
  <2>2. CASE l # m
    BY <1>1, <2>2 DEF ManagerInv, DropHasCause
  <2> QED BY <2>1, <2>2
<1>3. SentInOrder'
  <2> SUFFICES ASSUME gateway = "running", NEW k \in Messages, NEW l \in Messages, k < l,
                      fate[k].name = fate[l].name, fate[l].name \notin touched,
                      fate'[l].is \in Settled
               PROVE  fate'[k].is \in Settled
    BY <1>1 DEF SentInOrder
  <2>1. CASE l = m
    <3>1. task # 0
      BY DEF ManagerInv, Lifecycle
    <3>2. fate[k].is \in Settled
      BY <2>1, <3>1, OthersSettled
    <3> QED BY <1>1, <3>2
  <2>2. CASE l # m
    BY <1>1, <2>2 DEF ManagerInv, SentInOrder
  <2> QED BY <2>1, <2>2
<1> QED BY <1>2, <1>3

-----------------------------------------------------------------------------
(* The steps of the workers.                                                 *)

(* And so does the manager's life cycle.                                     *)
LEMMA MovingKeepsLife ==
    ASSUME ManagerInv, Moving, dispatcher'.at = "panicked" => gateway' = "crashed"
    PROVE  Lifecycle'
BY DEF ManagerInv, Lifecycle, BeforeStart, Moving

(* A worker's own step is one of those.                                      *)
LEMMA ServedMoves ==
    ASSUME ManagerInv, NEW i \in Workers, NEW w, Served(i, w), WorkerOnly,
           gateway # "crashed", w.at = "done" => gang[i].closed \/ cancelled # {},
           w.msg # 0 <=> w.at \in {"limit", "send", "pause"},
           \A m \in Messages : fate'[m].name = fate[m].name
    PROVE  Moving /\ Lifecycle' /\ Holders' /\ CrashHasCause'
<1>1. /\ DOMAIN gang' = Workers /\ gang'[i] = w /\ \A j \in Workers \ {i} : gang'[j] = gang[j]
      /\ \A j \in Workers : /\ gang'[j].name = gang[j].name
                            /\ gang'[j].object = gang[j].object
                            /\ gang'[j].ctx = gang[j].ctx
                            /\ gang'[j].closed = gang[j].closed
  BY ServedKeeps DEF ManagerInv
<1>2. gateway # "starting"
  BY DEF ManagerInv, Lifecycle, BeforeStart, Workers
<1>3. Moving
  BY <1>1, <1>2 DEF WorkerOnly, Moving
<1>4. Lifecycle'
  BY <1>3, MovingKeepsLife DEF ManagerInv, Lifecycle, WorkerOnly
<1>5. Holders'
  <2>1. /\ dispatcher \in [at: {"off", "receive", "look", "put", "over", "panicked"},
                           msg: 0 .. NumOut, worker: 0 .. Len(gang)]
        /\ gang \in Seq(Worker) /\ Workers = 1 .. Len(gang)
        /\ workers \in [Names -> 0 .. Len(gang)]
    BY DEF ManagerInv, ManagerTypeOK, Workers
  <2>2. dispatcher' = dispatcher /\ workers' = workers /\ owner' = owner /\ deferred' = deferred
        /\ task' = task /\ touched' = touched
    BY DEF WorkerOnly
  <2>3. Workers' = Workers
    BY <1>1 DEF Workers
  <2>4. dispatcher.at = "put" => /\ dispatcher.worker # 0
                                 /\ gang'[dispatcher.worker].name = fate'[dispatcher.msg].name
    <3> HAVE dispatcher.at = "put"
    <3>1. dispatcher.msg \in Messages /\ dispatcher.worker \in Workers
      BY <2>1 DEF ManagerInv, Holders, Messages
    <3> QED BY <1>1, <3>1 DEF ManagerInv, Holders
  <2>5. \A n \in Names : workers[n] # 0 => gang'[workers[n]].name = n
    BY <1>1, <2>1 DEF ManagerInv, Holders
  <2>6. \A j \in Workers : /\ gang'[j].msg # 0 <=> gang'[j].at \in {"limit", "send", "pause"}
                           /\ gang'[j].closed => task = 0 \/ gang'[j].name \in touched
    BY <1>1 DEF ManagerInv, Holders
  <2> QED BY <2>2, <2>3, <2>4, <2>5, <2>6 DEF ManagerInv, Holders
<1>6. CrashHasCause'
  BY DEF WorkerOnly, CrashHasCause
<1> QED BY <1>3, <1>4, <1>5, <1>6

LEMMA ServedPlaces ==
    ASSUME ManagerInv, NEW i \in Workers, NEW w, Served(i, w), WorkerOnly,
           \A m \in Messages : (w.msg = m \/ \E k \in DOMAIN w.queue : w.queue[k] = m) =>
              Holds(i, m),
           \A m \in Messages : Holds(i, m) /\ fate'[m].is = "moving" =>
              w.msg = m \/ \E k \in DOMAIN w.queue : w.queue[k] = m,
           \A m \in Messages : /\ fate'[m].name = fate[m].name
                               /\ fate'[m].is = "unborn" <=> fate[m].is = "unborn"
                               /\ fate'[m].is = "moving" => fate[m].is = "moving",
           Ascending(w.queue), \A k \in DOMAIN w.queue : w.msg < w.queue[k]
    PROVE  InPlace' /\ InOrderOut'
<1>1. /\ DOMAIN gang' = Workers /\ gang'[i] = w /\ \A j \in Workers \ {i} : gang'[j] = gang[j]
      /\ \A j \in Workers : gang'[j].name = gang[j].name
  BY ServedKeeps DEF ManagerInv
<1>2. \A m \in Messages : Ahead(m)' <=> Ahead(m)
  BY DEF WorkerOnly, Ahead
<1>3. \A j \in Workers, m \in Messages : Holds(j, m)' => Holds(j, m)
  BY <1>1 DEF Holds
<1>4. ASSUME NEW m \in Messages, fate'[m].is = "moving"
      PROVE  fate[m].is = "moving" /\ (Ahead(m)' \/ \E j \in Workers : Holds(j, m)')
  <2>1. fate[m].is = "moving"
    BY <1>4
  <2>2. ASSUME NEW j \in Workers, Holds(j, m)
        PROVE  Holds(j, m)'
    <3>1. CASE j = i
      BY <1>1, <1>4, <2>2, <3>1 DEF Holds
    <3>2. CASE j # i
      BY <1>1, <2>2, <3>2 DEF Holds
    <3> QED BY <3>1, <3>2
  <2> QED BY <1>2, <2>1, <2>2 DEF ManagerInv, InPlace
<1>5. outbox' = outbox /\ dispatcher' = dispatcher
  BY DEF WorkerOnly
<1>6. \A j \in Workers : /\ Ascending(gang'[j].queue)
                         /\ \A k \in DOMAIN gang'[j].queue : gang'[j].msg < gang'[j].queue[k]
  BY <1>1 DEF ManagerInv, InOrderOut
<1>7. Ascending(outbox') /\ \A k \in DOMAIN outbox' : dispatcher'.msg < outbox'[k]
  BY <1>5 DEF ManagerInv, InOrderOut
<1> QED BY <1>1, <1>2, <1>3, <1>4, <1>6, <1>7, PlacesFollow

(* A worker takes the next message of its queue.                             *)
LEMMA TakeKeeps ==
    ASSUME ManagerAssumption, ManagerInv, NEW i \in Workers, Take(i)
    PROVE  ManagerInv'
<1> DEFINE q == gang[i].queue  w == [gang[i] EXCEPT !.at = "limit", !.msg = Head(q),
                                                    !.queue = Tail(q)]
<1>1. Served(i, w) /\ WorkerOnly /\ fate' = fate /\ gateway # "crashed"
      /\ gang[i].at = "select" /\ q # <<>>
  BY TakeServes DEF ManagerInv, Take
<1>2. gang[i] \in Worker /\ q \in Seq(Messages) /\ Messages \subseteq Nat \ {0}
  <2>1. gang[i] \in Worker
    BY DEF ManagerInv, ManagerTypeOK, Workers
  <2> QED BY <2>1 DEF Worker, Messages
<1>3. w.at = "limit" /\ w.msg = Head(q) /\ w.queue = Tail(q)
  BY <1>2 DEF Worker
<1>4. Len(q) \in Nat \ {0} /\ DOMAIN q = 1 .. Len(q) /\ Head(q) = q[1] /\ q[1] \in Messages
      /\ Len(Tail(q)) = Len(q) - 1 /\ DOMAIN Tail(q) = 1 .. Len(q) - 1
      /\ \A k \in 1 .. Len(q) - 1 : Tail(q)[k] = q[k + 1]
  BY <1>1, <1>2
<1> HIDE DEF w, q
<1>5. ManagerTypeOK'
  BY TrafficKeepsType DEF ManagerInv, Work
<1>6. Moving /\ Lifecycle' /\ Holders' /\ CrashHasCause'
  BY <1>1, <1>2, <1>3, <1>4, ServedMoves
<1>7. InPlace' /\ InOrderOut'
  <2>1. \A j, k \in DOMAIN q : j < k => q[j] < q[k]
    BY DEF ManagerInv, InOrderOut, Ascending, q
  <2>2. \A m \in Messages : Holds(i, m) <=> \E k \in DOMAIN q : q[k] = m
    BY <1>1, <1>2 DEF ManagerInv, Holders, Holds, q
  <2>3. ASSUME NEW m \in Messages
        PROVE  (w.msg = m \/ \E k \in DOMAIN w.queue : w.queue[k] = m) => Holds(i, m)
    BY <1>3, <1>4, <2>2
  <2>4. ASSUME NEW m \in Messages, Holds(i, m)
        PROVE  w.msg = m \/ \E k \in DOMAIN w.queue : w.queue[k] = m
    <3>1. PICK k \in DOMAIN q : q[k] = m
      BY <2>2, <2>4
    <3>2. CASE k = 1
      BY <1>3, <1>4, <3>1, <3>2
    <3>3. CASE k # 1
      <4>1. k - 1 \in 1 .. Len(q) - 1 /\ (k - 1) + 1 = k
        BY <1>4, <3>3
      <4> QED BY <1>3, <1>4, <3>1, <4>1
    <3> QED BY <3>2, <3>3
  <2>5. Ascending(w.queue) /\ \A k \in DOMAIN w.queue : w.msg < w.queue[k]
    BY <1>3, <1>4, <2>1 DEF Ascending
  <2> QED BY <1>1, <2>3, <2>4, <2>5, ServedPlaces
<1>8. DropHasCause' /\ SentInOrder'
  BY <1>1 DEF WorkerOnly, ManagerInv, DropHasCause, SentInOrder
<1> QED BY <1>5, <1>6, <1>7, <1>8, MovingKeeps DEF ManagerInv

(* A worker returns, with what is in its queue after a cancellation.         *)
LEMMA LeaveKeeps ==
    ASSUME ManagerAssumption, ManagerInv, NEW i \in Workers, Leave(i)
    PROVE  ManagerInv'
<1> DEFINE w == [gang[i] EXCEPT !.at = "done"]
           dropped(m) == \E k \in 1 .. Len(gang[i].queue) : gang[i].queue[k] = m
<1>1. /\ Served(i, w) /\ WorkerOnly /\ gateway # "crashed" /\ gang[i].at = "select"
      /\ (gang[i].closed /\ gang[i].queue = <<>>) \/ gang[i].ctx \in cancelled
      /\ fate' = [m \in Messages |-> IF dropped(m) THEN [fate[m] EXCEPT !.is = "lost"]
                                                   ELSE fate[m]]
  BY LeaveServes DEF ManagerInv, Leave
<1>2. gang[i] \in Worker
  BY DEF ManagerInv, ManagerTypeOK, Workers
<1>3. w.at = "done" /\ w.msg = gang[i].msg /\ w.queue = gang[i].queue
      /\ gang[i].queue \in Seq(Messages)
  BY <1>2 DEF Worker
<1>4. gang[i].msg = 0
  BY <1>1 DEF ManagerInv, Holders
<1> HIDE DEF w
<1>5. ManagerTypeOK'
  BY TrafficKeepsType DEF ManagerInv, Work
<1>6. ASSUME NEW m \in Messages
      PROVE  /\ fate'[m].name = fate[m].name
             /\ fate'[m].is = IF dropped(m) THEN "lost" ELSE fate[m].is
  <2>1. fate[m] \in [name: Names, is: {"unborn", "moving"} \cup Settled]
    BY DEF ManagerInv, ManagerTypeOK
  <2> HIDE DEF dropped
  <2> QED BY <1>1, <2>1
<1>7. \A m \in Messages : dropped(m) => fate[m].is # "unborn"
  <2> SUFFICES ASSUME NEW m \in Messages, dropped(m) PROVE fate[m].is # "unborn"
    OBVIOUS
  <2>1. Holds(i, m)
    BY <1>3 DEF Holds
  <2> QED BY <2>1 DEF ManagerInv, InPlace
<1> HIDE DEF dropped
<1>8. Moving /\ Lifecycle' /\ Holders' /\ CrashHasCause'
  <2>1. w.at = "done" => gang[i].closed \/ cancelled # {}
    BY <1>1
  <2>2. w.msg # 0 <=> w.at \in {"limit", "send", "pause"}
    BY <1>3, <1>4
  <2>3. \A m \in Messages : fate'[m].name = fate[m].name
    BY <1>6
  <2> QED BY <1>1, <2>1, <2>2, <2>3, ServedMoves
<1>9. InPlace' /\ InOrderOut'
  <2>1. \A m \in Messages : Holds(i, m) <=>
           (w.msg = m \/ \E k \in DOMAIN w.queue : w.queue[k] = m)
    BY <1>3 DEF Holds
  <2>2. ASSUME NEW m \in Messages
        PROVE  /\ fate'[m].name = fate[m].name
               /\ fate'[m].is = "unborn" <=> fate[m].is = "unborn"
               /\ fate'[m].is = "moving" => fate[m].is = "moving"
    BY <1>6, <1>7
  <2>3. Ascending(w.queue) /\ \A k \in DOMAIN w.queue : w.msg < w.queue[k]
    BY <1>3 DEF ManagerInv, InOrderOut
  <2> QED BY <1>1, <2>1, <2>2, <2>3, ServedPlaces
<1>10. DropHasCause' /\ SentInOrder'
  <2>1. UNCHANGED <<touched, broken, task, gateway>>
    BY <1>1 DEF WorkerOnly
  <2>2. CASE gang[i].queue = <<>>
    <3>1. \A m \in Messages : fate'[m].name = fate[m].name /\ fate'[m].is = fate[m].is
      BY <1>6, <2>2 DEF dropped
    <3> QED BY <2>1, <3>1 DEF ManagerInv, DropHasCause, SentInOrder
  <2>3. CASE gang[i].ctx \in cancelled
    <3>1. task = 0 /\ gateway # "running"
      BY <2>3 DEF ManagerInv, Lifecycle
    <3> QED BY <2>1, <3>1 DEF DropHasCause, SentInOrder
  <2> QED BY <1>1, <2>2, <2>3
<1> QED BY <1>5, <1>8, <1>9, <1>10, MovingKeeps DEF ManagerInv

(* A worker is free again when its message is settled.                       *)
LEMMA FreeKeeps ==
    ASSUME ManagerAssumption, ManagerInv, NEW i \in Workers, Free(i), WorkerOnly,
           ManagerTypeOK', gateway # "crashed", gang[i].at \in {"limit", "pause", "send"},
           NEW how \in Settled, Settle(gang[i].msg, how),
           how \in {"lost", "skipped"} => cancelled # {}
    PROVE  ManagerInv'
<1> DEFINE w == [gang[i] EXCEPT !.at = "select", !.msg = 0, !.tries = 0]  s == gang[i].msg
<1>1. Served(i, w)
  BY FreeServes DEF ManagerInv
<1>2. gang[i] \in Worker /\ NumOut \in Nat
  BY SMTT(30) DEF ManagerInv, ManagerTypeOK, Workers, ManagerAssumption
<1>3. w.at = "select" /\ w.msg = 0 /\ w.queue = gang[i].queue /\ w.queue \in Seq(Messages)
  BY <1>2 DEF Worker
<1>4. s \in Messages /\ Holds(i, s)
  BY <1>2 DEF ManagerInv, Holders, Holds, Worker, Messages
<1> HIDE DEF w
<1>5. ASSUME NEW m \in Messages
      PROVE  fate'[m].name = fate[m].name /\ fate'[m].is = IF m = s THEN how ELSE fate[m].is
  BY <1>4 DEF Settle, ManagerInv, ManagerTypeOK
<1> HIDE DEF s
<1>6. Moving /\ Lifecycle' /\ Holders' /\ CrashHasCause'
  <2>1. w.msg # 0 <=> w.at \in {"limit", "send", "pause"}
    BY <1>3
  <2>2. w.at # "done"
    BY <1>3
  <2> QED BY <1>1, <1>5, <2>1, <2>2, ServedMoves
<1>7. InPlace' /\ InOrderOut'
  <2>1. \A m \in Messages : (w.msg = m \/ \E k \in DOMAIN w.queue : w.queue[k] = m) =>
           Holds(i, m)
    BY <1>2, <1>3 DEF Holds, Messages
  <2>2. ASSUME NEW m \in Messages, Holds(i, m), fate'[m].is = "moving"
        PROVE  \E k \in DOMAIN w.queue : w.queue[k] = m
    <3>1. m # s
      BY <1>5, <2>2 DEF Settled
    <3> QED BY <1>3, <2>2, <3>1 DEF Holds, s
  <2>3. ASSUME NEW m \in Messages
        PROVE  /\ fate'[m].name = fate[m].name
               /\ fate'[m].is = "unborn" <=> fate[m].is = "unborn"
               /\ fate'[m].is = "moving" => fate[m].is = "moving"
    BY <1>4, <1>5 DEF ManagerInv, InPlace, Settled
  <2>4. Ascending(w.queue)
    BY <1>3 DEF ManagerInv, InOrderOut
  <2>5. \A k \in DOMAIN w.queue : w.msg < w.queue[k]
    <3>1. \A k \in DOMAIN w.queue : w.queue[k] \in Messages
      BY <1>3
    <3> QED BY <1>2, <1>3, <3>1 DEF Messages
  <2> QED BY <1>1, <2>1, <2>2, <2>3, <2>4, <2>5, ServedPlaces
<1>8. DropHasCause' /\ SentInOrder'
  <2>1. UNCHANGED <<touched, broken, task, gateway>>
    BY DEF WorkerOnly
  <2>2. how \in {"lost", "skipped"} => task = 0
    BY DEF ManagerInv, Lifecycle
  <2>3. Settle(s, how) /\ gang[i].msg = s
    BY DEF s
  <2> QED BY <1>4, <2>1, <2>2, <2>3, SettledInTurn
<1> QED BY <1>6, <1>7, <1>8, MovingKeeps DEF ManagerInv

(* A worker that goes on with its message.                                   *)
LEMMA GoOnKeeps ==
    ASSUME ManagerAssumption, ManagerInv, NEW i \in Workers, NEW w, Served(i, w), WorkerOnly,
           ManagerTypeOK', gateway # "crashed", UNCHANGED fate,
           gang[i].at \in {"limit", "pause", "send"}, w.at \in {"pause", "send"},
           w.msg = gang[i].msg, w.queue = gang[i].queue
    PROVE  ManagerInv'
<1>1. Moving /\ Lifecycle' /\ Holders' /\ CrashHasCause'
  <2>1. w.msg # 0 <=> w.at \in {"limit", "send", "pause"}
    BY DEF ManagerInv, Holders
  <2> QED BY <2>1, ServedMoves
<1>2. InPlace' /\ InOrderOut'
  <2>1. \A m \in Messages : Holds(i, m) <=>
           (w.msg = m \/ \E k \in DOMAIN w.queue : w.queue[k] = m)
    BY DEF Holds
  <2>2. Ascending(w.queue) /\ \A k \in DOMAIN w.queue : w.msg < w.queue[k]
    BY DEF ManagerInv, InOrderOut
  <2> QED BY <2>1, <2>2, ServedPlaces
<1>3. DropHasCause' /\ SentInOrder'
  BY DEF WorkerOnly, ManagerInv, DropHasCause, SentInOrder
<1> QED BY <1>1, <1>2, <1>3, MovingKeeps DEF ManagerInv

(* Any step of a worker keeps the invariant.                                 *)
LEMMA WorkKeeps ==
    ASSUME ManagerAssumption, ManagerInv, NEW i \in Workers, Work(i)
    PROVE  ManagerInv'
<1>1. ManagerTypeOK' /\ gang[i] \in Worker
  <2>1. ManagerTypeOK'
    BY TrafficKeepsType DEF ManagerInv
  <2>2. gang[i] \in Worker
    BY DEF ManagerInv, ManagerTypeOK, Workers
  <2> QED BY <2>1, <2>2
<1>2. CASE Take(i)
  BY <1>2, TakeKeeps
<1>3. CASE Leave(i)
  BY <1>3, LeaveKeeps
<1>4. CASE GiveUp(i)
  BY <1>1, <1>4, FreeKeeps DEF GiveUp, Settled
<1>5. CASE Proceed(i)
  <2> DEFINE w == [gang[i] EXCEPT !.at = "send"]
  <2>1. w.at = "send" /\ w.msg = gang[i].msg /\ w.queue = gang[i].queue
    BY <1>1 DEF Worker
  <2>2. Served(i, w)
    BY <1>5, ProceedServes DEF ManagerInv
  <2> HIDE DEF w
  <2> QED BY <1>1, <1>5, <2>1, <2>2, GoOnKeeps DEF Proceed
<1>6. ASSUME NEW result, ChannelSend(i, result)
      PROVE  ManagerInv'
  <2> DEFINE w == [gang[i] EXCEPT !.at = "pause", !.tries = gang[i].tries + 1]
  <2>1. WorkerOnly /\ gateway # "crashed" /\ gang[i].at = "send"
    BY <1>6 DEF ChannelSend
  <2>2. w.at = "pause" /\ w.msg = gang[i].msg /\ w.queue = gang[i].queue
    BY <1>1 DEF Worker
  <2>3. \/ /\ Free(i)
           /\ Settle(gang[i].msg, "sent") \/ Settle(gang[i].msg, "failed")
        \/ Served(i, w) /\ UNCHANGED fate
    BY <1>6, SendServes DEF ManagerInv
  <2> HIDE DEF w
  <2>4. "sent" \in Settled /\ "failed" \in Settled
    BY DEF Settled
  <2>5. CASE Free(i) /\ (Settle(gang[i].msg, "sent") \/ Settle(gang[i].msg, "failed"))
    BY <1>1, <2>1, <2>4, <2>5, FreeKeeps
  <2>6. CASE Served(i, w) /\ UNCHANGED fate
    BY <1>1, <2>1, <2>2, <2>6, GoOnKeeps
  <2> QED BY <2>3, <2>5, <2>6
<1> QED BY <1>2, <1>3, <1>4, <1>5, <1>6 DEF Work

-----------------------------------------------------------------------------
(* The steps of the dispatcher and of those who publish.                     *)

(* What the dispatcher has in its hands.                                     *)
LEMMA HandsFacts ==
    ASSUME ManagerAssumption, ManagerInv
    PROVE  /\ dispatcher \in [at: {"off", "receive", "look", "put", "over", "panicked"},
                              msg: 0 .. NumOut, worker: 0 .. Len(gang)]
           /\ dispatcher.msg # 0 => dispatcher.msg \in Messages
           /\ dispatcher.worker # 0 => dispatcher.worker \in Workers
           /\ \A n \in Names : workers[n] # 0 => workers[n] \in Workers
           /\ outbox \in Seq(Messages) /\ Messages \subseteq Nat \ {0}
           /\ \A m \in Messages : fate[m] \in [name: Names, is: {"unborn", "moving"} \cup Settled]
<1>1. gang \in Seq(Worker) /\ Workers = 1 .. Len(gang) /\ Messages = 1 .. NumOut /\ NumOut \in Nat
      /\ Len(gang) \in Nat
  BY DEF ManagerInv, ManagerTypeOK, Workers, Messages, ManagerAssumption
<1>2. /\ dispatcher \in [at: {"off", "receive", "look", "put", "over", "panicked"},
                         msg: 0 .. NumOut, worker: 0 .. Len(gang)]
      /\ workers \in [Names -> 0 .. Len(gang)] /\ outbox \in Seq(Messages)
      /\ fate \in [Messages -> [name: Names, is: {"unborn", "moving"} \cup Settled]]
  BY DEF ManagerInv, ManagerTypeOK
<1>3. dispatcher.msg \in 0 .. NumOut /\ dispatcher.worker \in 0 .. Len(gang)
      /\ \A n \in Names : workers[n] \in 0 .. Len(gang)
  BY <1>2
<1> QED BY <1>1, <1>2, <1>3

(* What the dispatcher keeps when it leaves the workers as they are.         *)
LEMMA HandMoves ==
    ASSUME ManagerAssumption, ManagerInv,
           gateway \notin {"starting", "crashed"}, gateway' \in {gateway, "crashed"},
           UNCHANGED <<hashes, channels, halted, workers, gang, task, cancelled, owner,
                       deferred, touched, broken, overtaken>>,
           dispatcher'.at = "panicked" => gateway' = "crashed",
           dispatcher'.msg # 0 <=> dispatcher'.at \in {"look", "put", "panicked"},
           dispatcher'.at = "put" =>
              /\ dispatcher'.worker # 0
              /\ gang[dispatcher'.worker].name = fate'[dispatcher'.msg].name
    PROVE  Moving /\ Lifecycle' /\ Holders'
<1>1. Moving
  BY DEF Moving, Workers
<1>2. Lifecycle'
  BY <1>1, MovingKeepsLife
<1>3. Holders'
  BY DEF ManagerInv, Holders, Workers
<1> QED BY <1>1, <1>2, <1>3

(* The dispatcher takes the next message, or ends on a cancelled context.    *)
LEMMA ReceiveKeeps ==
    ASSUME ManagerAssumption, ManagerInv, Receive
    PROVE  ManagerInv'
<1>1. ManagerTypeOK'
  BY TrafficKeepsType DEF ManagerInv, Dispatch
<1>2. /\ gateway # "crashed" /\ dispatcher.at = "receive" /\ dispatcher.msg = 0
      /\ gateway # "starting"
      /\ UNCHANGED <<hashes, channels, halted, workers, gang, task, cancelled, fate, owner,
                     gateway, deferred, touched, broken, overtaken>>
  BY DEF Receive, ManagerInv, Holders, Lifecycle, BeforeStart
<1>3. CrashHasCause' /\ DropHasCause' /\ SentInOrder'
  BY <1>2 DEF CrashHasCause, ManagerInv, DropHasCause, SentInOrder
<1>4. \A i \in Workers, m \in Messages : Holds(i, m)' <=> Holds(i, m)
  BY <1>2 DEF Holds
<1>7. ASSUME \A m \in Messages : Ahead(m)' <=> Ahead(m), Ascending(outbox'),
             \A k \in DOMAIN outbox' : dispatcher'.msg < outbox'[k]
      PROVE  InPlace' /\ InOrderOut'
  <2>1. DOMAIN gang' = Workers /\ \A i \in Workers : gang'[i].name = gang[i].name
    BY <1>2 DEF Workers
  <2>2. \A m \in Messages : fate'[m].is = "moving" =>
           fate[m].is = "moving" /\ (Ahead(m)' \/ \E i \in Workers : Holds(i, m)')
    BY <1>2, <1>4, <1>7 DEF ManagerInv, InPlace
  <2>3. \A i \in Workers : /\ Ascending(gang'[i].queue)
                           /\ \A k \in DOMAIN gang'[i].queue : gang'[i].msg < gang'[i].queue[k]
    BY <1>2 DEF ManagerInv, InOrderOut
  <2>4. \A m \in Messages : fate'[m].name = fate[m].name
                            /\ (fate'[m].is = "unborn" <=> fate[m].is = "unborn")
    BY <1>2
  <2> QED BY <1>4, <1>7, <2>1, <2>2, <2>3, <2>4, PlacesFollow
<1>5. CASE dispatcher' = [dispatcher EXCEPT !.at = "over"] /\ UNCHANGED outbox
  <2>1. dispatcher'.at = "over" /\ dispatcher'.msg = 0
    BY <1>2, <1>5, HandsFacts
  <2>2. Moving /\ Lifecycle' /\ Holders'
    BY <1>2, <2>1, HandMoves
  <2>3. \A m \in Messages : Ahead(m)' <=> Ahead(m)
    BY <1>2, <1>5, <2>1 DEF Ahead
  <2>4. InPlace' /\ InOrderOut'
    <3>1. Ascending(outbox') /\ \A k \in DOMAIN outbox' : dispatcher'.msg < outbox'[k]
      BY <1>2, <1>5, <2>1 DEF ManagerInv, InOrderOut
    <3> QED BY <1>7, <2>3, <3>1
  <2> QED BY <1>1, <1>3, <2>2, <2>4, MovingKeeps DEF ManagerInv
<1>6. CASE /\ outbox # <<>> /\ outbox' = Tail(outbox)
           /\ dispatcher' = [dispatcher EXCEPT !.at = "look", !.msg = Head(outbox)]
  <2>1. dispatcher'.at = "look" /\ dispatcher'.msg = Head(outbox)
    BY <1>6, HandsFacts
  <2>2. /\ Len(outbox) \in Nat \ {0} /\ DOMAIN outbox = 1 .. Len(outbox)
        /\ Head(outbox) = outbox[1] /\ outbox[1] \in Messages
        /\ DOMAIN Tail(outbox) = 1 .. Len(outbox) - 1
        /\ \A k \in 1 .. Len(outbox) - 1 : Tail(outbox)[k] = outbox[k + 1]
    BY <1>6, HandsFacts
  <2>3. Moving /\ Lifecycle' /\ Holders'
    <3>1. dispatcher'.msg # 0
      BY <2>1, <2>2, HandsFacts
    <3> QED BY <1>2, <2>1, <3>1, HandMoves
  <2>4. ASSUME NEW m \in Messages PROVE Ahead(m)' <=> Ahead(m)
    <3>1. ASSUME NEW k \in DOMAIN outbox, outbox[k] = m PROVE Ahead(m)'
      <4>1. CASE k = 1
        BY <2>1, <2>2, <3>1, <4>1 DEF Ahead
      <4>2. CASE k # 1
        <5>1. k - 1 \in 1 .. Len(outbox) - 1 /\ (k - 1) + 1 = k
          BY <2>2, <4>2
        <5> QED BY <1>6, <2>2, <3>1, <5>1 DEF Ahead
      <4> QED BY <4>1, <4>2
    <3>2. dispatcher.msg # m
      BY <1>2, HandsFacts
    <3>3. ASSUME NEW k \in DOMAIN outbox', outbox'[k] = m PROVE Ahead(m)
      <4>1. k + 1 \in DOMAIN outbox /\ outbox[k + 1] = m
        BY <1>6, <2>2, <3>3
      <4> QED BY <4>1 DEF Ahead
    <3>4. dispatcher'.msg = m => Ahead(m)
      BY <2>1, <2>2 DEF Ahead
    <3> QED BY <3>1, <3>2, <3>3, <3>4 DEF Ahead
  <2>5. Ascending(outbox') /\ \A k \in DOMAIN outbox' : dispatcher'.msg < outbox'[k]
    BY <1>6, <2>1, <2>2 DEF ManagerInv, InOrderOut, Ascending
  <2>6. InPlace' /\ InOrderOut'
    BY <1>7, <2>4, <2>5
  <2> QED BY <1>1, <1>3, <2>3, <2>6, MovingKeeps DEF ManagerInv
<1> QED BY <1>5, <1>6 DEF Receive

(* The dispatcher lets go of a message it has settled.                       *)
LEMMA LetGoKeeps ==
    ASSUME ManagerAssumption, ManagerInv, ManagerTypeOK', gateway \notin {"starting", "crashed"},
           UNCHANGED <<hashes, channels, halted, workers, gang, task, cancelled, outbox, owner,
                       gateway, deferred, touched, broken, overtaken>>,
           dispatcher.msg \in Messages,
           NEW how \in Settled, Settle(dispatcher.msg, how),
           NEW a \in {"receive", "over"},
           dispatcher' = [at |-> a, msg |-> 0, worker |-> 0],
           how \in {"lost", "skipped"} =>
              fate[dispatcher.msg].name \in touched \cup broken \/ task = 0,
           task = 0 \/ channels[fate[dispatcher.msg].name] = 0
                    \/ workers[fate[dispatcher.msg].name] = 0
    PROVE  ManagerInv'
<1> DEFINE d == dispatcher.msg
<1>1. ASSUME NEW m \in Messages
      PROVE  fate'[m].name = fate[m].name /\ fate'[m].is = IF m = d THEN how ELSE fate[m].is
  BY HandsFacts DEF Settle, ManagerInv, ManagerTypeOK
<1>2. Moving /\ Lifecycle' /\ Holders'
  BY HandMoves
<1>3. CrashHasCause'
  BY DEF CrashHasCause
<1>4. DropHasCause' /\ SentInOrder'
  BY SettledInTurn
<1>5. \A i \in Workers, m \in Messages : Holds(i, m)' <=> Holds(i, m)
  BY DEF Holds
<1>6. ASSUME NEW m \in Messages PROVE Ahead(m)' => Ahead(m)
  BY HandsFacts DEF Ahead
<1>7. ASSUME NEW m \in Messages, Ahead(m), m # d PROVE Ahead(m)'
  BY <1>7 DEF Ahead
<1>8. Ahead(d)
  BY DEF Ahead
<1>9. \A m \in Messages : fate'[m].name = fate[m].name
                          /\ (fate'[m].is = "unborn" <=> fate[m].is = "unborn")
  BY <1>1, <1>8 DEF ManagerInv, InPlace, Settled
<1>10. \A m \in Messages : fate'[m].is = "moving" => fate[m].is = "moving" /\ m # d
  BY <1>1 DEF Settled
<1>11. Ascending(outbox') /\ \A k \in DOMAIN outbox' : dispatcher'.msg < outbox'[k]
  <2>1. \A k \in DOMAIN outbox : outbox[k] \in Nat \ {0}
    BY HandsFacts
  <2> QED BY <2>1 DEF ManagerInv, InOrderOut
<1> HIDE DEF d
<1>12. \A m \in Messages : fate'[m].is = "moving" =>
          fate[m].is = "moving" /\ (Ahead(m)' \/ \E i \in Workers : Holds(i, m)')
  BY <1>5, <1>7, <1>10 DEF ManagerInv, InPlace
<1>13. \A i \in Workers : /\ Ascending(gang'[i].queue)
                          /\ \A k \in DOMAIN gang'[i].queue : gang'[i].msg < gang'[i].queue[k]
  BY DEF ManagerInv, InOrderOut
<1>14. DOMAIN gang' = Workers /\ \A i \in Workers : gang'[i].name = gang[i].name
  BY DEF Workers
<1>15. InPlace' /\ InOrderOut'
  BY <1>5, <1>6, <1>9, <1>11, <1>12, <1>13, <1>14, PlacesFollow
<1> QED BY <1>2, <1>3, <1>4, <1>15, MovingKeeps DEF ManagerInv

(* The dispatcher finds the message's worker, or skips the message.          *)
LEMMA LookKeeps ==
    ASSUME ManagerAssumption, ManagerInv, Look
    PROVE  ManagerInv'
<1> DEFINE d == dispatcher.msg  n == fate[d].name
<1>1. ManagerTypeOK'
  BY TrafficKeepsType DEF ManagerInv, Dispatch
<1>2. /\ gateway # "crashed" /\ dispatcher.at = "look" /\ d \in Messages
      /\ gateway # "starting" /\ n \in Names
      /\ UNCHANGED <<hashes, channels, halted, workers, gang, task, cancelled, outbox, owner,
                     gateway, deferred, touched, broken, overtaken>>
  <2>1. dispatcher.at = "look" /\ d \in Messages
    BY HandsFacts DEF Look, ManagerInv, Holders
  <2> QED BY <2>1, HandsFacts DEF Look, ManagerInv, Lifecycle, BeforeStart
<1>3. CASE /\ channels[n] = 0 \/ workers[n] = 0
           /\ Settle(d, "skipped")
           /\ dispatcher' = [at |-> "receive", msg |-> 0, worker |-> 0]
  <2>1. n \in touched \cup broken \/ task = 0
    <3>1. CASE gateway = "running"
      BY <1>2, <1>3, <3>1, FirstIsSmall DEF ManagerInv, Untouched
    <3>2. CASE gateway # "running"
      BY <1>2, <3>2 DEF ManagerInv, Lifecycle
    <3> QED BY <3>1, <3>2
  <2>2. "skipped" \in Settled
    BY DEF Settled
  <2> QED BY <1>1, <1>2, <1>3, <2>1, <2>2, LetGoKeeps
<1>4. CASE /\ workers[n] # 0 /\ UNCHANGED fate
           /\ dispatcher' = [dispatcher EXCEPT !.at = "put", !.worker = workers[n]]
  <2>1. dispatcher'.at = "put" /\ dispatcher'.msg = d /\ dispatcher'.worker = workers[n]
    BY <1>4, HandsFacts
  <2>2. gang[workers[n]].name = n /\ d # 0
    BY <1>2, <1>4, HandsFacts DEF ManagerInv, Holders
  <2>3. Moving /\ Lifecycle' /\ Holders'
    BY <1>2, <1>4, <2>1, <2>2, HandMoves
  <2>4. \A m \in Messages : Ahead(m)' <=> Ahead(m)
    BY <1>2, <2>1 DEF Ahead
  <2>5. \A i \in Workers, m \in Messages : Holds(i, m)' <=> Holds(i, m)
    BY <1>2 DEF Holds
  <2>6. InPlace'
    BY <1>2, <1>4, <2>4, <2>5 DEF ManagerInv, InPlace, Workers
  <2>7. InOrderOut'
    BY <1>2, <1>4, <2>1, <2>4, <2>5 DEF ManagerInv, InOrderOut, Ascending, Workers
  <2>8. CrashHasCause' /\ DropHasCause' /\ SentInOrder'
    BY <1>2, <1>4 DEF CrashHasCause, ManagerInv, DropHasCause, SentInOrder
  <2> QED BY <1>1, <2>3, <2>6, <2>7, <2>8, MovingKeeps DEF ManagerInv
<1> QED BY <1>2, <1>3, <1>4 DEF Look

(* The dispatcher puts its message to a worker that has room for it.         *)
LEMMA PutOfKeeps ==
    ASSUME ManagerAssumption, ManagerInv, Put,
           NEW d \in Messages, d = dispatcher.msg, NEW w \in Workers, w = dispatcher.worker
    PROVE  ManagerInv'
<1>1. ManagerTypeOK'
  BY TrafficKeepsType DEF ManagerInv, Dispatch
<1>2. /\ gateway # "crashed" /\ dispatcher.at = "put"
      /\ gateway # "starting" /\ gang[w].name = fate[d].name
      /\ UNCHANGED <<hashes, channels, halted, workers, task, cancelled, outbox, owner,
                     deferred, touched, broken, overtaken>>
  <2>1. dispatcher.at = "put" /\ gang[w].name = fate[d].name
    BY HandsFacts DEF Put, ManagerInv, Holders
  <2> QED BY <2>1 DEF Put, ManagerInv, Lifecycle, BeforeStart
<1>3. CASE /\ Len(gang[w].queue) < QueueSize
           /\ gang' = [gang EXCEPT ![w].queue = Append(@, d)]
           /\ dispatcher' = [at |-> "receive", msg |-> 0, worker |-> 0]
           /\ UNCHANGED <<fate, gateway>>
  <2> DEFINE q == gang[w].queue  v == [gang[w] EXCEPT !.queue = Append(q, d)]
  <2>1. Served(w, v)
    BY <1>2, <1>3, PutServes DEF ManagerInv
  <2>2. gang[w] \in Worker
    BY <1>2 DEF ManagerInv, ManagerTypeOK, Workers
  <2>3. /\ v.at = gang[w].at /\ v.msg = gang[w].msg /\ v.queue = Append(q, d)
        /\ q \in Seq(Messages)
    BY <2>2 DEF Worker
  <2>4. /\ DOMAIN q = 1 .. Len(q) /\ Len(q) \in Nat /\ DOMAIN v.queue = 1 .. Len(q) + 1
        /\ v.queue[Len(q) + 1] = d /\ \A k \in 1 .. Len(q) : v.queue[k] = q[k]
    BY <1>2, <2>3
  <2> HIDE DEF v, q
  <2>5. /\ DOMAIN gang' = Workers /\ gang'[w] = v /\ \A j \in Workers \ {w} : gang'[j] = gang[j]
        /\ \A j \in Workers : /\ gang'[j].name = gang[j].name
                              /\ gang'[j].object = gang[j].object
                              /\ gang'[j].ctx = gang[j].ctx
                              /\ gang'[j].closed = gang[j].closed
    BY <1>2, <2>1, ServedKeeps DEF ManagerInv
  <2>6. \A j \in Workers : gang'[j].at = gang[j].at /\ gang'[j].msg = gang[j].msg
    BY <2>3, <2>5
  <2>7. Moving
    BY <1>2, <1>3, <2>5, <2>6 DEF Moving
  <2>8. Lifecycle'
    BY <1>3, <2>7, MovingKeepsLife
  <2>9. Holders'
    <3>1. Workers' = Workers
      BY <2>5 DEF Workers
    <3>2. \A n \in Names : workers[n] # 0 => gang'[workers[n]].name = n
      BY <2>5, HandsFacts DEF ManagerInv, Holders
    <3> QED BY <1>2, <1>3, <2>5, <2>6, <3>1, <3>2 DEF ManagerInv, Holders
  <2>10. \A m \in Messages : Holds(w, m)' <=> Holds(w, m) \/ m = d
    <3> SUFFICES ASSUME NEW m \in Messages
                 PROVE  (gang'[w].msg = m \/ \E k \in DOMAIN v.queue : v.queue[k] = m)
                        <=> (gang[w].msg = m \/ \E k \in DOMAIN q : q[k] = m) \/ m = d
      BY <2>5 DEF Holds, q
    <3>1. (\E k \in DOMAIN v.queue : v.queue[k] = m) <=> (\E k \in DOMAIN q : q[k] = m) \/ m = d
      BY <2>4
    <3> QED BY <1>2, <2>6, <3>1
  <2>11. \A i \in Workers \ {w}, m \in Messages : Holds(i, m)' <=> Holds(i, m)
    BY <2>5 DEF Holds
  <2>12. ASSUME NEW m \in Messages PROVE Ahead(m)' <=> Ahead(m) /\ m # d
    <3>1. ASSUME NEW k \in DOMAIN outbox PROVE outbox[k] # d
      <4>1. d < outbox[k]
        BY <3>1 DEF ManagerInv, InOrderOut
      <4> QED BY <1>2, <4>1, HandsFacts
    <3>2. outbox' = outbox /\ dispatcher'.msg = 0 /\ m # 0
      BY <1>2, <1>3, HandsFacts
    <3> QED BY <3>1, <3>2 DEF Ahead
  <2>13. Ahead(d)
    BY DEF Ahead
  <2>14. Workers' = Workers
    BY <2>5 DEF Workers
  <2>15. InPlace'
    <3>1. \A m \in Messages : fate[m].is = "moving" =>
             Ahead(m)' \/ \E i \in Workers : Holds(i, m)'
      BY <1>2, <2>10, <2>11, <2>12 DEF ManagerInv, InPlace
    <3>2. \A m \in Messages : Ahead(m)' => fate[m].is # "unborn"
      BY <2>12 DEF ManagerInv, InPlace
    <3>3. ASSUME NEW i \in Workers, NEW m \in Messages, Holds(i, m)'
          PROVE  fate[m].is # "unborn" /\ fate[m].name = gang[i].name
      BY <1>2, <2>10, <2>11, <2>13, <3>3 DEF ManagerInv, InPlace
    <3> QED BY <1>3, <2>5, <2>14, <3>1, <3>2, <3>3 DEF InPlace
  <2>16. InOrderOut'
    <3>1. Ascending(outbox) /\ \A k \in DOMAIN outbox : dispatcher'.msg < outbox[k]
      <4>1. \A k \in DOMAIN outbox : outbox[k] \in Nat \ {0}
        BY HandsFacts
      <4> QED BY <1>3, <4>1 DEF ManagerInv, InOrderOut
    <3>2. ASSUME NEW i \in Workers, NEW l \in Messages, NEW m \in Messages,
                 Holds(i, l)', Ahead(m)'
          PROVE  l < m
      <4>1. CASE Holds(i, l)
        BY <2>12, <3>2, <4>1 DEF ManagerInv, InOrderOut
      <4>2. CASE l = d
        <5>1. PICK k \in DOMAIN outbox : outbox[k] = m
          BY <2>12, <3>2, <4>2 DEF Ahead
        <5> QED BY <4>2, <5>1 DEF ManagerInv, InOrderOut
      <4> QED BY <2>10, <2>11, <3>2, <4>1, <4>2
    <3>3. \A m \in Messages : Holds(w, m) => m < d
      BY <1>2, <2>13 DEF ManagerInv, InOrderOut
    <3>4. Ascending(v.queue) /\ \A k \in DOMAIN v.queue : v.msg < v.queue[k]
      <4>1. /\ \A j, k \in DOMAIN q : j < k => q[j] < q[k]
            /\ \A k \in DOMAIN q : gang[w].msg < q[k]
        BY <1>2 DEF ManagerInv, InOrderOut, Ascending, q
      <4>2. \A k \in DOMAIN q : q[k] < d
        <5> SUFFICES ASSUME NEW k \in DOMAIN q PROVE q[k] < d
          OBVIOUS
        <5>1. q[k] \in Messages
          BY <2>3
        <5>2. Holds(w, q[k])
          BY DEF Holds, q
        <5> QED BY <3>3, <5>1, <5>2
      <4>3. gang[w].msg < d
        <5>1. gang[w].msg = 0 \/ gang[w].msg \in Messages
          BY <2>2 DEF Worker, Messages, ManagerAssumption
        <5>2. d \in Nat \ {0}
          BY <1>2, HandsFacts
        <5> QED BY <3>3, <5>1, <5>2 DEF Holds
      <4> QED BY <2>3, <2>4, <4>1, <4>2, <4>3 DEF Ascending
    <3>5. \A i \in Workers : /\ Ascending(gang'[i].queue)
                             /\ \A k \in DOMAIN gang'[i].queue : gang'[i].msg < gang'[i].queue[k]
      BY <2>5, <3>4 DEF ManagerInv, InOrderOut
    <3>6. \A l, m \in Messages : l < m /\ fate'[l].is = "unborn" => fate'[m].is = "unborn"
      BY <1>3 DEF ManagerInv, InOrderOut
    <3>7. \A i \in Workers : Ascending(gang[i].queue)'
      BY <3>5 DEF Ascending
    <3>8. Ascending(outbox)'
      BY <1>2, <3>1 DEF Ascending
    <3> QED BY <1>2, <2>14, <3>1, <3>2, <3>5, <3>6, <3>7, <3>8 DEF InOrderOut
  <2>17. CrashHasCause' /\ DropHasCause' /\ SentInOrder'
    BY <1>2, <1>3 DEF CrashHasCause, ManagerInv, DropHasCause, SentInOrder
  <2> QED BY <1>1, <2>7, <2>8, <2>9, <2>15, <2>16, <2>17, MovingKeeps DEF ManagerInv
<1>4. CASE /\ gang[w].closed /\ dispatcher' = [dispatcher EXCEPT !.at = "panicked"]
           /\ gateway' = "crashed" /\ UNCHANGED <<gang, fate>>
  <2>1. dispatcher'.at = "panicked" /\ dispatcher'.msg = d
    BY <1>4, HandsFacts
  <2>2. Moving /\ Lifecycle' /\ Holders'
    <3>1. d # 0
      BY <1>2, HandsFacts
    <3> QED BY <1>2, <1>4, <2>1, <3>1, HandMoves
  <2>3. \A m \in Messages : Ahead(m)' <=> Ahead(m)
    BY <1>2, <2>1 DEF Ahead
  <2>4. \A i \in Workers, m \in Messages : Holds(i, m)' <=> Holds(i, m)
    BY <1>4 DEF Holds
  <2>5. InPlace'
    BY <1>2, <1>4, <2>3, <2>4 DEF ManagerInv, InPlace, Workers
  <2>6. InOrderOut'
    BY <1>2, <1>4, <2>1, <2>3, <2>4 DEF ManagerInv, InOrderOut, Ascending, Workers
  <2>7. DropHasCause' /\ SentInOrder'
    BY <1>2, <1>4 DEF ManagerInv, DropHasCause, SentInOrder
  <2>8. CrashHasCause'
    <3>1. task = 0 \/ fate[d].name \in touched
      BY <1>2, <1>4 DEF ManagerInv, Holders
    <3> QED BY <1>2, <1>4, <2>1, <3>1 DEF CrashHasCause
  <2> QED BY <1>1, <2>2, <2>5, <2>6, <2>7, <2>8, MovingKeeps DEF ManagerInv
<1>5. CASE /\ 1 \in cancelled /\ Settle(d, "lost")
           /\ dispatcher' = [at |-> "over", msg |-> 0, worker |-> 0]
           /\ UNCHANGED <<gang, gateway>>
  <2>1. task = 0
    BY <1>5 DEF ManagerInv, Lifecycle
  <2>2. "lost" \in Settled
    BY DEF Settled
  <2> QED BY <1>1, <1>2, <1>5, <2>1, <2>2, LetGoKeeps
<1> QED BY <1>3, <1>4, <1>5 DEF Put

(* The put, the panic on a closed queue and the end on a cancelled context.  *)
LEMMA PutKeeps ==
    ASSUME ManagerAssumption, ManagerInv, Put
    PROVE  ManagerInv'
<1>1. dispatcher.msg \in Messages /\ dispatcher.worker \in Workers
  BY HandsFacts DEF Put, ManagerInv, Holders
<1> QED BY <1>1, PutOfKeeps

(* A message is published.                                                   *)
LEMMA PublishKeeps ==
    ASSUME ManagerAssumption, ManagerInv, NEW m \in Messages, NEW n \in Names,
           PublishOutbound(m, n)
    PROVE  ManagerInv'
<1>1. ManagerTypeOK'
  BY TrafficKeepsType DEF ManagerInv
<1>2. /\ gateway \notin {"starting", "crashed"} /\ fate[m].is = "unborn"
      /\ \A l \in 1 .. m - 1 : fate[l].is # "unborn"
      /\ fate' = [fate EXCEPT ![m] = [name |-> n, is |-> "moving"]]
      /\ outbox' = Append(outbox, m)
      /\ UNCHANGED <<hashes, channels, halted, workers, gang, task, cancelled, dispatcher,
                     owner, gateway, deferred, touched, broken, overtaken>>
  BY DEF PublishOutbound
<1>3. /\ fate'[m].name = n /\ fate'[m].is = "moving"
      /\ \A l \in Messages \ {m} : fate'[l] = fate[l]
  BY <1>2 DEF ManagerInv, ManagerTypeOK
<1>4. Messages = 1 .. NumOut /\ NumOut \in Nat /\ outbox \in Seq(Messages)
  BY HandsFacts DEF Messages, ManagerAssumption
<1>5. /\ ~Ahead(m) /\ \A i \in Workers : ~Holds(i, m)
      /\ \A l \in Messages : fate[l].is # "unborn" => l < m
  BY <1>2, <1>4 DEF ManagerInv, InPlace, InOrderOut
<1>6. /\ DOMAIN outbox' = 1 .. Len(outbox) + 1 /\ outbox'[Len(outbox) + 1] = m
      /\ DOMAIN outbox = 1 .. Len(outbox) /\ Len(outbox) \in Nat
      /\ \A k \in 1 .. Len(outbox) : outbox'[k] = outbox[k]
  BY <1>2, <1>4
<1>7. Moving /\ Lifecycle' /\ Holders'
  <2>1. dispatcher.msg # 0 => dispatcher.msg \in Messages \ {m}
    BY <1>4, <1>5, HandsFacts DEF Ahead
  <2>2. dispatcher.at = "put" =>
           dispatcher.worker # 0 /\ gang[dispatcher.worker].name = fate'[dispatcher.msg].name
    BY <1>3, <2>1 DEF ManagerInv, Holders
  <2>3. dispatcher.msg # 0 <=> dispatcher.at \in {"look", "put", "panicked"}
    BY DEF ManagerInv, Holders
  <2>4. dispatcher.at # "panicked"
    BY <1>2 DEF ManagerInv, Lifecycle
  <2> QED BY <1>2, <2>2, <2>3, <2>4, HandMoves
<1>8. \A l \in Messages : Ahead(l)' <=> Ahead(l) \/ l = m
  <2> SUFFICES ASSUME NEW l \in Messages PROVE Ahead(l)' <=> Ahead(l) \/ l = m
    OBVIOUS
  <2>1. (\E k \in DOMAIN outbox' : outbox'[k] = l) <=>
        (\E k \in DOMAIN outbox : outbox[k] = l) \/ l = m
    BY <1>6
  <2> QED BY <1>2, <2>1 DEF Ahead
<1>9. \A i \in Workers, l \in Messages : Holds(i, l)' <=> Holds(i, l)
  BY <1>2 DEF Holds
<1>10. Workers' = Workers
  BY <1>2 DEF Workers
<1>11. InPlace'
  <2>1. \A l \in Messages : fate'[l].is = "moving" => Ahead(l)' \/ \E i \in Workers : Holds(i, l)'
    BY <1>3, <1>8, <1>9 DEF ManagerInv, InPlace
  <2>2. \A l \in Messages : Ahead(l)' => fate'[l].is # "unborn"
    BY <1>3, <1>8 DEF ManagerInv, InPlace
  <2>3. \A i \in Workers, l \in Messages : Holds(i, l)' =>
           fate'[l].is # "unborn" /\ fate'[l].name = gang'[i].name
    BY <1>2, <1>3, <1>5, <1>9 DEF ManagerInv, InPlace
  <2> QED BY <1>10, <2>1, <2>2, <2>3 DEF InPlace
<1>12. InOrderOut'
  <2>1. \A l, x \in Messages : l < x /\ fate'[l].is = "unborn" => fate'[x].is = "unborn"
    <3> SUFFICES ASSUME NEW l \in Messages, NEW x \in Messages, l < x, fate'[l].is = "unborn"
                 PROVE  fate'[x].is = "unborn"
      OBVIOUS
    <3>1. l # m /\ fate[l].is = "unborn"
      BY <1>3
    <3>2. x # m
      BY <1>2, <1>4, <3>1
    <3> QED BY <1>3, <3>1, <3>2 DEF ManagerInv, InOrderOut
  <2>2. \A k \in DOMAIN outbox : outbox[k] \in Messages /\ outbox[k] < m
    <3> SUFFICES ASSUME NEW k \in DOMAIN outbox PROVE outbox[k] \in Messages /\ outbox[k] < m
      OBVIOUS
    <3>1. outbox[k] \in Messages
      BY <1>4
    <3>2. Ahead(outbox[k])
      BY DEF Ahead
    <3> QED BY <1>5, <3>1, <3>2 DEF ManagerInv, InPlace
  <2>3. dispatcher.msg < m
    <3>1. CASE dispatcher.msg = 0
      BY <1>4, <3>1
    <3>2. CASE dispatcher.msg # 0
      <4>1. dispatcher.msg \in Messages /\ Ahead(dispatcher.msg)
        BY <3>2, HandsFacts DEF Ahead
      <4> QED BY <1>5, <4>1 DEF ManagerInv, InPlace
    <3> QED BY <3>1, <3>2
  <2>4. Ascending(outbox)' /\ \A k \in DOMAIN outbox' : dispatcher.msg < outbox'[k]
    BY <1>6, <2>2, <2>3 DEF ManagerInv, InOrderOut, Ascending
  <2>5. \A i \in Workers, l, x \in Messages : Holds(i, l)' /\ Ahead(x)' => l < x
    BY <1>5, <1>8, <1>9 DEF ManagerInv, InOrderOut, InPlace
  <2>6. \A i \in Workers : /\ Ascending(gang[i].queue)'
                           /\ \A k \in DOMAIN gang'[i].queue : gang'[i].msg < gang'[i].queue[k]
    BY <1>2 DEF ManagerInv, InOrderOut, Ascending
  <2> QED BY <1>2, <1>10, <2>1, <2>4, <2>5, <2>6 DEF InOrderOut
<1>13. CrashHasCause'
  BY <1>2 DEF CrashHasCause
<1>14. DropHasCause'
  BY <1>2, <1>3 DEF ManagerInv, DropHasCause
<1>15. SentInOrder'
  <2> SUFFICES ASSUME gateway = "running", NEW k \in Messages, NEW l \in Messages, k < l,
                      fate'[k].name = fate'[l].name, fate'[l].name \notin touched,
                      fate'[l].is \in Settled
               PROVE  fate'[k].is \in Settled
    BY <1>2 DEF SentInOrder
  <2>1. l # m /\ k # m
    <3>1. l # m
      BY <1>3 DEF Settled
    <3>2. fate[l].is # "unborn"
      BY <1>3, <3>1 DEF Settled
    <3> QED BY <1>4, <1>5, <3>1, <3>2
  <2> QED BY <1>3, <2>1 DEF ManagerInv, SentInOrder
<1> QED BY <1>1, <1>7, <1>11, <1>12, <1>13, <1>14, <1>15, MovingKeeps DEF ManagerInv

(* The bus, once closed, throws the next message away.                       *)
LEMMA DrainKeeps ==
    ASSUME ManagerAssumption, ManagerInv, Drain
    PROVE  ManagerInv'
<1> DEFINE m == Head(outbox)
<1>1. /\ gateway = "stopped" /\ outbox # <<>> /\ outbox' = Tail(outbox)
      /\ Settle(m, "lost") /\ "lost" \in Settled
      /\ UNCHANGED <<hashes, channels, halted, workers, gang, task, cancelled, dispatcher,
                     owner, gateway, deferred, touched, broken, overtaken>>
  BY DEF Drain, Settled
<1>2. /\ Len(outbox) \in Nat \ {0} /\ DOMAIN outbox = 1 .. Len(outbox)
      /\ m = outbox[1] /\ m \in Messages /\ outbox' \in Seq(Messages)
      /\ DOMAIN outbox' = 1 .. Len(outbox) - 1
      /\ \A k \in 1 .. Len(outbox) - 1 : outbox'[k] = outbox[k + 1]
  BY <1>1, HandsFacts
<1>3. /\ \A l \in Messages : fate'[l].name = fate[l].name
      /\ \A l \in Messages \ {m} : fate'[l].is = fate[l].is
      /\ fate'[m].is = "lost"
  BY <1>1, <1>2 DEF Settle, ManagerInv, ManagerTypeOK
<1>4. ManagerTypeOK'
  <2>1. fate' \in [Messages -> [name: Names, is: {"unborn", "moving"} \cup Settled]]
    BY <1>1, SettleType DEF ManagerInv
  <2> QED BY <1>1, <1>2, <2>1 DEF ManagerInv, ManagerTypeOK, Workers
<1> HIDE DEF m
<1>5. task = 0
  BY <1>1 DEF ManagerInv, Lifecycle
<1>6. Moving /\ Lifecycle' /\ Holders'
  <2>1. /\ dispatcher.msg # 0 <=> dispatcher.at \in {"look", "put", "panicked"}
        /\ dispatcher.at = "put" =>
              /\ dispatcher.worker # 0
              /\ gang[dispatcher.worker].name = fate[dispatcher.msg].name
        /\ dispatcher.at # "panicked"
    BY <1>1 DEF ManagerInv, Holders, Lifecycle
  <2>2. dispatcher.msg # 0 => fate'[dispatcher.msg].name = fate[dispatcher.msg].name
    BY <1>3, HandsFacts
  <2> QED BY <1>1, <2>1, <2>2, HandMoves
<1>7. DropHasCause' /\ SentInOrder'
  <2>1. /\ UNCHANGED <<touched, broken, task>> /\ (gateway' = "running" => gateway = "running")
    BY <1>1
  <2> QED BY <1>1, <1>2, <1>5, <2>1, SettledInTurn
<1>8. ASSUME NEW l \in Messages PROVE Ahead(l)' => Ahead(l)
  <2>1. ASSUME NEW k \in DOMAIN outbox', outbox'[k] = l PROVE Ahead(l)
    <3>1. k + 1 \in DOMAIN outbox /\ outbox[k + 1] = l
      BY <1>2, <2>1
    <3> QED BY <3>1 DEF Ahead
  <2> QED BY <1>1, <2>1 DEF Ahead
<1>9. ASSUME NEW l \in Messages \ {m}, Ahead(l) PROVE Ahead(l)'
  <2>1. ASSUME NEW k \in DOMAIN outbox, outbox[k] = l PROVE Ahead(l)'
    <3>1. k # 1
      BY <1>2, <2>1
    <3>2. k - 1 \in DOMAIN outbox' /\ outbox'[k - 1] = l
      BY <1>2, <2>1, <3>1
    <3> QED BY <3>2 DEF Ahead
  <2> QED BY <1>1, <1>9, <2>1 DEF Ahead
<1>10. Ahead(m)
  BY <1>2 DEF Ahead
<1>11. \A i \in Workers, l \in Messages : Holds(i, l)' <=> Holds(i, l)
  BY <1>1 DEF Holds
<1>12. \A l \in Messages : fate'[l].name = fate[l].name
                           /\ (fate'[l].is = "unborn" <=> fate[l].is = "unborn")
  BY <1>2, <1>3, <1>10 DEF ManagerInv, InPlace
<1>13. \A l \in Messages : fate'[l].is = "moving" =>
          fate[l].is = "moving" /\ (Ahead(l)' \/ \E i \in Workers : Holds(i, l)')
  <2> SUFFICES ASSUME NEW l \in Messages, fate'[l].is = "moving"
               PROVE  fate[l].is = "moving"
                      /\ (Ahead(l)' \/ \E i \in Workers : Holds(i, l)')
    OBVIOUS
  <2>1. l # m /\ fate[l].is = "moving"
    BY <1>3
  <2> QED BY <1>9, <1>11, <2>1 DEF ManagerInv, InPlace
<1>14. Ascending(outbox') /\ \A k \in DOMAIN outbox' : dispatcher'.msg < outbox'[k]
  BY <1>1, <1>2 DEF ManagerInv, InOrderOut, Ascending
<1>15. /\ DOMAIN gang' = Workers /\ \A i \in Workers : gang'[i].name = gang[i].name
       /\ \A i \in Workers : /\ Ascending(gang'[i].queue)
             /\ \A k \in DOMAIN gang'[i].queue : gang'[i].msg < gang'[i].queue[k]
  BY <1>1 DEF Workers, ManagerInv, InOrderOut
<1>16. InPlace' /\ InOrderOut'
  BY <1>8, <1>11, <1>12, <1>13, <1>14, <1>15, PlacesFollow
<1>17. CrashHasCause'
  BY <1>1 DEF CrashHasCause
<1> QED BY <1>4, <1>6, <1>7, <1>16, <1>17, MovingKeeps DEF ManagerInv

-----------------------------------------------------------------------------
(* The steps of the main goroutine.                                          *)

(* What the type says, in the form these proofs cite.                        *)
LEMMA LifeFacts ==
    ASSUME ManagerAssumption, ManagerInv
    PROVE  /\ gang \in Seq(Worker) /\ Workers = 1 .. Len(gang) /\ Len(gang) \in Nat
           /\ \A n \in Names : workers[n] # 0 => workers[n] \in Workers
           /\ Reloads = 1 .. MaxReloads /\ MaxReloads \in Nat /\ task \in Nat
           /\ deferred \in [Reloads -> Seq(Call)]
           /\ channels \in [Names -> Objects] /\ hashes \in [Names -> 0 .. MaxReloads + 1]
<1>1. gang \in Seq(Worker) /\ Workers = 1 .. Len(gang) /\ Len(gang) \in Nat
  BY DEF ManagerInv, ManagerTypeOK, Workers
<1>2. workers \in [Names -> 0 .. Len(gang)] /\ task \in Contexts
      /\ channels \in [Names -> Objects] /\ hashes \in [Names -> 0 .. MaxReloads + 1]
  BY DEF ManagerInv, ManagerTypeOK
<1>3. deferred \in [Reloads -> Seq(Call)]
  BY DEF ManagerInv, ManagerTypeOK, Call
<1>4. MaxReloads \in Nat
  BY DEF ManagerAssumption
<1> QED BY <1>1, <1>2, <1>3, <1>4 DEF Contexts, Reloads

(* What is left to show of an operation that leaves the messages alone.      *)
LEMMA StillIsInv ==
    ASSUME ManagerInv, Still, ManagerTypeOK', Lifecycle', Holders', ObjectsInv', Untouched',
           Calls', CrashHasCause'
    PROVE  ManagerInv'
BY StillKeepsPlaces, StillKeepsOrder DEF ManagerInv

(* StartAll makes the first workers, or fails.                               *)
LEMMA StartAllKeeps ==
    ASSUME ManagerAssumption, ManagerInv, NEW started \in SUBSET Names, StartAll(started)
    PROVE  ManagerInv'
<1>1. ManagerTypeOK'
  BY LifeKeepsType DEF ManagerInv
<1>2. /\ gateway = "starting" /\ \A n \in started : channels[n] # 0
      /\ broken' = Names \ started
      /\ UNCHANGED <<hashes, channels, halted, outbox, fate, owner, deferred, touched, overtaken>>
  BY DEF StartAll
<1>3. /\ gang = <<>> /\ Workers = {} /\ outbox = <<>> /\ cancelled = {} /\ halted = {}
      /\ touched = {} /\ owner = 0 /\ dispatcher.at = "off" /\ dispatcher.msg = 0 /\ task = 0
      /\ \A n \in Names : workers[n] = 0 /\ channels[n] \in {0, First(n)}
      /\ \A r \in Reloads : deferred[r] = <<>>
  BY <1>2 DEF ManagerInv, Lifecycle, BeforeStart, Workers, Holders
<1>4. CASE /\ cancelled' = cancelled \cup {1} /\ gateway' = "failed"
           /\ UNCHANGED <<gang, workers, task, dispatcher>>
  <2>1. Still
    BY <1>2, <1>3, <1>4 DEF Still
  <2>2. Lifecycle'
    BY <1>3, <1>4 DEF Lifecycle, BeforeStart
  <2>3. Workers' = {}
    BY <1>3, <1>4 DEF Workers
  <2>4. Holders'
    BY <1>2, <1>3, <1>4, <2>3 DEF Holders, Reloads
  <2>5. ObjectsInv' /\ Calls' /\ CrashHasCause'
    BY <1>4 DEF ObjectsInv, Calls, CrashHasCause
  <2>6. Untouched'
    BY <1>2, <1>3, <1>4, <2>3 DEF Untouched
  <2> QED BY <1>1, <2>1, <2>2, <2>4, <2>5, <2>6, StillIsInv
<1>5. CASE /\ Hire(started, 1, channels) /\ task' = 1 /\ UNCHANGED cancelled
           /\ dispatcher' = [dispatcher EXCEPT !.at = "receive"] /\ gateway' = "running"
  <2>1. /\ \A i \in DOMAIN gang' : \E n \in started :
              workers'[n] = i /\ gang'[i] = NewWorker(n, channels[n], 1)
        /\ \A n \in started : /\ workers'[n] \in DOMAIN gang'
                              /\ gang'[workers'[n]] = NewWorker(n, channels[n], 1)
        /\ \A n \in Names \ started : workers'[n] = 0
    <3>1. 1 \in Contexts
      BY LifeFacts DEF Contexts
    <3>2. ManagerTypeOK /\ channels \in [Names -> Objects] /\ Hire(started, 1, channels)
      BY <1>5 DEF ManagerInv, ManagerTypeOK
    <3>3. /\ \A i \in DOMAIN gang' \ Workers :
                \E n \in started : workers'[n] = i /\ gang'[i] = NewWorker(n, channels[n], 1)
          /\ \A n \in started : /\ workers'[n] \in DOMAIN gang' \ Workers
                                /\ gang'[workers'[n]] = NewWorker(n, channels[n], 1)
          /\ \A n \in Names \ started : workers'[n] = workers[n]
      BY <3>1, <3>2, HireAppends
    <3> QED BY <1>3, <3>3
  <2>2. dispatcher'.at = "receive" /\ dispatcher'.msg = 0 /\ dispatcher'.worker = dispatcher.worker
    BY <1>3, <1>5, HandsFacts
  <2>3. Workers' = DOMAIN gang'
    BY DEF Workers
  <2>4. \A i \in DOMAIN gang' : /\ gang'[i].msg = 0 /\ gang'[i].queue = <<>>
                                /\ gang'[i].at = "select" /\ ~gang'[i].closed
    <3> SUFFICES ASSUME NEW i \in DOMAIN gang'
                 PROVE  /\ gang'[i].msg = 0 /\ gang'[i].queue = <<>>
                        /\ gang'[i].at = "select" /\ ~gang'[i].closed
      OBVIOUS
    <3>1. PICK n \in started : gang'[i] = NewWorker(n, channels[n], 1)
      BY <2>1
    <3> QED BY <3>1 DEF NewWorker
  <2>5. \A n \in started : gang'[workers'[n]].name = n /\ gang'[workers'[n]].object = channels[n]
    <3> SUFFICES ASSUME NEW n \in started
                 PROVE  gang'[workers'[n]].name = n /\ gang'[workers'[n]].object = channels[n]
      OBVIOUS
    <3>1. gang'[workers'[n]] = NewWorker(n, channels[n], 1)
      BY <2>1
    <3> QED BY <3>1 DEF NewWorker
  <2>6. Still
    BY <1>2, <1>3, <2>2, <2>4 DEF Still
  <2>7. Lifecycle'
    BY <1>3, <1>5, <2>2 DEF Lifecycle, BeforeStart
  <2>8. Holders'
    BY <1>2, <1>3, <2>1, <2>2, <2>3, <2>4, <2>5 DEF Holders, Reloads
  <2>9. ObjectsInv'
    BY <1>2, <1>3 DEF ObjectsInv, IsOf
  <2>10. Untouched'
    <3> SUFFICES ASSUME NEW n \in Names
                 PROVE  /\ \A i \in Workers' : gang'[i].name = n => workers'[n] = i
                        /\ IF n \in broken' THEN workers'[n] = 0
                           ELSE /\ channels[n] = First(n) /\ workers'[n] # 0
                                /\ LET w == gang'[workers'[n]]
                                   IN  w.object = First(n) /\ ~w.closed /\ w.at # "done"
      BY <1>2, <1>3 DEF Untouched
    <3>1. \A i \in Workers' : gang'[i].name = n => workers'[n] = i
      BY <2>1, <2>3, <2>5
    <3>2. CASE n \in broken'
      BY <1>2, <2>1, <3>1, <3>2
    <3>3. CASE n \notin broken'
      <4>1. n \in started /\ channels[n] = First(n)
        BY <1>2, <1>3, <3>3
      <4>2. workers'[n] \in DOMAIN gang' /\ gang'[workers'[n]].object = channels[n]
        BY <2>1, <2>5, <4>1
      <4>3. workers'[n] # 0
        <5>1. gang' \in Seq(Worker)
          BY <1>1 DEF ManagerTypeOK
        <5>2. DOMAIN gang' = 1 .. Len(gang') /\ Len(gang') \in Nat
          BY <5>1
        <5> QED BY <4>2, <5>2
      <4>4. /\ gang'[workers'[n]].object = First(n) /\ ~gang'[workers'[n]].closed
            /\ gang'[workers'[n]].at # "done"
        BY <2>4, <4>1, <4>2
      <4> QED BY <3>1, <3>3, <4>1, <4>3, <4>4
    <3> QED BY <3>2, <3>3
  <2>11. Calls'
    <3>1. \A n \in Names : workers'[n] # 0 => ~gang'[workers'[n]].closed
      BY <2>1, <2>4
    <3>3. ClosedIsOwned'
      BY <3>1 DEF ClosedIsOwned
    <3>2. MissingHasCause'
      BY <1>2 DEF MissingHasCause
    <3> QED BY <1>2, <1>3, <3>2, <3>3 DEF Calls
  <2>12. CrashHasCause'
    BY <1>5 DEF CrashHasCause
  <2> QED BY <1>1, <2>6, <2>7, <2>8, <2>9, <2>10, <2>11, <2>12, StillIsInv
<1> QED BY <1>4, <1>5 DEF StartAll

(* A new configuration holds nothing but what the reload finds or makes.     *)
LEMMA ReloadDoneKeeps ==
    ASSUME ManagerAssumption, ManagerInv, ManagerTypeOK', NEW r \in Reloads,
           NEW new \in [Names -> 0 .. MaxReloads + 1],
           \A n \in Names : new[n] \in {0, hashes[n], r + 1},
           NEW ready \in SUBSET Added(new), NEW started \in SUBSET Added(new),
           gateway = "running", owner = 0, task = r,
           \A n \in started : n \in ready \/ channels[n] # 0,
           ~NilChannel(new, ready), ReloadDone(r, new, ready, started)
    PROVE  ManagerInv'
<1> DEFINE objects == [n \in Names |-> IF n \in ready
                          THEN Numbered(ready, 1 + Cardinality(Names) * r)[n] ELSE channels[n]]
           removed == Removed(new)  added == Added(new)
           calls == Registrations(removed, started, objects)
<1>1. /\ removed = {n \in Names : hashes[n] # 0 /\ new[n] # hashes[n]}
      /\ added = {n \in Names : new[n] # 0 /\ new[n] # hashes[n]}
      /\ ready \subseteq added /\ started \subseteq added
      /\ removed \in SUBSET Names /\ started \in SUBSET Names /\ ready \in SUBSET Names
  BY DEF Removed, Added
<1>2. /\ objects \in [Names -> Objects] /\ \A n \in ready : objects[n] > Made
      /\ \A n \in Names \ ready : objects[n] = channels[n]
  BY <1>1, ReloadMakes DEF ManagerInv
<1>3. /\ channels' = objects /\ Hire(started, r + 1, objects) /\ task' = r + 1 /\ hashes' = new
      /\ halted' = (halted \cup {channels[n] : n \in removed}) \ {objects[n] : n \in started}
      /\ deferred' = [deferred EXCEPT ![r] = calls]
      /\ touched' = touched \cup removed \cup added
      /\ broken' = (broken \ (removed \cup added)) \cup (added \ started)
      /\ UNCHANGED <<cancelled, dispatcher, outbox, fate, owner, gateway, overtaken>>
  BY DEF ReloadDone
<1>4. \A n \in removed \cup (added \ ready) : channels[n] # 0
  BY DEF NilChannel
<1> HIDE DEF objects, removed, added
<1>5. /\ calls \in Seq(Call)
      /\ \A k \in DOMAIN calls :
            /\ calls[k].object = objects[calls[k].name]
            /\ calls[k].name \in IF calls[k].do = "register" THEN started ELSE removed
      /\ \A k \in DOMAIN calls, n \in started : calls[k].do = "unregister" =>
            \E j \in DOMAIN calls : k < j /\ calls[j].do = "register" /\ calls[j].name = n
  <2>1. calls = Registrations(removed, started, objects)
    OBVIOUS
  <2>2. removed \in SUBSET Names /\ started \in SUBSET Names /\ objects \in [Names -> Objects]
    BY <1>1, <1>2
  <2> HIDE DEF calls
  <2>3. calls \in Seq(Call)
    BY <2>1, <2>2, RegistrationsFollow
  <2>4. \A k \in DOMAIN calls :
           /\ calls[k].object = objects[calls[k].name]
           /\ calls[k].name \in IF calls[k].do = "register" THEN started ELSE removed
    BY <2>1, <2>2, RegistrationsFollow
  <2>5. \A k \in DOMAIN calls, n \in started : calls[k].do = "unregister" =>
            \E j \in DOMAIN calls : k < j /\ calls[j].do = "register" /\ calls[j].name = n
    BY SMTT(30), <2>1, <2>2, RegistrationsFollow
  <2> QED BY <2>3, <2>4, <2>5
<1> HIDE DEF calls
<1>6. /\ \A i \in Workers : gang'[i] = gang[i]
      /\ Workers \subseteq DOMAIN gang' /\ Workers' = DOMAIN gang'
      /\ \A i \in DOMAIN gang' \ Workers :
            \E n \in started : workers'[n] = i /\ gang'[i] = NewWorker(n, objects[n], r + 1)
      /\ \A n \in started : /\ workers'[n] \in DOMAIN gang' \ Workers
                            /\ gang'[workers'[n]] = NewWorker(n, objects[n], r + 1)
      /\ \A n \in Names \ started : workers'[n] = workers[n]
  <2>1. r + 1 \in Contexts /\ ManagerTypeOK
    BY LifeFacts DEF Contexts, ManagerInv
  <2>2. Hire(started, r + 1, objects)
    BY <1>3
  <2>3. /\ \A i \in Workers : gang'[i] = gang[i]
        /\ Workers \subseteq DOMAIN gang'
        /\ \A i \in DOMAIN gang' \ Workers :
              \E n \in started : workers'[n] = i /\ gang'[i] = NewWorker(n, objects[n], r + 1)
        /\ \A n \in started : /\ workers'[n] \in DOMAIN gang' \ Workers
                              /\ gang'[workers'[n]] = NewWorker(n, objects[n], r + 1)
        /\ \A n \in Names \ started : workers'[n] = workers[n]
    <3>1. started \in SUBSET Names /\ objects \in [Names -> Objects]
      BY <1>1, <1>2
    <3>2. PICK c \in Contexts : c = r + 1
      BY <2>1
    <3>3. Hire(started, c, objects)
      BY <2>2, <3>2
    <3>4. /\ \A i \in Workers : gang'[i] = gang[i]
          /\ Workers \subseteq DOMAIN gang'
          /\ \A i \in DOMAIN gang' \ Workers :
                \E n \in started : workers'[n] = i /\ gang'[i] = NewWorker(n, objects[n], c)
          /\ \A n \in started : /\ workers'[n] \in DOMAIN gang' \ Workers
                                /\ gang'[workers'[n]] = NewWorker(n, objects[n], c)
          /\ \A n \in Names \ started : workers'[n] = workers[n]
      BY <2>1, <3>1, <3>3, HireAppends
    <3> QED BY <3>2, <3>4
  <2>4. Workers' = DOMAIN gang'
    BY DEF Workers
  <2> QED BY <2>3, <2>4
<1>7. ASSUME NEW i \in DOMAIN gang' \ Workers
      PROVE  /\ gang'[i].msg = 0 /\ gang'[i].queue = <<>> /\ gang'[i].at = "select"
             /\ ~gang'[i].closed /\ gang'[i].name \in started
  <2>1. PICK n \in started : gang'[i] = NewWorker(n, objects[n], r + 1)
    BY <1>6
  <2> QED BY <2>1 DEF NewWorker
<1>8. ASSUME NEW n \in started
      PROVE  gang'[workers'[n]].name = n /\ ~gang'[workers'[n]].closed
  <2>1. gang'[workers'[n]] = NewWorker(n, objects[n], r + 1)
    BY <1>6
  <2> QED BY <2>1 DEF NewWorker
<1>9. ASSUME NEW n \in Names \ started
      PROVE  /\ workers'[n] = workers[n]
             /\ workers[n] # 0 => gang'[workers'[n]] = gang[workers[n]]
  BY <1>6, LifeFacts
<1>10. /\ r \in Nat \ {0} /\ cancelled = {} /\ Made \in Nat
       /\ dispatcher.at # "panicked"
  <2>1. r \in Nat \ {0}
    BY LifeFacts
  <2>2. Made \in Nat
    BY FS_CardinalityType DEF Made, ManagerAssumption
  <2> QED BY <2>1, <2>2 DEF ManagerInv, Lifecycle
<1>11. \A x \in Reloads : deferred'[x] = IF x = r THEN calls ELSE deferred[x]
  BY <1>3, LifeFacts
<1>12. deferred[r] = <<>> /\ \A x \in Reloads : task <= x => deferred[x] = <<>>
  <2>1. \A x \in Reloads : task <= x => deferred[x] = <<>>
    BY DEF ManagerInv, Calls
  <2> QED BY <1>10, <2>1
<1>13. Still
  <2>1. touched \subseteq touched' /\ touched \cup broken \subseteq touched' \cup broken'
    BY <1>3
  <2>2. task # 0
    BY <1>10
  <2> QED BY <1>3, <1>6, <1>7, <2>1, <2>2 DEF Still
<1>14. Lifecycle'
  BY <1>3, <1>10 DEF Lifecycle, BeforeStart
<1>15. Holders'
  <2>1. /\ dispatcher.msg # 0 <=> dispatcher.at \in {"look", "put", "panicked"}
        /\ dispatcher.at = "put" => /\ dispatcher.worker # 0
              /\ gang'[dispatcher.worker].name = fate[dispatcher.msg].name
    BY <1>6, HandsFacts DEF ManagerInv, Holders
  <2>2. \A n \in Names : workers'[n] # 0 => gang'[workers'[n]].name = n
    BY <1>8, <1>9 DEF ManagerInv, Holders
  <2>3. \A i \in Workers' :
          /\ gang'[i].msg # 0 <=> gang'[i].at \in {"limit", "send", "pause"}
          /\ gang'[i].closed => task' = 0 \/ gang'[i].name \in touched'
    <3>1. ASSUME NEW i \in Workers
          PROVE  /\ gang'[i].msg # 0 <=> gang'[i].at \in {"limit", "send", "pause"}
                 /\ gang'[i].closed => task' = 0 \/ gang'[i].name \in touched'
      <4>1. gang'[i] = gang[i] /\ (gang[i].msg # 0 <=> gang[i].at \in {"limit", "send", "pause"})
        BY <1>6 DEF ManagerInv, Holders
      <4>2. gang[i].closed => task = 0 \/ gang[i].name \in touched
        BY DEF ManagerInv, Holders
      <4>3. task # 0 /\ touched \subseteq touched'
        BY <1>3, <1>10, LifeFacts
      <4> QED BY <4>1, <4>2, <4>3
    <3> QED BY <1>6, <1>7, <3>1
  <2>4. owner' \notin Reloads
    BY <1>3, LifeFacts
  <2> QED BY <1>3, <2>1, <2>2, <2>3, <2>4 DEF Holders, Reloads
<1>16. ObjectsInv'
  <2>1. \A n \in Names : IsOf(channels[n], n)
    BY DEF ManagerInv, ObjectsInv
  <2>2. \A n \in Names : IsOf(objects[n], n)
    BY <1>2, <2>1 DEF IsOf
  <2>3. ASSUME NEW x \in Reloads, NEW k \in DOMAIN deferred'[x]
        PROVE  IsOf(deferred'[x][k].object, deferred'[x][k].name)
    <3>1. CASE x = r
      BY SMTT(30), <1>1, <1>5, <1>11, <2>2, <3>1
    <3>2. CASE x # r
      BY <1>11, <3>2 DEF ManagerInv, ObjectsInv
    <3> QED BY <3>1, <3>2
  <2>4. ASSUME NEW o \in halted'
        PROVE  o = 0 \/ o > Made \/ \E n \in touched' : o = First(n)
    <3>1. CASE o \in halted
      BY <1>3, <3>1 DEF ManagerInv, ObjectsInv
    <3>2. CASE o \notin halted
      <4>1. PICK n \in removed : o = channels[n]
        BY <1>3, <2>4, <3>2
      <4> QED BY <1>1, <1>3, <2>1, <4>1 DEF IsOf
    <3> QED BY <3>1, <3>2
  <2>5. \A n \in Names : IsOf(channels'[n], n)
    BY <1>3, <2>2
  <2> QED BY <2>3, <2>4, <2>5 DEF ObjectsInv, IsOf, First, Made, Reloads
<1>17. Untouched'
  <2> SUFFICES ASSUME NEW n \in Names \ touched'
               PROVE  /\ \A x \in Reloads : \A k \in DOMAIN deferred'[x] : deferred'[x][k].name # n
                      /\ \A i \in Workers' : gang'[i].name = n => workers'[n] = i
                      /\ IF n \in broken' THEN workers'[n] = 0
                         ELSE /\ channels'[n] = First(n) /\ workers'[n] # 0
                              /\ LET w == gang'[workers'[n]]
                                 IN  w.object = First(n) /\ ~w.closed /\ w.at # "done"
    BY DEF Untouched, First, Made, Reloads
  <2>1. n \in Names \ touched /\ n \notin removed /\ n \notin added /\ n \notin started
        /\ n \notin ready
    BY <1>1, <1>3
  <2>2. /\ \A x \in Reloads : \A k \in DOMAIN deferred[x] : deferred[x][k].name # n
        /\ \A i \in Workers : gang[i].name = n => workers[n] = i
        /\ IF n \in broken THEN workers[n] = 0
           ELSE /\ channels[n] = First(n) /\ workers[n] # 0
                /\ LET w == gang[workers[n]]
                   IN  w.object = First(n) /\ ~w.closed /\ w.at # "done"
    BY <2>1 DEF ManagerInv, Untouched
  <2>3. \A x \in Reloads : \A k \in DOMAIN deferred'[x] : deferred'[x][k].name # n
    BY <1>5, <1>11, <2>1, <2>2
  <2>4. workers'[n] = workers[n] /\ channels'[n] = channels[n] /\ (n \in broken' <=> n \in broken)
    BY <1>2, <1>3, <1>9, <2>1
  <2>5. \A i \in Workers' : gang'[i].name = n => workers'[n] = i
    BY <1>6, <1>7, <2>1, <2>2, <2>4
  <2>6. workers[n] # 0 => gang'[workers'[n]] = gang[workers[n]]
    BY <1>9, <2>1
  <2> QED BY <2>2, <2>3, <2>4, <2>5, <2>6
<1>18. Calls'
  <2>1. ClosedIsOwned'
    <3>1. ASSUME NEW n \in Names, workers'[n] # 0, gang'[workers'[n]].closed
          PROVE  FALSE
      <4>1. n \notin started
        BY <1>8, <3>1
      <4>2. workers[n] # 0 /\ gang[workers[n]].closed
        BY <1>9, <3>1, <4>1
      <4> QED BY <4>2, LifeFacts DEF ManagerInv, Calls, ClosedIsOwned
    <3> QED BY <3>1 DEF ClosedIsOwned
  <2>2. ASSUME NEW n \in Names, new[n] # 0, objects[n] = 0
        PROVE  n \in broken' \cup overtaken \/ \E x \in Reloads : n \in Awaited(x)'
    <3>1. n \notin ready /\ channels[n] = 0
      BY <1>2, <1>10, <2>2
    <3>2. n \notin removed /\ n \notin added
      BY <1>4, <3>1
    <3>3. hashes[n] # 0
      BY <1>1, <2>2, <3>2
    <3>4. n \in broken \cup overtaken \/ \E x \in Reloads : n \in Awaited(x)
      BY <3>1, <3>3 DEF ManagerInv, Calls, MissingHasCause
    <3>5. ASSUME NEW x \in Reloads, n \in Awaited(x) PROVE n \in Awaited(x)'
      <4>1. x # r
        BY <1>12, <3>5 DEF Awaited
      <4>2. deferred'[x] = deferred[x]
        BY <1>11, <4>1
      <4> QED BY <3>5, <4>2 DEF Awaited
    <3> QED BY <1>3, <3>2, <3>4, <3>5
  <2>3. MissingHasCause'
    BY <1>3, <2>2 DEF MissingHasCause, Reloads
  <2>4. ASSUME NEW x \in Reloads, task' <= x PROVE deferred'[x] = <<>>
    <3>1. x # r /\ task <= x
      BY <1>3, <1>10, <2>4, LifeFacts
    <3> QED BY <1>11, <1>12, <3>1
  <2>5. ASSUME NEW x \in Reloads, NEW k \in DOMAIN deferred'[x] PROVE Follows(x, k)'
    <3> DEFINE n == deferred'[x][k].name
    <3>1. CASE x # r
      <4>1. deferred'[x] = deferred[x] /\ k \in DOMAIN deferred[x]
        BY <1>11, <2>5, <3>1
      <4>2. x < r
        BY <1>12, <3>1, <4>1, LifeFacts
      <4>3. Follows(x, k)
        BY <4>1 DEF ManagerInv, Calls
      <4>4. n \in Names
        <5>1. deferred[x] \in Seq(Call)
          BY LifeFacts
        <5>2. deferred[x][k] \in Call
          BY <4>1, <5>1
        <5> QED BY <4>1, <5>2 DEF Call
      <4>5. new[n] = x + 1 => hashes[n] = x + 1 /\ n \notin removed \cup added
        <5>1. new[n] \in {0, hashes[n], r + 1} /\ x \in Nat /\ r \in Nat
          BY <1>10, <4>4, LifeFacts
        <5> QED BY <1>1, <4>2, <5>1
      <4>6. n \in broken /\ n \notin removed \cup added => n \in broken'
        BY <1>3
      <4> QED BY <1>3, <4>1, <4>3, <4>5, <4>6 DEF Follows
    <3>2. CASE x = r
      <4>1. deferred'[x] = calls /\ k \in DOMAIN calls
        BY <1>11, <2>5, <3>2
      <4>2. CASE calls[k].do = "register"
        <5>1. calls[k].name \in started /\ calls[k].object = objects[calls[k].name]
          BY <1>5, <4>1, <4>2
        <5>2. calls[k].object # 0
          BY <1>1, <1>2, <1>10, <5>1
        <5> QED BY <4>1, <4>2, <5>2 DEF Follows
      <4>3. CASE calls[k].do # "register"
        <5>1. calls[k].name \in removed
          BY <1>5, <4>1, <4>3
        <5>2. ASSUME new[n] = r + 1
              PROVE  n \in broken' \/ \E j \in DOMAIN calls :
                        k < j /\ calls[j].do = "register" /\ calls[j].name = n
          <6>1. n \in added
            BY <1>1, <1>10, <4>1, <5>1, <5>2
          <6>2. calls[k].do = "unregister"
            <7>1. calls[k] \in Call
              BY <1>5, <4>1
            <7> QED BY <4>3, <7>1 DEF Call
          <6>3. CASE n \in started
            BY <1>5, <4>1, <6>2, <6>3
          <6>4. CASE n \notin started
            BY <1>3, <6>1, <6>4
          <6> QED BY <6>3, <6>4
        <5> QED BY <1>3, <3>2, <4>1, <4>3, <5>2 DEF Follows
      <4> QED BY <4>2, <4>3
    <3> QED BY <3>1, <3>2
  <2> QED BY <2>1, <2>3, <2>4, <2>5 DEF Calls, Reloads
<1>19. CrashHasCause'
  BY <1>3 DEF CrashHasCause
<1> QED BY <1>13, <1>14, <1>15, <1>16, <1>17, <1>18, <1>19, StillIsInv

(* A name without an object has a cause, which is then that of the crash.    *)
LEMMA ReloadPanicsKeeps ==
    ASSUME ManagerAssumption, ManagerInv, ManagerTypeOK', NEW new, NEW ready,
           gateway = "running", NilChannel(new, ready), ReloadPanics(new, ready)
    PROVE  ManagerInv'
<1>1. /\ gateway' = "crashed" /\ broken' = broken \cup (Added(new) \ ready)
      /\ UNCHANGED <<hashes, channels, halted, workers, gang, task, cancelled, dispatcher,
                     outbox, fate, owner, deferred, touched, overtaken>>
  BY DEF ReloadPanics
<1>2. dispatcher.at # "panicked"
  BY DEF ManagerInv, Lifecycle
<1>3. Still
  BY <1>1 DEF Still, Workers
<1>4. Lifecycle'
  BY <1>1, <1>2 DEF ManagerInv, Lifecycle, BeforeStart
<1>5. Holders'
  BY <1>1 DEF ManagerInv, Holders, Workers
<1>6. ObjectsInv' /\ Calls'
  BY <1>1 DEF ObjectsInv, Calls
<1>7. Untouched'
  BY <1>1 DEF ManagerInv, Untouched, Workers
<1>8. CrashHasCause'
  <2>1. PICK n \in Removed(new) \cup (Added(new) \ ready) : channels[n] = 0
    BY DEF NilChannel
  <2>2. n \in Names
    BY DEF Removed, Added
  <2>3. n \in broken' \cup overtaken \/ \E x \in Reloads : n \in Awaited(x)
    <3>1. CASE n \in Removed(new)
      <4>1. hashes[n] # 0
        BY <3>1 DEF Removed
      <4> QED BY <1>1, <2>1, <2>2, <4>1 DEF ManagerInv, Calls, MissingHasCause
    <3>2. CASE n \notin Removed(new)
      BY <1>1, <2>1, <3>2
    <3> QED BY <3>1, <3>2
  <2>4. \A x \in Reloads : Awaited(x)' = Awaited(x)
    BY <1>1 DEF Awaited
  <2> QED BY <1>1, <1>2, <2>1, <2>2, <2>3, <2>4 DEF CrashHasCause, Reloads
<1> QED BY <1>3, <1>4, <1>5, <1>6, <1>7, <1>8, StillIsInv

(* Any call of Reload keeps the invariant.                                   *)
LEMMA ReloadKeeps ==
    ASSUME ManagerAssumption, ManagerInv, NEW r \in Reloads \cap {task},
           NEW new \in Configurations(r), NEW ready \in SUBSET Added(new),
           NEW started \in SUBSET Added(new), Reload(r, new, ready, started)
    PROVE  ManagerInv'
<1>1. /\ gateway = "running" /\ owner = 0 /\ task = r
      /\ \A n \in started : n \in ready \/ channels[n] # 0
  BY DEF Reload
<1>2. r \in Reloads /\ r \in 1 .. MaxReloads /\ MaxReloads \in Nat
  BY LifeFacts
<1>3. /\ new \in [Names -> 0 .. MaxReloads + 1]
      /\ \A n \in Names : new[n] \in {0, hashes[n], r + 1}
  <2>1. 0 .. r + 1 \subseteq 0 .. MaxReloads + 1
    BY <1>2
  <2> QED BY <2>1 DEF Configurations
<1>4. ready \in SUBSET Names /\ started \in SUBSET Names
  BY DEF Added
<1>5. ManagerTypeOK'
  BY <1>2, <1>3, <1>4, LifeKeepsType DEF ManagerInv
<1>6. CASE NilChannel(new, ready) /\ ReloadPanics(new, ready)
  BY <1>1, <1>5, <1>6, ReloadPanicsKeeps
<1>7. CASE ~NilChannel(new, ready) /\ ReloadDone(r, new, ready, started)
  BY <1>1, <1>2, <1>3, <1>5, <1>7, ReloadDoneKeeps
<1> QED BY <1>6, <1>7 DEF Reload

(* StopAll closes every queue, after which only messages under way matter.   *)
LEMMA StopAllKeeps ==
    ASSUME ManagerAssumption, ManagerInv, StopAll
    PROVE  ManagerInv'
<1>1. ManagerTypeOK'
  BY LifeKeepsType DEF ManagerInv
<1>2. /\ gateway = "running" /\ owner = 0 /\ gateway' = "stopping" /\ owner' = StopOwner
      /\ task' = 0
      /\ UNCHANGED <<hashes, channels, halted, workers, dispatcher, outbox, fate, deferred,
                     touched, broken, overtaken>>
  BY DEF StopAll
<1>3. ASSUME NEW i \in Workers
      PROVE  /\ gang'[i].name = gang[i].name /\ gang'[i].at = gang[i].at
             /\ gang'[i].msg = gang[i].msg /\ gang'[i].queue = gang[i].queue
  <2>1. gang[i] \in Worker
    BY LifeFacts
  <2>2. gang'[i] = [gang[i] EXCEPT !.closed = @ \/ \E n \in Names : workers[n] = i]
    BY DEF StopAll
  <2> QED BY <2>1, <2>2 DEF Worker
<1>4. DOMAIN gang' = Workers /\ Workers' = Workers
  BY DEF StopAll, Workers
<1>5. Still
  BY <1>2, <1>3, <1>4 DEF Still
<1>6. Lifecycle'
  BY <1>2 DEF ManagerInv, Lifecycle, BeforeStart
<1>7. Holders'
  <2>1. owner' \notin Reloads
    BY <1>2, LifeFacts DEF StopOwner
  <2>2. /\ dispatcher.msg # 0 <=> dispatcher.at \in {"look", "put", "panicked"}
        /\ dispatcher.at = "put" => /\ dispatcher.worker # 0
              /\ gang'[dispatcher.worker].name = fate[dispatcher.msg].name
    BY <1>3, HandsFacts DEF ManagerInv, Holders
  <2>3. \A n \in Names : workers[n] # 0 => gang'[workers[n]].name = n
    BY <1>3, LifeFacts DEF ManagerInv, Holders
  <2>4. \A i \in Workers : gang'[i].msg # 0 <=> gang'[i].at \in {"limit", "send", "pause"}
    BY <1>3 DEF ManagerInv, Holders
  <2> QED BY <1>2, <1>4, <2>1, <2>2, <2>3, <2>4 DEF Holders, Reloads
<1>8. ObjectsInv' /\ Calls' /\ CrashHasCause'
  BY <1>2 DEF ObjectsInv, Calls, CrashHasCause
<1>9. Untouched'
  BY <1>2, <1>3, <1>4 DEF ManagerInv, Untouched
<1> QED BY <1>1, <1>5, <1>6, <1>7, <1>8, <1>9, StillIsInv

(* StopAll has waited for the workers.                                       *)
LEMMA StopAllEndsKeeps ==
    ASSUME ManagerAssumption, ManagerInv, StopAllEnds
    PROVE  ManagerInv'
<1>1. ManagerTypeOK'
  BY LifeKeepsType DEF ManagerInv
<1>2. /\ gateway = "stopping" /\ gateway' = "stopped" /\ owner' = 0
      /\ UNCHANGED <<hashes, channels, workers, gang, task, cancelled, dispatcher, outbox,
                     fate, deferred, touched, broken, overtaken>>
  BY DEF StopAllEnds
<1>3. Still
  BY <1>2 DEF Still, Workers
<1>4. Lifecycle'
  BY <1>2 DEF ManagerInv, Lifecycle, BeforeStart
<1>5. Holders'
  BY <1>2 DEF ManagerInv, Holders, Workers, Reloads
<1>6. ObjectsInv' /\ Calls' /\ CrashHasCause'
  BY <1>2 DEF ObjectsInv, Calls, CrashHasCause
<1>7. Untouched'
  BY <1>2 DEF ManagerInv, Untouched, Workers
<1> QED BY <1>1, <1>3, <1>4, <1>5, <1>6, <1>7, StillIsInv

-----------------------------------------------------------------------------
(* The steps of a reload's goroutine.                                        *)

(* The first call of a reload that has calls left.                           *)
LEMMA CallFacts ==
    ASSUME ManagerAssumption, ManagerInv, NEW r \in Reloads, deferred[r] # <<>>
    PROVE  /\ deferred[r] \in Seq(Call) /\ Len(deferred[r]) \in Nat \ {0}
           /\ Head(deferred[r]) = deferred[r][1] /\ 1 \in DOMAIN deferred[r]
           /\ Head(deferred[r]) \in Call
           /\ Head(deferred[r]).name \in touched \cap Names
           /\ DOMAIN Tail(deferred[r]) = 1 .. Len(deferred[r]) - 1
           /\ DOMAIN deferred[r] = 1 .. Len(deferred[r])
           /\ \A k \in DOMAIN Tail(deferred[r]) : Tail(deferred[r])[k] = deferred[r][k + 1]
           /\ gateway # "starting"
<1>1. deferred[r] \in Seq(Call)
  BY LifeFacts
<1>2. /\ Len(deferred[r]) \in Nat \ {0} /\ Head(deferred[r]) = deferred[r][1]
      /\ 1 \in DOMAIN deferred[r] /\ Head(deferred[r]) \in Call
      /\ DOMAIN deferred[r] = 1 .. Len(deferred[r])
      /\ DOMAIN Tail(deferred[r]) = 1 .. Len(deferred[r]) - 1
      /\ \A k \in 1 .. Len(deferred[r]) - 1 : Tail(deferred[r])[k] = deferred[r][k + 1]
  BY <1>1
<1>3. Head(deferred[r]).name \in Names
  BY <1>2 DEF Call
<1>4. Head(deferred[r]).name \in touched
  BY <1>2, <1>3 DEF ManagerInv, Untouched
<1>5. gateway # "starting"
  BY DEF ManagerInv, Lifecycle, BeforeStart
<1> QED BY <1>1, <1>2, <1>3, <1>4, <1>5

(* The first call of a reload is over: the others are what they were.        *)
LEMMA PopShifts ==
    ASSUME ManagerAssumption, ManagerInv, NEW r \in Reloads, deferred[r] # <<>>, Pop(r)
    PROVE  /\ \A x \in Reloads \ {r} : deferred'[x] = deferred[x]
           /\ \A k \in DOMAIN deferred'[r] :
                 k \in Nat /\ k + 1 \in DOMAIN deferred[r] /\ deferred'[r][k] = deferred[r][k + 1]
           /\ \A j \in DOMAIN deferred[r] : j > 1 =>
                 j - 1 \in DOMAIN deferred'[r] /\ deferred'[r][j - 1] = deferred[r][j]
<1>1. deferred \in [Reloads -> Seq(Call)]
  BY LifeFacts
<1>2. deferred'[r] = Tail(deferred[r]) /\ \A x \in Reloads \ {r} : deferred'[x] = deferred[x]
  BY <1>1 DEF Pop
<1>3. \A k \in DOMAIN deferred'[r] :
         k \in Nat /\ k + 1 \in DOMAIN deferred[r] /\ deferred'[r][k] = deferred[r][k + 1]
  BY <1>2, CallFacts
<1>4. ASSUME NEW j \in DOMAIN deferred[r], j > 1
      PROVE  j - 1 \in DOMAIN deferred'[r] /\ deferred'[r][j - 1] = deferred[r][j]
  <2>1. j - 1 \in DOMAIN Tail(deferred[r]) /\ (j - 1) + 1 = j
    BY <1>4, CallFacts
  <2>2. Tail(deferred[r])[j - 1] = deferred[r][(j - 1) + 1]
    BY <2>1, CallFacts
  <2> QED BY <1>2, <2>1, <2>2
<1> QED BY <1>2, <1>3, <1>4

(* No awaited name is lost but the one just registered.                      *)
LEMMA PopKeepsAwaited ==
    ASSUME ManagerAssumption, ManagerInv, NEW r \in Reloads, deferred[r] # <<>>, Pop(r),
           NEW x \in Reloads, NEW n \in Awaited(x),
           Head(deferred[r]).do = "register" => Head(deferred[r]).name # n
    PROVE  n \in Awaited(x)'
<1>1. PICK j \in DOMAIN deferred[x] : deferred[x][j].do = "register" /\ deferred[x][j].name = n
  <2>1. deferred[x] \in Seq(Call)
    BY LifeFacts
  <2>2. DOMAIN deferred[x] = 1 .. Len(deferred[x])
    BY <2>1
  <2> QED BY <2>2 DEF Awaited
<1>2. CASE x # r
  BY <1>2, PopShifts DEF Awaited
<1>3. CASE x = r
  <2>1. j > 1 /\ deferred[r][j].do = "register" /\ deferred[r][j].name = n
        /\ j \in DOMAIN deferred[r]
    BY <1>1, <1>3, CallFacts
  <2>2. j - 1 \in DOMAIN deferred'[r] /\ deferred'[r][j - 1] = deferred[r][j]
    BY <2>1, PopShifts
  <2>3. DOMAIN deferred'[r] = 1 .. Len(deferred'[r])
    <3>1. deferred'[r] = Tail(deferred[r]) /\ Tail(deferred[r]) \in Seq(Call)
      BY CallFacts, LifeFacts DEF Pop
    <3> QED BY <3>1
  <2>4. n \in Names
    BY DEF Awaited
  <2> QED BY <1>3, <2>1, <2>2, <2>3, <2>4 DEF Awaited
<1> QED BY <1>2, <1>3

(* The calls that are left follow each other as before.                      *)
LEMMA PopKeepsFollows ==
    ASSUME ManagerAssumption, ManagerInv, NEW r \in Reloads, deferred[r] # <<>>, Pop(r),
           gateway = "running", UNCHANGED <<hashes, broken>>,
           NEW x \in Reloads, NEW k \in DOMAIN deferred'[x]
    PROVE  Follows(x, k)'
<1>1. \A i \in DOMAIN deferred[x] : Follows(x, i)
  BY DEF ManagerInv, Calls
<1>2. CASE x # r
  <2>1. deferred'[x] = deferred[x]
    BY <1>2, PopShifts
  <2> QED BY <1>1, <2>1 DEF Follows
<1>3. CASE x = r
  <2>1. /\ k \in Nat /\ k + 1 \in DOMAIN deferred[r] /\ deferred'[r][k] = deferred[r][k + 1]
        /\ k \in DOMAIN deferred'[r]
    BY <1>3, PopShifts
  <2>2. Follows(r, k + 1)
    BY <1>1, <1>3, <2>1
  <2>3. CASE deferred[r][k + 1].do = "register"
    BY <1>3, <2>1, <2>2, <2>3 DEF Follows
  <2>4. CASE deferred[r][k + 1].do # "register"
    <3> DEFINE n == deferred[r][k + 1].name
    <3>1. ASSUME hashes[n] = r + 1, n \notin broken
          PROVE  \E j \in DOMAIN deferred'[r] :
                    k < j /\ deferred'[r][j].do = "register" /\ deferred'[r][j].name = n
      <4>1. PICK j \in DOMAIN deferred[r] :
                    k + 1 < j /\ deferred[r][j].do = "register" /\ deferred[r][j].name = n
        BY <2>2, <2>4, <3>1 DEF Follows
      <4>2. j \in Nat /\ j > 1 /\ k < j - 1
        BY <2>1, <4>1, CallFacts
      <4>3. j - 1 \in DOMAIN deferred'[r] /\ deferred'[r][j - 1] = deferred[r][j]
        BY <4>2, PopShifts
      <4> QED BY <4>1, <4>2, <4>3
    <3> QED BY <1>3, <2>1, <2>4, <3>1 DEF Follows
  <2> QED BY <2>3, <2>4
<1> QED BY <1>2, <1>3

(* What a finished call keeps, given what it did to the name it was for.     *)
LEMMA PopKeeps ==
    ASSUME ManagerAssumption, ManagerInv, ManagerTypeOK',
           NEW r \in Reloads, deferred[r] # <<>>, Pop(r), gateway # "crashed",
           UNCHANGED <<hashes, halted, gang, task, cancelled, dispatcher, outbox, fate,
                       gateway, touched, broken>>,
           NEW n \in Names, n = Head(deferred[r]).name,
           \A m \in Names \ {n} : workers'[m] = workers[m] /\ channels'[m] = channels[m],
           workers'[n] \in {0, workers[n]}, owner' = 0,
           owner = 0 \/ (owner = r /\ workers'[n] = 0),
           overtaken \subseteq overtaken',
           gateway = "running" =>
              /\ IsOf(channels'[n], n)
              /\ hashes[n] # 0 /\ channels'[n] = 0 => n \in overtaken' \cup broken \cup Awaited(r)'
              /\ Head(deferred[r]).do = "register" => channels'[n] # 0
    PROVE  ManagerInv'
<1>1. /\ n \in touched /\ gateway # "starting" /\ DOMAIN deferred[r] = 1 .. Len(deferred[r])
      /\ Head(deferred[r]) = deferred[r][1] /\ 1 \in DOMAIN deferred[r]
  BY CallFacts
<1>2. Workers' = Workers
  BY DEF Workers
<1>3. ASSUME NEW x \in Reloads, NEW k \in DOMAIN deferred'[x]
      PROVE  \E j \in DOMAIN deferred[x] : deferred'[x][k] = deferred[x][j]
  BY <1>3, PopShifts
<1>4. Still
  BY <1>1, <1>2 DEF Still, Workers
<1>5. Lifecycle'
  BY <1>1 DEF ManagerInv, Lifecycle, BeforeStart
<1>6. Holders'
  <2>1. \A m \in Names : workers'[m] # 0 => workers'[m] = workers[m]
    OBVIOUS
  <2>2. owner' \notin Reloads
    BY LifeFacts
  <2> QED BY <1>2, <2>1, <2>2 DEF ManagerInv, Holders, Reloads
<1>7. ObjectsInv'
  <2> SUFFICES ASSUME gateway = "running" PROVE ObjectsInv'
    BY <1>1 DEF ObjectsInv
  <2>1. \A m \in Names : IsOf(channels'[m], m)
    BY DEF ManagerInv, ObjectsInv
  <2>2. \A x \in Reloads : \A k \in DOMAIN deferred'[x] :
           IsOf(deferred'[x][k].object, deferred'[x][k].name)
    BY <1>3 DEF ManagerInv, ObjectsInv
  <2>3. \A o \in halted : o = 0 \/ o > Made \/ \E m \in touched : o = First(m)
    BY DEF ManagerInv, ObjectsInv
  <2> QED BY <2>1, <2>2, <2>3 DEF ObjectsInv, Reloads, IsOf, First, Made
<1>8. Untouched'
  <2> SUFFICES ASSUME NEW m \in Names \ touched
               PROVE  /\ \A x \in Reloads : \A k \in DOMAIN deferred'[x] : deferred'[x][k].name # m
                      /\ \A i \in Workers : gang[i].name = m => workers'[m] = i
                      /\ gateway = "running" =>
                            IF m \in broken THEN workers'[m] = 0
                            ELSE /\ channels'[m] = First(m) /\ workers'[m] # 0
                                 /\ LET w == gang[workers'[m]]
                                    IN  w.object = First(m) /\ ~w.closed /\ w.at # "done"
    BY <1>2 DEF Untouched, First, Reloads
  <2>1. workers'[m] = workers[m] /\ channels'[m] = channels[m]
    BY <1>1
  <2>2. \A x \in Reloads : \A k \in DOMAIN deferred'[x] : deferred'[x][k].name # m
    BY <1>3 DEF ManagerInv, Untouched
  <2> QED BY <2>1, <2>2 DEF ManagerInv, Untouched
<1>9. Calls'
  <2> SUFFICES ASSUME gateway = "running" PROVE Calls'
    BY DEF Calls
  <2>1. \A m \in Names : workers'[m] # 0 => ~gang[workers'[m]].closed
    <3> SUFFICES ASSUME NEW m \in Names, workers'[m] # 0, gang[workers'[m]].closed PROVE FALSE
      OBVIOUS
    <3>1. workers[m] = workers'[m]
      OBVIOUS
    <3>2. owner \in Reloads /\ Head(deferred[owner]).name = m
      BY <3>1 DEF ManagerInv, Calls, ClosedIsOwned
    <3>3. owner = r
      BY <3>2, LifeFacts
    <3> QED BY <3>2, <3>3, LifeFacts
  <2>2. ClosedIsOwned'
    BY <2>1 DEF ClosedIsOwned
  <2>3. MissingHasCause'
    <3> SUFFICES ASSUME NEW m \in Names, hashes[m] # 0, channels'[m] = 0
                 PROVE  m \in broken \cup overtaken' \/ \E x \in Reloads : m \in Awaited(x)'
      BY DEF MissingHasCause, Reloads
    <3>1. CASE m = n
      BY <3>1
    <3>2. CASE m # n
      <4>1. m \in broken \cup overtaken \/ \E x \in Reloads : m \in Awaited(x)
        BY <3>2 DEF ManagerInv, Calls, MissingHasCause
      <4>2. \A x \in Reloads : m \in Awaited(x) => m \in Awaited(x)'
        BY <3>2, PopKeepsAwaited
      <4> QED BY <4>1, <4>2
    <3> QED BY <3>1, <3>2
  <2>4. ASSUME NEW x \in Reloads, task <= x PROVE deferred'[x] = <<>>
    <3>1. deferred[x] = <<>>
      BY <2>4 DEF ManagerInv, Calls
    <3> QED BY <3>1, PopShifts
  <2>5. \A x \in Reloads : \A k \in DOMAIN deferred'[x] : Follows(x, k)'
    BY PopKeepsFollows
  <2> QED BY <2>2, <2>3, <2>4, <2>5 DEF Calls, Reloads
<1>10. CrashHasCause'
  BY DEF CrashHasCause
<1> QED BY <1>4, <1>5, <1>6, <1>7, <1>8, <1>9, <1>10, StillIsInv

(* A name that is forgotten has a cause to have no object.                   *)
LEMMA ForgetKeeps ==
    ASSUME ManagerAssumption, ManagerInv, ManagerTypeOK',
           NEW r \in Reloads, deferred[r] # <<>>, Pop(r), gateway # "crashed",
           UNCHANGED <<hashes, halted, gang, task, cancelled, dispatcher, outbox, fate,
                       gateway, touched, broken>>,
           Head(deferred[r]).do = "unregister", Forget(r, Head(deferred[r]).name),
           owner' = 0, owner \in {0, r}
    PROVE  ManagerInv'
<1> DEFINE n == Head(deferred[r]).name
<1>1. n \in Names /\ 1 \in DOMAIN deferred[r] /\ Head(deferred[r]) = deferred[r][1]
      /\ workers \in [Names -> 0 .. Len(gang)] /\ channels \in [Names -> Objects]
  BY CallFacts DEF ManagerInv, ManagerTypeOK
<1>2. /\ \A m \in Names \ {n} : workers'[m] = workers[m] /\ channels'[m] = channels[m]
      /\ workers'[n] = 0 /\ channels'[n] = 0 /\ overtaken \subseteq overtaken'
      /\ hashes[n] \in {0, r + 1} \/ n \in overtaken'
  BY <1>1 DEF Forget
<1>3. ASSUME gateway = "running", hashes[n] = r + 1, n \notin broken PROVE n \in Awaited(r)'
  <2>1. Follows(r, 1)
    BY <1>1, <1>3 DEF ManagerInv, Calls
  <2>2. PICK j \in DOMAIN deferred[r] :
           1 < j /\ deferred[r][j].do = "register" /\ deferred[r][j].name = n
    BY <1>1, <1>3, <2>1 DEF Follows
  <2>3. DOMAIN deferred[r] = 1 .. Len(deferred[r])
    BY CallFacts
  <2>4. n \in Awaited(r)
    BY <1>1, <2>2, <2>3 DEF Awaited
  <2> QED BY <2>4, PopKeepsAwaited
<1>4. gateway = "running" =>
        /\ IsOf(channels'[n], n)
        /\ hashes[n] # 0 /\ channels'[n] = 0 => n \in overtaken' \cup broken \cup Awaited(r)'
        /\ Head(deferred[r]).do = "register" => channels'[n] # 0
  BY <1>2, <1>3 DEF IsOf
<1>5. /\ workers'[n] \in {0, workers[n]}
      /\ owner = 0 \/ (owner = r /\ workers'[n] = 0)
      /\ n = Head(deferred[r]).name
  BY <1>2
<1> HIDE DEF n
<1> QED BY <1>1, <1>2, <1>4, <1>5, PopKeeps

(* An unregistration closes the queue of the name's worker and waits for it; *)
(* where StopAll closed it before, the goroutine ends.                       *)
LEMMA UnregisterKeeps ==
    ASSUME ManagerAssumption, ManagerInv, NEW r \in Reloads, Unregister(r)
    PROVE  ManagerInv'
<1> DEFINE n == Head(deferred[r]).name  w == workers[n]
<1>1. ManagerTypeOK'
  BY LifeKeepsType DEF ManagerInv, Deferred
<1>2. /\ gateway # "crashed" /\ owner = 0 /\ deferred[r] # <<>>
      /\ Head(deferred[r]).do = "unregister"
      /\ UNCHANGED <<hashes, halted, task, cancelled, dispatcher, outbox, fate, gateway,
                     touched, broken>>
  BY DEF Unregister
<1>3. n \in Names /\ n \in touched /\ gateway # "starting"
      /\ deferred \in [Reloads -> Seq(Call)]
  BY <1>2, CallFacts, LifeFacts
<1>4. CASE w = 0 /\ Forget(r, n) /\ Pop(r) /\ UNCHANGED <<gang, owner>>
  BY <1>1, <1>2, <1>4, ForgetKeeps
<1>5. CASE /\ w # 0 /\ gang[w].closed
           /\ deferred' = [deferred EXCEPT ![r] = <<>>]
           /\ UNCHANGED <<workers, channels, gang, owner, overtaken>>
  <2>1. gateway # "running"
    <3>1. 0 \notin Reloads
      BY LifeFacts
    <3> QED BY <1>2, <1>3, <1>5, <3>1 DEF ManagerInv, Calls, ClosedIsOwned
  <2>2. \A x \in Reloads : \A k \in DOMAIN deferred'[x] :
           k \in DOMAIN deferred[x] /\ deferred'[x][k] = deferred[x][k]
    BY <1>3, <1>5
  <2>3. Workers' = Workers
    BY <1>5 DEF Workers
  <2>4. Still
    BY <1>2, <1>3, <1>5, <2>3 DEF Still, Workers
  <2>5. Lifecycle'
    BY <1>2, <1>3, <1>5 DEF ManagerInv, Lifecycle, BeforeStart
  <2>6. Holders'
    <3>1. owner' \notin Reloads
      BY <1>2, <1>5, LifeFacts
    <3> QED BY <1>2, <1>5, <2>3, <3>1 DEF ManagerInv, Holders, Reloads
  <2>7. ObjectsInv' /\ Calls' /\ CrashHasCause'
    BY <1>2, <1>3, <2>1 DEF ObjectsInv, Calls, CrashHasCause
  <2>8. Untouched'
    BY <1>2, <1>5, <2>1, <2>2, <2>3 DEF ManagerInv, Untouched, Reloads
  <2> QED BY <1>1, <2>4, <2>5, <2>6, <2>7, <2>8, StillIsInv
<1>6. CASE /\ w # 0 /\ gang' = [gang EXCEPT ![w].closed = TRUE] /\ owner' = r
           /\ UNCHANGED <<workers, channels, deferred, overtaken>>
  <2>1. w \in Workers /\ gang \in Seq(Worker) /\ Workers = 1 .. Len(gang)
    BY <1>3, <1>6, LifeFacts
  <2>2. gang[w] \in Worker /\ gang[w].name = n
    BY <1>3, <1>6, <2>1 DEF ManagerInv, Holders
  <2>3. /\ gang'[w] = [gang[w] EXCEPT !.closed = TRUE]
        /\ \A i \in Workers \ {w} : gang'[i] = gang[i]
        /\ DOMAIN gang' = Workers /\ Workers' = Workers
    BY <1>6, <2>1 DEF Workers
  <2>4. \A i \in Workers : /\ gang'[i].name = gang[i].name /\ gang'[i].at = gang[i].at
                           /\ gang'[i].msg = gang[i].msg /\ gang'[i].queue = gang[i].queue
                           /\ gang'[i].object = gang[i].object
    <3>1. \A g \in Worker : LET h == [g EXCEPT !.closed = TRUE]
                           IN  /\ h.name = g.name /\ h.at = g.at /\ h.msg = g.msg
                               /\ h.queue = g.queue /\ h.object = g.object
      BY DEF Worker
    <3>2. gang[w] \in Worker /\ gang'[w] = [gang[w] EXCEPT !.closed = TRUE]
      BY <2>2, <2>3
    <3>3. \A i \in Workers \ {w} : gang'[i] = gang[i]
      BY <2>3
    <3> HIDE DEF w
    <3>4. /\ gang'[w].name = gang[w].name /\ gang'[w].at = gang[w].at
          /\ gang'[w].msg = gang[w].msg /\ gang'[w].queue = gang[w].queue
          /\ gang'[w].object = gang[w].object
      BY <3>1, <3>2
    <3> QED BY <3>3, <3>4
  <2>5. Still
    BY <1>2, <1>3, <1>6, <2>3, <2>4 DEF Still
  <2>6. Lifecycle'
    BY <1>2, <1>3, <1>6 DEF ManagerInv, Lifecycle, BeforeStart
  <2>7. Holders'
    <3>1. /\ dispatcher.msg # 0 <=> dispatcher.at \in {"look", "put", "panicked"}
          /\ dispatcher.at = "put" => /\ dispatcher.worker # 0
                /\ gang'[dispatcher.worker].name = fate[dispatcher.msg].name
      BY <2>4, HandsFacts DEF ManagerInv, Holders
    <3>2. \A m \in Names : workers[m] # 0 => gang'[workers[m]].name = m
      BY <2>4, LifeFacts DEF ManagerInv, Holders
    <3>3. \A i \in Workers : gang'[i].closed => task = 0 \/ gang'[i].name \in touched
      BY <1>3, <2>2, <2>3, <2>4 DEF ManagerInv, Holders
    <3>4. \A i \in Workers : gang'[i].msg # 0 <=> gang'[i].at \in {"limit", "send", "pause"}
      BY <2>4 DEF ManagerInv, Holders
    <3>5. owner' = r /\ UNCHANGED <<workers, dispatcher, fate, task, touched, deferred>>
      BY <1>2, <1>6
    <3>6. deferred[r] # <<>> /\ Head(deferred[r]).do = "unregister"
      BY <1>2
    <3> QED BY <2>3, <3>1, <3>2, <3>3, <3>4, <3>5, <3>6 DEF Holders, Reloads
  <2>8. ObjectsInv'
    BY <1>2, <1>6 DEF ManagerInv, ObjectsInv
  <2>9. \A m \in Names \ {n} : workers[m] # 0 => gang'[workers[m]] = gang[workers[m]]
    <3> SUFFICES ASSUME NEW m \in Names \ {n}, workers[m] # 0
                 PROVE  gang'[workers[m]] = gang[workers[m]]
      OBVIOUS
    <3>1. workers[m] \in Workers /\ gang[workers[m]].name = m
      BY LifeFacts DEF ManagerInv, Holders
    <3> QED BY <2>2, <2>3, <3>1
  <2>10. Untouched'
    <3>0. UNCHANGED <<channels, workers, touched, broken, deferred, gateway>>
      BY <1>2, <1>6
    <3> SUFFICES ASSUME NEW m \in Names \ touched
                 PROVE  /\ \A x \in Reloads : \A k \in DOMAIN deferred[x] : deferred[x][k].name # m
                        /\ \A i \in Workers : gang'[i].name = m => workers[m] = i
                        /\ gateway = "running" =>
                              IF m \in broken THEN workers[m] = 0
                              ELSE /\ channels[m] = First(m) /\ workers[m] # 0
                                   /\ LET v == gang'[workers[m]]
                                      IN  v.object = First(m) /\ ~v.closed /\ v.at # "done"
      BY <2>3, <3>0 DEF Untouched, First, Reloads
    <3>1. m # n
      BY <1>3
    <3>2. workers[m] # 0 => gang'[workers[m]] = gang[workers[m]]
      BY <2>9, <3>1
    <3> QED BY <2>4, <3>2 DEF ManagerInv, Untouched
  <2>11. Calls'
    <3> SUFFICES ASSUME gateway = "running" PROVE Calls'
      BY <1>2 DEF Calls
    <3>1. ClosedIsOwned'
      <4> SUFFICES ASSUME NEW m \in Names, workers[m] # 0, gang'[workers[m]].closed
                   PROVE  m = n
        BY <1>2, <1>6 DEF ClosedIsOwned, Reloads
      <4>1. 0 \notin Reloads
        BY LifeFacts
      <4> QED BY <1>2, <2>9, <4>1 DEF ManagerInv, Calls, ClosedIsOwned
    <3>2. \A x \in Reloads : Awaited(x)' = Awaited(x)
      BY <1>6 DEF Awaited
    <3>3. MissingHasCause'
      BY <1>2, <1>6, <3>2 DEF ManagerInv, Calls, MissingHasCause, Reloads
    <3>4. \A x \in Reloads : \A k \in DOMAIN deferred[x] : Follows(x, k)'
      BY <1>2, <1>6 DEF ManagerInv, Calls, Follows
    <3>5. \A x \in Reloads : task <= x => deferred[x] = <<>>
      BY DEF ManagerInv, Calls
    <3> QED BY <1>2, <1>6, <3>1, <3>3, <3>4, <3>5 DEF Calls, Reloads
  <2>12. CrashHasCause'
    BY <1>2 DEF CrashHasCause
  <2> QED BY <1>1, <2>5, <2>6, <2>7, <2>8, <2>10, <2>11, <2>12, StillIsInv
<1> QED BY <1>4, <1>5, <1>6 DEF Unregister

(* An unregistration ends once the worker has returned.                      *)
LEMMA UnregisterEndsKeeps ==
    ASSUME ManagerAssumption, ManagerInv, NEW r \in Reloads, UnregisterEnds(r)
    PROVE  ManagerInv'
<1>1. ManagerTypeOK'
  BY LifeKeepsType DEF ManagerInv, Deferred
<1>2. /\ gateway # "crashed" /\ owner = r /\ Forget(r, Head(deferred[r]).name) /\ Pop(r)
      /\ owner' = 0
      /\ UNCHANGED <<hashes, halted, gang, task, cancelled, dispatcher, outbox, fate,
                     gateway, touched, broken>>
  BY DEF UnregisterEnds
<1>3. deferred[r] # <<>> /\ Head(deferred[r]).do = "unregister"
  BY <1>2 DEF ManagerInv, Holders
<1> QED BY <1>1, <1>2, <1>3, ForgetKeeps

(* A registration stores an object.                                          *)
LEMMA RegisterKeeps ==
    ASSUME ManagerAssumption, ManagerInv, NEW r \in Reloads, Register(r)
    PROVE  ManagerInv'
<1> DEFINE n == Head(deferred[r]).name
<1>1. ManagerTypeOK'
  BY LifeKeepsType DEF ManagerInv, Deferred
<1>2. /\ gateway # "crashed" /\ owner = 0 /\ deferred[r] # <<>> /\ Pop(r)
      /\ Head(deferred[r]).do = "register"
      /\ channels' = [channels EXCEPT ![n] = Head(deferred[r]).object]
      /\ UNCHANGED <<hashes, halted, workers, gang, task, cancelled, dispatcher, outbox,
                     fate, owner, gateway, touched, broken, overtaken>>
  BY DEF Register
<1>3. n \in Names /\ 1 \in DOMAIN deferred[r] /\ Head(deferred[r]) = deferred[r][1]
      /\ channels \in [Names -> Objects]
  BY <1>2, CallFacts DEF ManagerInv, ManagerTypeOK
<1>4. channels'[n] = Head(deferred[r]).object
      /\ \A m \in Names \ {n} : workers'[m] = workers[m] /\ channels'[m] = channels[m]
  BY <1>2, <1>3
<1>5. ASSUME gateway = "running" PROVE IsOf(channels'[n], n) /\ channels'[n] # 0
  <2>1. Follows(r, 1)
    BY <1>3, <1>5 DEF ManagerInv, Calls
  <2>2. channels'[n] # 0
    BY <1>2, <1>3, <1>4, <2>1 DEF Follows
  <2>3. IsOf(channels'[n], n)
    BY <1>3, <1>4, <1>5 DEF ManagerInv, ObjectsInv
  <2> QED BY <2>2, <2>3
<1>6. n = Head(deferred[r]).name /\ workers'[n] \in {0, workers[n]} /\ owner' = 0
      /\ overtaken \subseteq overtaken'
  BY <1>2
<1> HIDE DEF n
<1> QED BY <1>1, <1>2, <1>3, <1>4, <1>5, <1>6, PopKeeps

-----------------------------------------------------------------------------
(* Any run of the channel manager.                                           *)

(* NewManager establishes the invariant.                                     *)
LEMMA ManagerInitEstablishes ==
    ASSUME ManagerAssumption, ManagerInit
    PROVE  ManagerInv
<1>1. /\ halted = {} /\ workers = [n \in Names |-> 0] /\ gang = <<>> /\ task = 0
      /\ cancelled = {} /\ dispatcher = [at |-> "off", msg |-> 0, worker |-> 0]
      /\ outbox = <<>> /\ owner = 0 /\ gateway = "starting" /\ touched = {} /\ overtaken = {}
      /\ fate = [m \in Messages |-> [name |-> CHOOSE n \in Names : TRUE, is |-> "unborn"]]
      /\ deferred = [r \in Reloads |-> <<>>]
  BY DEF ManagerInit
<1>2. PICK enabled \in SUBSET Names : \E ready \in SUBSET enabled :
          /\ hashes = [n \in Names |-> IF n \in enabled THEN 1 ELSE 0]
          /\ channels = [n \in Names |-> IF n \in ready THEN First(n) ELSE 0]
          /\ broken = Names \ ready
  BY DEF ManagerInit, First
<1>3. PICK ready \in SUBSET enabled :
          /\ hashes = [n \in Names |-> IF n \in enabled THEN 1 ELSE 0]
          /\ channels = [n \in Names |-> IF n \in ready THEN First(n) ELSE 0]
          /\ broken = Names \ ready
  BY <1>2
<1>4. MaxReloads \in Nat /\ NumOut \in Nat /\ Made \in Nat /\ Made * (MaxReloads + 1) \in Nat
      /\ Made <= Made * (MaxReloads + 1)
  <2>1. MaxReloads \in Nat /\ NumOut \in Nat /\ Made \in Nat
    BY FS_CardinalityType DEF ManagerAssumption, Made
  <2> HIDE DEF Made
  <2>2. Made * (MaxReloads + 1) = Made * MaxReloads + Made /\ Made * MaxReloads \in Nat
    BY <2>1, SMT
  <2> QED BY <2>1, <2>2
<1>5. Workers = {} /\ Len(gang) = 0 /\ gang \in Seq(Worker)
  BY <1>1 DEF Workers
<1>6. \A n \in Names : First(n) \in Objects
  <2>1. Objects = 0 .. Made * (MaxReloads + 1)
    BY DEF Objects, Made
  <2> HIDE DEF Made
  <2> QED BY <1>4, <2>1, FirstIsSmall
<1>7. ManagerTypeOK
  <2>1. hashes \in [Names -> 0 .. MaxReloads + 1] /\ broken \subseteq Names
    BY <1>3, <1>4
  <2>2. channels \in [Names -> Objects]
    <3>1. 0 \in Objects
      BY <1>4 DEF Objects, Made
    <3> QED BY <1>3, <1>6, <3>1
  <2>3. fate \in [Messages -> [name: Names, is: {"unborn", "moving"} \cup Settled]]
    <3>1. (CHOOSE n \in Names : TRUE) \in Names
      BY DEF ManagerAssumption
    <3> QED BY <1>1, <3>1
  <2>4. deferred \in [Reloads -> Seq([do: {"unregister", "register"}, name: Names,
                                      object: Objects])]
    BY <1>1
  <2>5. task \in Contexts /\ owner \in 0 .. StopOwner
    BY <1>1, <1>4 DEF Contexts, StopOwner
  <2>6. dispatcher \in [at: {"off", "receive", "look", "put", "over", "panicked"},
                        msg: 0 .. NumOut, worker: 0 .. Len(gang)]
    BY <1>1, <1>4, <1>5
  <2>7. workers \in [Names -> 0 .. Len(gang)]
    BY <1>1, <1>5
  <2>8. outbox \in Seq(Messages)
    BY <1>1
  <2> QED BY <1>1, <1>5, <2>1, <2>2, <2>3, <2>4, <2>5, <2>6, <2>7, <2>8 DEF ManagerTypeOK
<1>8. \A m \in Messages : fate[m].is = "unborn"
  BY <1>1
<1>9. Lifecycle
  BY <1>1, <1>3, <1>8 DEF Lifecycle, BeforeStart
<1>10. Holders
  <2>1. owner \notin Reloads
    BY <1>1 DEF Reloads
  <2>2. dispatcher.at = "off" /\ dispatcher.msg = 0 /\ \A n \in Names : workers[n] = 0
    BY <1>1
  <2> QED BY <1>5, <2>1, <2>2 DEF Holders
<1>11. InPlace /\ InOrderOut
  <2>1. \A m \in Messages : ~Ahead(m)
    BY <1>1, <1>4 DEF Ahead, Messages
  <2>2. DOMAIN outbox = {}
    BY <1>1
  <2> QED BY <1>5, <1>8, <2>1, <2>2 DEF InPlace, InOrderOut, Ascending
<1>12. ObjectsInv
  BY <1>1, <1>3 DEF ObjectsInv, IsOf
<1>13. Untouched
  BY <1>1, <1>5 DEF Untouched
<1>14. Calls /\ CrashHasCause /\ SentInOrder
  BY <1>1 DEF Calls, CrashHasCause, SentInOrder
<1>15. DropHasCause
  BY <1>8 DEF DropHasCause
<1> QED BY <1>7, <1>9, <1>10, <1>11, <1>12, <1>13, <1>14, <1>15 DEF ManagerInv

(* Every step keeps it.                                                      *)
LEMMA ManagerNextKeeps ==
    ASSUME ManagerAssumption, ManagerInv, [ManagerNext]_chanVars
    PROVE  ManagerInv'
<1>1. ASSUME NEW started \in SUBSET Names, StartAll(started) PROVE ManagerInv'
  BY <1>1, StartAllKeeps
<1>2. ASSUME NEW r \in Reloads \cap {task}, NEW new \in Configurations(r),
             NEW ready \in SUBSET Added(new), NEW started \in SUBSET Added(new),
             Reload(r, new, ready, started)
      PROVE  ManagerInv'
  BY <1>2, ReloadKeeps
<1>3. CASE StopAll
  BY <1>3, StopAllKeeps
<1>4. CASE StopAllEnds
  BY <1>4, StopAllEndsKeeps
<1>5. ASSUME NEW r \in Reloads, Deferred(r) PROVE ManagerInv'
  BY <1>5, UnregisterKeeps, UnregisterEndsKeeps, RegisterKeeps DEF Deferred
<1>6. ASSUME NEW m \in Messages, NEW n \in Names, PublishOutbound(m, n) PROVE ManagerInv'
  BY <1>6, PublishKeeps
<1>7. CASE Drain
  BY <1>7, DrainKeeps
<1>8. CASE Dispatch
  BY <1>8, ReceiveKeeps, LookKeeps, PutKeeps DEF Dispatch
<1>9. ASSUME NEW i \in 1 .. Len(gang), Work(i) PROVE ManagerInv'
  <2>1. i \in Workers
    BY LifeFacts
  <2> QED BY <1>9, <2>1, WorkKeeps
<1>10. CASE UNCHANGED chanVars
  <2>1. UNCHANGED <<hashes, channels, halted, workers, gang, task, cancelled, dispatcher,
                    outbox, fate, owner, gateway, deferred, touched, broken, overtaken>>
    BY <1>10 DEF chanVars
  <2>2. ManagerTypeOK'
    BY <2>1 DEF ManagerInv, ManagerTypeOK, Workers
  <2>3. Still
    <3>1. touched \subseteq touched' /\ touched \cup broken \subseteq touched' \cup broken'
      BY <2>1
    <3> QED BY <2>1, <3>1 DEF Still, Workers
  <2>4. Lifecycle'
    BY <2>1 DEF ManagerInv, Lifecycle, BeforeStart, Reloads, First
  <2>5. Holders'
    BY <2>1 DEF ManagerInv, Holders, Workers, Reloads
  <2>6. ObjectsInv' /\ Untouched'
    BY <2>1 DEF ManagerInv, ObjectsInv, Untouched, Workers, Reloads
  <2>7. \A r \in Reloads : Awaited(r)' = Awaited(r)
    BY <2>1 DEF Awaited
  <2>8. Calls'
    BY <2>1, <2>7 DEF ManagerInv, Calls, ClosedIsOwned, MissingHasCause, Follows, Reloads
  <2>9. CrashHasCause'
    BY <2>1, <2>7 DEF ManagerInv, CrashHasCause, Reloads
  <2> QED BY <2>2, <2>3, <2>4, <2>5, <2>6, <2>8, <2>9, StillIsInv
<1> QED BY <1>1, <1>2, <1>3, <1>4, <1>5, <1>6, <1>7, <1>8, <1>9, <1>10 DEF ManagerNext

(* And it says that the channels deliver.                                    *)
LEMMA ManagerInvDelivers ==
    ASSUME ManagerAssumption, ManagerInv
    PROVE  ChannelsDeliver
<1>1. UntouchedFlows
  <2> SUFFICES ASSUME gateway = "running", NEW n \in Names \ (touched \cup broken)
               PROVE  /\ channels[n] \notin {0} \cup halted /\ workers[n] # 0
                      /\ LET w == gang[workers[n]]
                         IN  /\ w.object = channels[n] /\ ~w.closed /\ w.at # "done"
                             /\ w.ctx \notin cancelled
    BY DEF UntouchedFlows
  <2>1. /\ channels[n] = First(n) /\ workers[n] # 0
        /\ gang[workers[n]].object = First(n) /\ ~gang[workers[n]].closed
        /\ gang[workers[n]].at # "done"
    BY DEF ManagerInv, Untouched
  <2>2. First(n) \notin {0} \cup halted
    <3>1. \A o \in halted : o = 0 \/ o > Made \/ \E m \in touched : o = First(m)
      BY DEF ManagerInv, ObjectsInv
    <3>2. touched \subseteq Names /\ Made \in Nat
      BY FS_CardinalityType DEF ManagerInv, ManagerTypeOK, Made, ManagerAssumption
    <3>3. First(n) \in 1 .. Made
      BY FirstIsSmall
    <3>4. \A m \in touched : First(m) # First(n)
      BY <3>2, FirstIsSmall
    <3> QED BY <3>1, <3>2, <3>3, <3>4
  <2>3. cancelled = {}
    BY DEF ManagerInv, Lifecycle
  <2> QED BY <2>1, <2>2, <2>3
<1> QED BY <1>1 DEF ManagerInv, ChannelsDeliver

(* The manager's maps, the queues with their limit, the contexts and the     *)
(* deferred calls always have their types, whatever is reloaded.             *)
THEOREM ManagerTypeCorrect ==
    ASSUME ManagerAssumption
    PROVE  ManagerSpec => []ManagerTypeOK
<1>1. ManagerInit => ManagerInv
  BY ManagerInitEstablishes
<1>2. ManagerInv /\ [ManagerNext]_chanVars => ManagerInv'
  BY ManagerNextKeeps
<1>3. ManagerInv => ManagerTypeOK
  BY DEF ManagerInv
<1> QED BY <1>1, <1>2, <1>3, PTL DEF ManagerSpec

(* A channel that no reload touched keeps a live worker with a started object; *)
(* a message is dropped only when the manager stops or a reload touched its  *)
(* channel; messages of an untouched channel are sent in order; and the process *)
(* ends only through a send on a closed queue or a missing object, each with *)
(* its cause: the code of Reload, of its goroutine, of the dispatcher and of *)
(* runWorker, for any channels, reloads, messages, queue sizes and retries.  *)
THEOREM ChannelsDeliverCorrect ==
    ASSUME ManagerAssumption
    PROVE  ManagerSpec => []ChannelsDeliver
<1>1. ManagerInit => ManagerInv
  BY ManagerInitEstablishes
<1>2. ManagerInv /\ [ManagerNext]_chanVars => ManagerInv'
  BY ManagerNextKeeps
<1>3. ManagerInv => ChannelsDeliver
  BY ManagerInvDelivers
<1> QED BY <1>1, <1>2, <1>3, PTL DEF ManagerSpec

-----------------------------------------------------------------------------
(* The three together.                                                       *)

(* What services is checked on is a behaviour of each module: its own part   *)
(* takes the module's steps, and the others change none of its variables.    *)
LEMMA EachTakesItsSteps ==
    /\ ServicesInit => ManagerInit /\ CronInit /\ Init /\ part \in Parts
    /\ [ServicesNext]_allVars =>
          [ManagerNext]_chanVars /\ [CronNext]_cronVars /\ [Next]_eventVars /\ part' = part
<1>1. ServicesInit => ManagerInit /\ CronInit /\ Init /\ part \in Parts
  BY DEF ServicesInit
<1>2. ChannelsStep => ManagerNext /\ UNCHANGED <<part, cronVars, eventVars>>
  BY DEF ChannelsStep
<1>3. CronStep => CronNext /\ UNCHANGED <<part, chanVars, eventVars>>
  BY DEF CronStep
<1>4. EventsStep => Next /\ UNCHANGED <<part, chanVars, cronVars>>
  BY DEF EventsStep
<1>5. UNCHANGED allVars => UNCHANGED <<part, chanVars, cronVars, eventVars>>
  BY DEF allVars
<1> QED BY <1>1, <1>2, <1>3, <1>4, <1>5 DEF ServicesNext

(* The channel manager, the cron service and the event bus, started beside   *)
(* one another as the gateway does, each keep their types: none relies on a  *)
(* variable another writes.                                                  *)
THEOREM ServicesTypeCorrect == ServicesSpec => []TypesOK
<1> DEFINE Each == part \in Parts /\ ManagerInv /\ Inv /\ CliInv /\ SafeInv
<1>1. ManagerAssumption /\ CronAssumption /\ EventBusAssumption
  BY Assumptions
<1>2. ServicesInit => Each
  <2>1. CronInit => Inv /\ CliInv
    BY <1>1, InitCron, NoCliFacts DEF CronInit
  <2> QED BY <1>1, <2>1, EachTakesItsSteps, ManagerInitEstablishes, SafeInit
<1>3. Each /\ [ServicesNext]_allVars => Each'
  BY <1>1, EachTakesItsSteps, ManagerNextKeeps, NextKeeps, CliKeeps, SafeStep
<1>4. Each => TypesOK
  BY <1>1, InvTypes DEF ManagerInv, SafeInv, TypesOK
<1> QED BY <1>2, <1>3, <1>4, PTL DEF ServicesSpec

=============================================================================
