------------------------------ MODULE EventBus ------------------------------
(* The runtime event bus: publishers that walk a snapshot of the             *)
(* subscriptions and hand an event to each by its backpressure policy, one   *)
(* goroutine per subscription that calls the handler, and the closing of a   *)
(* subscription, which marks it, waits for blocked publishers and only then  *)
(* closes its channel.  Subscriptions are numbered in delivery order; filters *)
(* match everything; handlers run one at a time and return (a handler that   *)
(* times out goes on beside its successor, which changes no state here).     *)
EXTENDS Integers, Sequences, FiniteSets

CONSTANTS
    Publishers,  \* goroutines that publish
    NumSubs,     \* bound: subscriptions
    Policy,      \* Backpressure of each subscription
    Once,        \* subscriptions made by SubscribeOnce
    Buffer,      \* SubscribeOptions.Buffer
    MaxEvents,   \* bound: the number of a publisher's last event
    Setups       \* the subscriptions made before the first event, with the
                 \* number of events each publisher has published before

Subs == 1 .. NumSubs

EventBusAssumption ==
    /\ IsFiniteSet(Publishers)
    /\ {NumSubs, MaxEvents} \subseteq Nat /\ Buffer \in Nat \ {0}
    /\ Policy \in [Subs -> {"DropNewest", "DropOldest", "Block"}] /\ Once \subseteq Subs
    /\ Setups \subseteq [subs: SUBSET Subs, count: [Publishers -> 0 .. MaxEvents]]

VARIABLES
    registered, \* b.subs
    open,       \* ~b.closed
    closing,    \* bus.Close: the subscriptions it has yet to close
    stage,      \* how far closeInput of each subscription has come
    queue,      \* s.ch
    runner,     \* the goroutine of each subscription and its event
    publisher,  \* each publisher's place, event and subscriptions to come
    last        \* history: the number of the last event of each publisher handled

eventVars == <<registered, open, closing, stage, queue, runner, publisher, last>>

Events == Publishers \X (1 .. MaxEvents)
Stages == {"open", "leaving", "marked", "closed", "shut"}
Places == {"idle", "next", "send", "offer", "evict", "resend", "block"}

TypeOK ==
    /\ registered \subseteq Subs /\ open \in BOOLEAN /\ closing \subseteq Subs
    /\ stage \in [Subs -> Stages]
    /\ queue \in [Subs -> Seq(Events)] /\ \A s \in Subs : Len(queue[s]) <= Buffer
    /\ runner \in [Subs -> {"take", "handle", "close", "done"}]
    /\ publisher \in [Publishers -> [at: Places, count: 0 .. MaxEvents, left: SUBSET Subs,
                                     sub: 0 .. NumSubs, wait: BOOLEAN]]
    /\ last \in [Subs -> [Publishers -> 0 .. MaxEvents]]

Init ==
    /\ open = TRUE /\ closing = {}
    /\ queue = [s \in Subs |-> <<>>]
    /\ \E setup \in Setups :
          /\ registered = setup.subs
          /\ stage = [s \in Subs |-> IF s \in setup.subs THEN "open" ELSE "shut"]
          /\ runner = [s \in Subs |-> IF s \in setup.subs THEN "take" ELSE "done"]
          /\ publisher = [p \in Publishers |-> [at |-> "idle", count |-> setup.count[p],
                             left |-> {}, sub |-> 0, wait |-> FALSE]]
    /\ last = [s \in Subs |-> [p \in Publishers |-> 0]]

-----------------------------------------------------------------------------
(* Publishing.                                                               *)

Event(p) == <<p, publisher[p].count>>
At(p, place) == publisher[p].at = place
Goto(p, place) == publisher' = [publisher EXCEPT ![p].at = place]
BusSame == UNCHANGED <<registered, open, closing, stage, runner, last>>

(* snapshotSubscribers; wait is Publish, ~wait PublishNonBlocking.           *)
Publish(p, wait) ==
    /\ At(p, "idle") /\ publisher[p].count < MaxEvents
    /\ publisher' = [publisher EXCEPT
          ![p].count = @ + 1, ![p].wait = wait, ![p].left = registered,
          ![p].at = IF open THEN "next" ELSE "idle"]
    /\ BusSame /\ UNCHANGED queue

(* The publishers that hold s.mu for reading, and those blockWG counts.      *)
Readers(s) ==
    {p \in Publishers : publisher[p].sub = s
                         /\ publisher[p].at \in {"send", "offer", "evict", "resend"}}
Blocked(s) == {p \in Publishers : publisher[p].sub = s /\ At(p, "block")}

(* enqueue, up to the check of closed under s.mu.                            *)
Enter(p) ==
    LET left == publisher[p].left
        s == CHOOSE x \in left : \A y \in left : x <= y
        gone == stage[s] \in {"closed", "shut"}
        blocks == publisher[p].wait /\ Policy[s] = "Block"
    IN  /\ At(p, "next")
        /\ IF left = {} THEN Goto(p, "idle")
           ELSE publisher' = [publisher EXCEPT
                  ![p].left = @ \ {s},
                  ![p].sub = IF gone THEN 0 ELSE s,
                  ![p].at = IF gone THEN "next" ELSE IF blocks THEN "block" ELSE "send"]
        /\ (left # {} /\ blocks => Readers(s) = {})
        /\ BusSame /\ UNCHANGED queue

Return(p) == publisher' = [publisher EXCEPT ![p].at = "next", ![p].sub = 0]

Deliver(p, s) ==
    /\ Len(queue[s]) < Buffer
    /\ queue' = [queue EXCEPT ![s] = Append(@, Event(p))]
    /\ Return(p)

Refuse(p) == Return(p) /\ UNCHANGED queue

(* The channel s.closing is closed.                                          *)
Marked(s) == stage[s] \notin {"open", "leaving"}

(* enqueueDropNewest, and the first half of enqueueDropOldest: a look at     *)
(* closing, then an offer, which a close that begins meanwhile does not stop. *)
Send(p) ==
    /\ At(p, "send") /\ BusSame /\ UNCHANGED queue
    /\ IF Marked(publisher[p].sub) THEN Return(p) ELSE Goto(p, "offer")

Offer(p) ==
    LET s == publisher[p].sub
    IN  /\ At(p, "offer") /\ BusSame
        /\ \/ Deliver(p, s)
           \/ /\ Len(queue[s]) = Buffer
              /\ IF Policy[s] = "DropOldest"
                 THEN Goto(p, "evict") /\ UNCHANGED queue
                 ELSE Refuse(p)

(* Take the oldest event out, unless the handler's goroutine was faster.     *)
Evict(p) ==
    LET s == publisher[p].sub
    IN  /\ At(p, "evict") /\ BusSame /\ Goto(p, "resend")
        /\ queue' = [queue EXCEPT ![s] = IF @ = <<>> THEN @ ELSE Tail(@)]

ResendAnyway(p) ==
    LET s == publisher[p].sub
    IN  /\ At(p, "resend") /\ BusSame /\ Return(p)
        /\ queue' = [queue EXCEPT ![s] = Append(@, Event(p))]

(* Another publisher may have taken the room, and a close may have begun.    *)
Resend(p) ==
    LET s == publisher[p].sub
    IN  /\ At(p, "resend") /\ BusSame
        /\ \/ Deliver(p, s)
           \/ (Marked(s) \/ Len(queue[s]) = Buffer) /\ Refuse(p)

(* enqueueBlock: wait for room, for the close or for the caller's context.   *)
Block(p) ==
    LET s == publisher[p].sub
    IN  /\ At(p, "block") /\ BusSame
        /\ Deliver(p, s) \/ (Marked(s) /\ Refuse(p))

ContextDone(p) == At(p, "block") /\ BusSame /\ Refuse(p)

-----------------------------------------------------------------------------
(* Closing.                                                                  *)

CloseOnly == UNCHANGED <<queue, publisher, last>>

(* Subscription.Close, by its owner or by the end of its context, takes the  *)
(* subscription off the bus before it begins to close the input.             *)
Unsubscribe(s) ==
    /\ s \in registered /\ registered' = registered \ {s}
    /\ stage' = [stage EXCEPT ![s] = "leaving"]
    /\ CloseOnly /\ UNCHANGED <<open, closing, runner>>

(* EventBus.Close closes the inputs one after another.                       *)
CloseBus ==
    /\ open /\ open' = FALSE /\ closing' = registered /\ registered' = {}
    /\ CloseOnly /\ UNCHANGED <<stage, runner>>

CloseNext ==
    \E s \in closing :
        /\ \A r \in Subs : r \in closing => s <= r
        /\ IF stage[s] = "open" THEN stage' = [stage EXCEPT ![s] = "marked"] /\ UNCHANGED closing
           ELSE stage[s] = "shut" /\ closing' = closing \ {s} /\ UNCHANGED stage
        /\ CloseOnly /\ UNCHANGED <<registered, open, runner>>

(* closeInput: close closing, set closed under s.mu ...                      *)
MarkClosing(s) ==
    /\ stage[s] = "leaving" /\ stage' = [stage EXCEPT ![s] = "marked"]
    /\ CloseOnly /\ UNCHANGED <<registered, open, closing, runner>>

MarkClosed(s) ==
    /\ stage[s] = "marked" /\ Readers(s) = {}
    /\ stage' = [stage EXCEPT ![s] = "closed"]
    /\ CloseOnly /\ UNCHANGED <<registered, open, closing, runner>>

ShutAtOnce(s) ==
    /\ stage[s] = "closed" /\ Readers(s) = {}
    /\ stage' = [stage EXCEPT ![s] = "shut"]
    /\ CloseOnly /\ UNCHANGED <<registered, open, closing, runner>>

(* ... and close the channel once no publisher blocks on it.                 *)
Shut(s) ==
    /\ stage[s] = "closed" /\ Blocked(s) = {} /\ Readers(s) = {}
    /\ stage' = [stage EXCEPT ![s] = "shut"]
    /\ CloseOnly /\ UNCHANGED <<registered, open, closing, runner>>

-----------------------------------------------------------------------------
(* run: the goroutine of subscription s.                                     *)

RunOnly == UNCHANGED <<open, closing, publisher>>

Handle(s) ==
    /\ runner[s] = "take" /\ queue[s] # <<>>
    /\ queue' = [queue EXCEPT ![s] = Tail(@)]
    /\ LET event == Head(queue[s]) IN last' = [last EXCEPT ![s][event[1]] = event[2]]
    /\ runner' = [runner EXCEPT ![s] = "handle"]
    /\ RunOnly /\ UNCHANGED <<registered, stage>>

(* After its event a once subscription closes itself, unless another has     *)
(* begun to.                                                                 *)
Handled(s) ==
    /\ runner[s] = "handle"
    /\ IF s \notin Once
       THEN runner' = [runner EXCEPT ![s] = "take"] /\ UNCHANGED <<registered, stage>>
       ELSE IF s \in registered
       THEN /\ registered' = registered \ {s} /\ stage' = [stage EXCEPT ![s] = "leaving"]
            /\ runner' = [runner EXCEPT ![s] = "close"]
       ELSE runner' = [runner EXCEPT ![s] = "done"] /\ UNCHANGED <<registered, stage>>
    /\ RunOnly /\ UNCHANGED <<queue, last>>

DoneByDrain(s) ==
    /\ stage[s] = "shut" /\ runner[s] = "take" /\ queue[s] = <<>>
    /\ runner' = [runner EXCEPT ![s] = "done"]
    /\ RunOnly /\ UNCHANGED <<registered, stage, queue, last>>

Done(s) ==
    /\ stage[s] = "shut"
    /\ runner[s] = "close" \/ (runner[s] = "take" /\ queue[s] = <<>>)
    /\ runner' = [runner EXCEPT ![s] = "done"]
    /\ RunOnly /\ UNCHANGED <<registered, stage, queue, last>>

-----------------------------------------------------------------------------
Publishing(p) ==
    \/ \E wait \in BOOLEAN : Publish(p, wait)
    \/ Enter(p) \/ Send(p) \/ Offer(p) \/ Evict(p) \/ Resend(p) \/ Block(p)

Close(s) == MarkClosing(s) \/ MarkClosed(s) \/ Shut(s)
Run(s) == Handle(s) \/ Handled(s) \/ Done(s)

Next ==
    \/ \E p \in Publishers : Publishing(p) \/ ContextDone(p)
    \/ \E s \in Subs : Unsubscribe(s) \/ Close(s) \/ Run(s)
    \/ CloseBus \/ CloseNext

(* Goroutines that can go on do, and handlers return; nobody has to publish, *)
(* to cancel or to close.                                                    *)
Fairness ==
    /\ \A p \in Publishers : WF_eventVars(~At(p, "idle") /\ Publishing(p))
    /\ \A s \in Subs : WF_eventVars(Close(s)) /\ WF_eventVars(Run(s))
    /\ WF_eventVars(CloseNext)

Spec == Init /\ [][Next]_eventVars /\ Fairness

-----------------------------------------------------------------------------
(* Properties.                                                               *)

(* No publisher that passed the check of closed is still at a send when the  *)
(* channel is closed: the send would panic (closed, blockWG, s.mu).          *)
NoSendOnClosed ==
    \A s \in Subs : stage[s] = "shut" => Readers(s) \cup Blocked(s) = {}

(* What lies in a subscription's queue when it is closed still reaches the   *)
(* handler before its goroutine ends (a once subscription's first event       *)
(* excepted).                                                                 *)
ClosedIsDrained == \A s \in Subs \ Once : runner[s] = "done" => queue[s] = <<>>

(* A handler sees one publisher's events in the order they were published    *)
(* and none twice, although DropOldest takes events out of the channel while *)
(* others put them in: what waits is newer than what was handled, and what    *)
(* waits behind is newer still.                                               *)
HandledInOrder ==
    \A s \in Subs : \A k \in DOMAIN queue[s] :
        /\ queue[s][k][2] > last[s][queue[s][k][1]]
        /\ \A l \in 1 .. k - 1 :
              queue[s][l][1] = queue[s][k][1] => queue[s][l][2] < queue[s][k][2]

(* What the end of a subscription must not break.                             *)
CloseIsClean == NoSendOnClosed /\ ClosedIsDrained /\ HandledInOrder

(* A close comes to its end although publishers block on the subscription,   *)
(* and no publisher stays for ever: once nothing more is published, all are  *)
(* at rest again and again.                                                  *)
ClosesAndReturns ==
    []<>(/\ \A p \in Publishers : At(p, "idle")
         /\ \A s \in Subs : stage[s] = "open" \/ (stage[s] = "shut" /\ runner[s] = "done")
         /\ open \/ closing = {})
=============================================================================
