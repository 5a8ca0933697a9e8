----------------------------- MODULE MessageBus ------------------------------
(***************************************************************************)
(* The message bus (pkg/bus/bus.go): one buffered Go channel per stream,   *)
(* any number of publishing goroutines, one consumer per channel, and      *)
(* Close, which may be called while publishers are blocked on full         *)
(* channels and consumers are gone.  A publication is named by its         *)
(* message.                                                                *)
(*                                                                         *)
(* A send on a closed Go channel panics, so everything depends on Close    *)
(* closing the channels only after the last publisher has left: publishers *)
(* register in a WaitGroup under the mutex under which Close raises        *)
(* `closed', and `done' unblocks those that wait for room.                 *)
(***************************************************************************)
EXTENDS Naturals, Sequences, FiniteSets

CONSTANTS
    Streams,       \* the channels of the bus
    Checked,       \* those whose messages must carry a context
    Timed,         \* those whose publishers drop the message after a timeout
    Publications,  \* bound: the messages published in a behaviour
    stream,        \* stream[m]: the channel m is published to
    Cap,           \* Cap[s]: the buffer size of channel s
    Closers        \* the goroutines that call Close

ASSUME BusAssumption ==
    /\ Checked \subseteq Streams /\ Timed \subseteq Streams
    /\ IsFiniteSet(Publications)
    /\ stream \in [Publications -> Streams]
    /\ Cap \in [Streams -> Nat \ {0}]

VARIABLES
    pub,        \* pub[m]: where the call that publishes m is
    result,     \* result[m]: what that call returns, or "none"
    cancelled,  \* the publications whose context is done
    wg,         \* the WaitGroup's counter
    closed,     \* mb.closed and the closing of mb.done, set under the mutex
    buffer,     \* buffer[s]: the messages in channel s
    shut,       \* the channels that are closed
    once,       \* where the function run by closeOnce is
    closer,     \* closer[c]: where the call of Close by c is
    consumer,   \* consumer[s]: "running" or "stopped"
    consumed,   \* the messages consumers have received
    drained,    \* the messages Close has thrown away
    dropped     \* dropped[s]: the stream's drop counter

vars == <<pub, result, cancelled, wg, closed, buffer, shut, once, closer,
          consumer, consumed, drained, dropped>>

Init ==
    /\ pub = [m \in Publications |-> "idle"]
    /\ result = [m \in Publications |-> "none"]
    /\ cancelled = {}
    /\ wg = 0
    /\ closed = FALSE
    /\ buffer = [s \in Streams |-> <<>>]
    /\ shut = {}
    /\ once = "no"
    /\ closer = [c \in Closers |-> "idle"]
    /\ consumer = [s \in Streams |-> "running"]
    /\ consumed = {}
    /\ drained = {}
    /\ dropped = [s \in Streams |-> 0]

-----------------------------------------------------------------------------
(* A publishing goroutine. *)

Goes(m, from, to) ==
    /\ pub[m] = from
    /\ pub' = [pub EXCEPT ![m] = to]
    /\ UNCHANGED <<cancelled, closed, shut, once, closer, consumer, consumed, drained>>

Returns(m, r) == result' = [result EXCEPT ![m] = r]

(* The context of the call ends; the call no longer looks once it leaves. *)
CancelContext(m) ==
    /\ pub[m] \in {"idle", "sending"}
    /\ m \notin cancelled
    /\ cancelled' = cancelled \union {m}
    /\ UNCHANGED <<pub, result, wg, closed, buffer, shut, once, closer, consumer,
                   consumed, drained, dropped>>

(* A message without its context is refused before anything else; an audio  *)
(* chunk and a voice control carry none and are not asked.                  *)
RefuseInvalid(m) ==
    /\ Goes(m, "idle", "returned")
    /\ stream[m] \in Checked
    /\ Returns(m, "invalid")
    /\ UNCHANGED <<wg, buffer, dropped>>

(* enterPublish, under the mutex: refused, or counted in the WaitGroup. *)
EnterRefusedDone(m) ==
    /\ Goes(m, "idle", "returned")
    /\ \/ closed /\ Returns(m, "closed")
       \/ ~closed /\ m \in cancelled /\ Returns(m, "cancelled")
    /\ wg' = wg - 1
    /\ UNCHANGED <<buffer, dropped>>

EnterRefused(m) ==
    /\ Goes(m, "idle", "returned")
    /\ \/ closed /\ Returns(m, "closed")
       \/ ~closed /\ m \in cancelled /\ Returns(m, "cancelled")
    /\ UNCHANGED <<wg, buffer, dropped>>

EnterUnchecked(m) ==
    /\ Goes(m, "idle", "sending")
    /\ m \notin cancelled
    /\ wg' = wg + 1
    /\ UNCHANGED <<result, buffer, dropped>>

EnterPublish(m) ==
    /\ Goes(m, "idle", "sending")
    /\ ~closed
    /\ m \notin cancelled
    /\ wg' = wg + 1
    /\ UNCHANGED <<result, buffer, dropped>>

(* The select: any of its ready cases.  The deferred wg.Done is a step of   *)
(* its own.  A send on a closed channel panics.                             *)
SendThenCheck(m) ==
    /\ Goes(m, "sending", "leaving")
    /\ stream[m] \notin shut
    /\ Len(buffer[stream[m]]) < Cap[stream[m]]
    /\ buffer' = [buffer EXCEPT ![stream[m]] = Append(@, m)]
    /\ Returns(m, IF closed THEN "closed" ELSE "ok")
    /\ UNCHANGED <<wg, dropped>>

Send(m) ==
    /\ Goes(m, "sending", "leaving")
    /\ stream[m] \notin shut
    /\ Len(buffer[stream[m]]) < Cap[stream[m]]
    /\ buffer' = [buffer EXCEPT ![stream[m]] = Append(@, m)]
    /\ Returns(m, "ok")
    /\ UNCHANGED <<wg, dropped>>

SendPanics(m) ==
    /\ Goes(m, "sending", "panicked")
    /\ stream[m] \in shut
    /\ UNCHANGED <<result, wg, buffer, dropped>>

Offer(m) == IF stream[m] \in shut THEN SendPanics(m) ELSE Send(m)

GiveUpOnlyOnContext(m) ==
    /\ Goes(m, "sending", "leaving")
    /\ m \in cancelled /\ Returns(m, "cancelled")
    /\ UNCHANGED <<wg, buffer, dropped>>

GiveUp(m) ==
    /\ Goes(m, "sending", "leaving")
    /\ \/ m \in cancelled /\ Returns(m, "cancelled")
       \/ closed /\ Returns(m, "closed")
    /\ UNCHANGED <<wg, buffer, dropped>>

(* The timer of a stream with a drop budget fires. *)
TimesOut(m) ==
    /\ Goes(m, "sending", "leaving")
    /\ stream[m] \in Timed
    /\ dropped' = [dropped EXCEPT ![stream[m]] = @ + 1]
    /\ Returns(m, "dropped")
    /\ UNCHANGED <<wg, buffer>>

Leave(m) ==
    /\ Goes(m, "leaving", "returned")
    /\ wg' = wg - 1
    /\ UNCHANGED <<result, buffer, dropped>>

Call(m) == RefuseInvalid(m) \/ EnterRefused(m) \/ EnterPublish(m)
Publisher(m) == Offer(m) \/ GiveUp(m) \/ TimesOut(m) \/ Leave(m)

-----------------------------------------------------------------------------
(* The consumers. *)

Receive(s) ==
    /\ consumer[s] = "running"
    /\ buffer[s] # <<>>
    /\ buffer' = [buffer EXCEPT ![s] = Tail(@)]
    /\ consumed' = consumed \union {Head(buffer[s])}
    /\ UNCHANGED <<pub, result, cancelled, wg, closed, shut, once, closer,
                   consumer, drained, dropped>>

(* A consumer leaves when its own context ends, or when its channel is      *)
(* closed and empty.                                                        *)
ConsumerStops(s) ==
    /\ consumer[s] = "running"
    /\ consumer' = [consumer EXCEPT ![s] = "stopped"]
    /\ UNCHANGED <<pub, result, cancelled, wg, closed, buffer, shut, once, closer,
                   consumed, drained, dropped>>

-----------------------------------------------------------------------------
(* Close: the first caller of closeOnce runs the function, the others wait. *)

Unmoved == UNCHANGED <<pub, result, cancelled, wg, consumer, consumed, dropped>>

CloseCall(c) ==
    /\ closer[c] = "idle"
    /\ closer' = [closer EXCEPT ![c] = "called"]
    /\ once' = IF once = "no" THEN "flag" ELSE once
    /\ UNCHANGED <<closed, buffer, shut, drained>> /\ Unmoved

RaiseClosed ==
    /\ once = "flag"
    /\ once' = "wait"
    /\ closed' = TRUE
    /\ UNCHANGED <<buffer, shut, closer, drained>> /\ Unmoved

WaitPublishers ==
    /\ once = "wait"
    /\ wg = 0
    /\ once' = "close"
    /\ UNCHANGED <<closed, buffer, shut, closer, drained>> /\ Unmoved

(* The channels are closed one after the other, here in any order. *)
CloseChannel(s) ==
    /\ once = "close"
    /\ s \notin shut
    /\ shut' = shut \union {s}
    /\ once' = IF shut' = Streams THEN "drain" ELSE "close"
    /\ UNCHANGED <<closed, buffer, closer, drained>> /\ Unmoved

Drain(s) ==
    /\ once = "drain"
    /\ buffer[s] # <<>>
    /\ buffer' = [buffer EXCEPT ![s] = Tail(@)]
    /\ drained' = drained \union {Head(buffer[s])}
    /\ UNCHANGED <<closed, shut, once, closer>> /\ Unmoved

DrainSkipped ==
    /\ once = "drain"
    /\ once' = "finished"
    /\ UNCHANGED <<closed, buffer, shut, closer, drained>> /\ Unmoved

CloseFinishes ==
    /\ once = "drain"
    /\ \A s \in Streams : buffer[s] = <<>>
    /\ once' = "finished"
    /\ UNCHANGED <<closed, buffer, shut, closer, drained>> /\ Unmoved

CloseReturnsEarly(c) ==
    /\ closer[c] = "called"
    /\ once # "flag"
    /\ closer' = [closer EXCEPT ![c] = "returned"]
    /\ UNCHANGED <<closed, buffer, shut, once, drained>> /\ Unmoved

CloseReturns(c) ==
    /\ closer[c] = "called"
    /\ once = "finished"
    /\ closer' = [closer EXCEPT ![c] = "returned"]
    /\ UNCHANGED <<closed, buffer, shut, once, drained>> /\ Unmoved

Closing ==
    \/ RaiseClosed \/ WaitPublishers \/ CloseFinishes
    \/ \E s \in Streams : CloseChannel(s) \/ Drain(s)
    \/ \E c \in Closers : CloseReturns(c)

Terminated ==
    /\ \A m \in Publications : pub[m] = "returned"
    /\ \A c \in Closers : closer[c] = "returned"
    /\ UNCHANGED vars

Next ==
    \/ \E m \in Publications : Call(m) \/ Publisher(m) \/ CancelContext(m)
    \/ \E s \in Streams : Receive(s) \/ ConsumerStops(s)
    \/ \E c \in Closers : CloseCall(c)
    \/ Closing
    \/ Terminated

Spec == Init /\ [][Next]_vars

(* A ready select returns, a timer fires, and Close goes on when it can.    *)
(* Nothing obliges anybody to publish or to call Close, a context to end or *)
(* a consumer to run.                                                       *)
Fairness ==
    /\ \A m \in Publications : WF_vars(Publisher(m))
    /\ WF_vars(Closing)
FairSpec == Spec /\ Fairness

-----------------------------------------------------------------------------
(* Properties. *)

InFlight(m) == pub[m] \in {"sending", "leaving"}
Buffered == UNION {{buffer[s][i] : i \in DOMAIN buffer[s]} : s \in Streams}

TypeOK ==
    /\ pub \in [Publications -> {"idle", "sending", "leaving", "returned", "panicked"}]
    /\ result \in [Publications ->
                     {"none", "ok", "invalid", "cancelled", "closed", "dropped"}]
    /\ cancelled \subseteq Publications
    /\ wg \in Nat
    /\ closed \in BOOLEAN
    /\ buffer \in [Streams -> Seq(Publications)]
    /\ shut \subseteq Streams
    /\ once \in {"no", "flag", "wait", "close", "drain", "finished"}
    /\ closer \in [Closers -> {"idle", "called", "returned"}]
    /\ consumer \in [Streams -> {"running", "stopped"}]
    /\ consumed \subseteq Publications
    /\ drained \subseteq Publications
    /\ dropped \in [Streams -> Nat]

(* No publisher sends on a closed channel, which would panic: when Close    *)
(* closes the first channel the last publisher has left the bus.            *)
NoSendOnClosed ==
    /\ \A m \in Publications : pub[m] # "panicked"
    /\ shut # {} => \A m \in Publications : ~InFlight(m)

(* A message whose publisher is told nil is in its channel, with a consumer *)
(* or thrown away by Close, and in one of these only; one whose publisher   *)
(* got an error is in none.                                                 *)
Accounted ==
    /\ \A m \in Publications :
         result[m] = "ok" <=> m \in Buffered \union consumed \union drained
    /\ Buffered \intersect consumed = {}
    /\ Buffered \intersect drained = {}
    /\ consumed \intersect drained = {}
    /\ \A s \in Streams : Len(buffer[s]) <= Cap[s]

(* When a call of Close returns, to whichever of several callers, no        *)
(* message is left in the bus and none can enter it.                        *)
ClosedIsEmpty ==
    (\E c \in Closers : closer[c] = "returned") =>
        closed /\ Buffered = {} /\ \A m \in Publications : pub[m] # "sending"

(* Close returns, whatever publishers wait for room and consumers are gone. *)
CloseCompletes == \A c \in Closers : closer[c] = "called" ~> closer[c] = "returned"

(* The bus is a bounded mailbox. *)
outcome ==
    [m \in Publications |->
        IF m \in consumed THEN "delivered"
        ELSE IF m \in drained THEN "discarded"
        ELSE IF result[m] = "ok" THEN "accepted" ELSE result[m]]
phase == IF ~closed THEN "open" ELSE IF once = "finished" THEN "closed" ELSE "closing"
M == INSTANCE Mailbox WITH box <- buffer
ImplementsMailbox == M!Spec
=============================================================================
