------------------------------- MODULE Mailbox -------------------------------
(***************************************************************************)
(* What the message bus promises to its users: each stream is a bounded    *)
(* FIFO box.  A published message is accepted into its box or its          *)
(* publisher is told that it was not; an accepted message is delivered, in *)
(* order, or, once the bus is closing, discarded; when Close has returned  *)
(* the boxes are empty and stay so.  MessageBus.tla is shown to implement  *)
(* this.                                                                   *)
(***************************************************************************)
EXTENDS Naturals, Sequences

CONSTANTS Streams, Publications, stream, Cap

VARIABLES
    box,      \* box[s]: the messages accepted into s and not yet out of it
    outcome,  \* outcome[m]: what became of publication m
    phase     \* "open", "closing" or "closed"

mvars == <<box, outcome, phase>>

Refusals == {"invalid", "cancelled", "closed", "dropped"}

Init ==
    /\ box = [s \in Streams |-> <<>>]
    /\ outcome = [m \in Publications |-> "none"]
    /\ phase = "open"

Accept(m) ==
    /\ outcome[m] = "none"
    /\ phase # "closed"
    /\ Len(box[stream[m]]) < Cap[stream[m]]
    /\ box' = [box EXCEPT ![stream[m]] = Append(@, m)]
    /\ outcome' = [outcome EXCEPT ![m] = "accepted"]
    /\ UNCHANGED phase

(* A publisher is told that the bus is closed only when it is closing. *)
Refuse(m) ==
    /\ outcome[m] = "none"
    /\ \E r \in Refusals :
         /\ r = "closed" => phase # "open"
         /\ outcome' = [outcome EXCEPT ![m] = r]
    /\ UNCHANGED <<box, phase>>

Out(s, how) ==
    /\ box[s] # <<>>
    /\ box' = [box EXCEPT ![s] = Tail(@)]
    /\ outcome' = [outcome EXCEPT ![Head(box[s])] = how]
    /\ UNCHANGED phase

Deliver(s) == Out(s, "delivered")
Discard(s) == phase = "closing" /\ Out(s, "discarded")

BeginClose ==
    /\ phase = "open"
    /\ phase' = "closing"
    /\ UNCHANGED <<box, outcome>>

EndClose ==
    /\ phase = "closing"
    /\ \A s \in Streams : box[s] = <<>>
    /\ phase' = "closed"
    /\ UNCHANGED <<box, outcome>>

Next ==
    \/ \E m \in Publications : Accept(m) \/ Refuse(m)
    \/ \E s \in Streams : Deliver(s) \/ Discard(s)
    \/ BeginClose
    \/ EndClose

Spec == Init /\ [][Next]_mvars
=============================================================================
