---------------------------- MODULE SteeringQueue ----------------------------
(* One poll of a session's steering queue (pkg/agent/steering.go): the agent  *)
(* loop's continuations and the turns themselves take messages with it.       *)
EXTENDS Sequences

CONSTANT SteeringMode    \* "one-at-a-time" or "all"

(* steeringQueue.dequeueLocked: the messages one poll takes, and the rest.    *)
Batch(q) == IF SteeringMode = "all" \/ q = <<>> THEN q ELSE <<Head(q)>>
Rest(q) == IF SteeringMode = "all" \/ q = <<>> THEN <<>> ELSE Tail(q)
=============================================================================
