---------------------------- MODULE MCMessageBus -----------------------------
(* MessageBus with one stream that blocks and one that drops. *)
EXTENDS MessageBus

MCCap == [s \in Streams |-> 1]
MCStream == [m \in Publications |-> IF m <= 2 THEN "inbound" ELSE "audio"]
=============================================================================
