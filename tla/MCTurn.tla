------------------------------- MODULE MCTurn -------------------------------
(* Turn on small instances; the cfg files give the constants. *)
EXTENDS Turn
=============================================================================
