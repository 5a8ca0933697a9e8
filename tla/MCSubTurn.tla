----------------------------- MODULE MCSubTurn -----------------------------
(* SubTurn on small instances; the cfg files give the constants. *)
EXTENDS SubTurn
=============================================================================
