----------------------------- MODULE MCAgentLoop -----------------------------
(* AgentLoop on small instances; the cfg files give the constants. *)
EXTENDS AgentLoop, TLC

(* Session keys are only compared, so the routed ones are interchangeable in *)
(* runs that check no liveness.                                              *)
SessionSymmetry == Permutations(Sessions)
=============================================================================
