------------------------------ MODULE MCDispatch ------------------------------
(* The dispatcher and, apart from it, a turn as its workers run them.  The     *)
(* dispatcher's turns only poll and end, so that the two share no state here:  *)
(* a behaviour runs one of them and leaves the other where it starts.  The cfg *)
(* files give the constants, one for safety and a smaller one for liveness.    *)
EXTENDS AgentLoop, Turn, TLC

CONSTANTS s1, s2, Main

VARIABLE part    \* which of the two a behaviour runs

DispatchInit ==
    /\ part \in {"loop", "turn"} /\ Init /\ TurnInit
    /\ part = "turn" \/ ~continuation

DispatchNext ==
    \/ part = "loop" /\ Next /\ UNCHANGED <<part, turnVars>>
    \/ part = "turn" /\ TurnNext /\ UNCHANGED <<part, vars>>

DispatchSpec == DispatchInit /\ [][DispatchNext]_<<part, vars, turnVars>>

(* The fairness of both modules, for the part that runs.                      *)
FairDispatchSpec ==
    /\ DispatchSpec
    /\ WF_turnVars(part = "turn" /\ Step)
    /\ WF_vars(part = "loop" /\ MainStep)
    /\ \A m \in Messages : WF_vars(part = "loop" /\ Worker(m))

(* Session keys are only compared, so that the routed ones are alike.         *)
DispatchSymmetry == Permutations(Sessions)

(* The turn ends (Turn: TurnEnds), in a behaviour that runs it.               *)
TurnComesToEnd == part = "turn" => TurnEnds
=============================================================================
