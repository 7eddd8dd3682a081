--------------------------- MODULE MCTestProposal ---------------------------
(* The subprocess of one job, and the proposal of a test with two callers  *)
(* that runs its own: one at a time, they share no state.                  *)
EXTENDS JobProcess, Proposals

VARIABLE part   \* the part that moves

BothInit == part \in {"process", "proposal"} /\ Init /\ TP!Init

BothNext ==
    /\ UNCHANGED part
    /\ \/ part = "process" /\ Next /\ UNCHANGED proposalVars
       \/ part = "proposal" /\ TP!Next /\ UNCHANGED vars

BothSpec == BothInit /\ [][BothNext]_<<part, vars, proposalVars>>

(* Two callers; one deletion in file a, three in file b.                   *)
MCKeyOf == [c \in Callers |-> c]
MCFileOrder == <<"a", "b">>
MCUnits == [f \in {"a", "b"} |-> IF f = "a" THEN 1 ELSE 3]

ASSUME InstanceAssumption == TP!ProposalAssumption
=============================================================================
