------------------------------- MODULE MCJobs -------------------------------
(* The job service and the executor that runs the commands of a            *)
(* repository: one at a time, they share no state.                         *)
EXTENDS MCJobService, Commands

VARIABLE part   \* the part that moves

JobsInit == part \in {"jobs", "executor"} /\ Init /\ X!Init

JobsNext ==
    /\ UNCHANGED part
    /\ \/ part = "jobs" /\ Next /\ UNCHANGED executorVars
       \/ part = "executor" /\ X!Next /\ UNCHANGED vars

JobsSpec == JobsInit /\ [][JobsNext]_<<part, vars, executorVars>>
=============================================================================
