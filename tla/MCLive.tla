------------------------------- MODULE MCLive -------------------------------
(* What must end: the run of an approved review, and a delegation that its *)
(* user stops, one at a time.  The part that does not move stays in its    *)
(* initial state, where none of the steps its fairness is about is enabled.*)
EXTENDS ReviewControl

CONSTANTS
    MaxAuths, Jobs, Contents, MaxReverify, Criteria, MaxVersions,
    MaxDeaths            \* MaxCrashes of Delegation

VARIABLES
    part,                \* the part that moves
    auth, job, round, source, requirement, lapsed, dlock, checker, stopper, runner, raised,
    over, inner, work, deaths, entered, ran, recorded, aborted, returned   \* Delegation

D == INSTANCE Delegation WITH
    Snapshots <- Contents, MaxCrashes <- MaxDeaths, crashes <- deaths

delegationVars == <<auth, job, round, source, requirement, lapsed, dlock, checker, stopper, runner,
                    raised, over, inner, work, deaths, entered, ran, recorded, aborted, returned>>

LiveInit == part \in {"review", "delegation"} /\ Init /\ D!Init

(* A review must not stop anywhere; a delegation may rest.                 *)
LiveNext ==
    /\ UNCHANGED part
    /\ \/ part = "review" /\ Next /\ UNCHANGED delegationVars
       \/ part = "delegation" /\ (D!Next \/ UNCHANGED delegationVars) /\ UNCHANGED vars

LiveSpec ==
    /\ LiveInit /\ [][LiveNext]_<<part, vars, delegationVars>>
    /\ Fairness /\ D!Fairness

(* The property of Delegation, under its name.                             *)
StopAnswered == D!StopAnswered
=============================================================================
