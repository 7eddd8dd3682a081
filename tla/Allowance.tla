----------------------------- MODULE Allowance -----------------------------
(***************************************************************************)
(* What a standing permission promises, whatever grants it: a grant is     *)
(* opened once with a limit, uses are booked on it while it is open and    *)
(* within the limit, and a booked use runs at most once.  Closing a grant  *)
(* takes back nothing that was booked, and nothing is booked after it.     *)
(***************************************************************************)
EXTENDS Naturals, FiniteSets

CONSTANTS Grants, Uses, Limit

VARIABLES
    state,   \* of each grant: "unknown", "open" or "closed"
    booked,  \* the uses booked on each grant
    ran      \* the uses that ran

avars == <<state, booked, ran>>

AInit ==
    /\ state = [g \in Grants |-> "unknown"]
    /\ booked = [g \in Grants |-> {}]
    /\ ran = {}

Open(g) ==
    /\ state[g] = "unknown"
    /\ state' = [state EXCEPT ![g] = "open"]
    /\ UNCHANGED <<booked, ran>>

Book(g, u) ==
    /\ state[g] = "open"
    /\ \A h \in Grants : u \notin booked[h]
    /\ Cardinality(booked[g]) < Limit
    /\ booked' = [booked EXCEPT ![g] = @ \cup {u}]
    /\ UNCHANGED <<state, ran>>

Run(g, u) ==
    /\ u \in booked[g] \ ran
    /\ ran' = ran \cup {u}
    /\ UNCHANGED <<state, booked>>

(* A restart may close several grants at once.                             *)
Close(S) ==
    /\ \A g \in S : state[g] = "open"
    /\ state' = [g \in Grants |-> IF g \in S THEN "closed" ELSE state[g]]
    /\ UNCHANGED <<booked, ran>>

ANext ==
    \/ \E g \in Grants : Open(g) \/ \E u \in Uses : Book(g, u) \/ Run(g, u)
    \/ \E S \in SUBSET Grants : Close(S)

ASpec == AInit /\ [][ANext]_avars
=============================================================================
