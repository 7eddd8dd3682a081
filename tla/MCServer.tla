------------------------------ MODULE MCServer ------------------------------
(* Three parts of the review server that share no state, one at a time:    *)
(* the lease of the repository, the approval of plans, and adoption        *)
(* without a person.                                                       *)
EXTENDS RepositoryLease, AutoAdoption, PlanApproval

VARIABLE part   \* the part that moves

leaseVars == <<now, file, issued, life, state, todo, maint, ticket, evicted>>

ServerInit ==
    /\ part \in {"lease", "plan", "adoption"}
    /\ Init /\ PAInit /\ AAInit

ServerNext ==
    /\ UNCHANGED part
    /\ \/ part = "lease" /\ Next /\ UNCHANGED <<pavars, aavars>>
       \/ part = "plan" /\ PANext /\ UNCHANGED <<leaseVars, aavars>>
       \/ part = "adoption" /\ AANext /\ UNCHANGED <<leaseVars, pavars>>

ServerSpec == ServerInit /\ [][ServerNext]_<<part, leaseVars, pavars, aavars>>

(* Server a executes one review and proposes tests for it from two threads;*)
(* server b repairs another review of the same repository.                 *)
MCProcOf == [execute |-> "a", propose1 |-> "a", propose2 |-> "a", repair |-> "b"]
MCReviewOf == [execute |-> "r1", propose1 |-> "r1", propose2 |-> "r1", repair |-> "r2"]
MCOpOf == [execute |-> "execute", propose1 |-> "test_proposal",
           propose2 |-> "test_proposal", repair |-> "repair"]
MCRequested == [execute |-> 1, propose1 |-> 0, propose2 |-> 3, repair |-> 1]

(* Two criteria of one task, and one of them again in another task; a      *)
(* grant of one file that ends soon, and one of the tree that says it      *)
(* never does.                                                             *)
MCItems == {<<"t1", "c1">>, <<"t1", "c2">>, <<"t2", "c2">>}
MCGrants == {<<"file", 1>>, <<"tree", 9>>}
=============================================================================
