--------------------------- MODULE MCJobService ---------------------------
(* JobService on small instances.                                          *)
EXTENDS JobService, TLC

(* The two kinds app.py wires: one given to the constructor, one           *)
(* registered after it.                                                    *)
MCCtor == {"trigger_dispatch"}
MCLate == {"delegation_check"}

(* Two names in sorted order; creation picks them in either order.         *)
MCOrder == {<<1, 2>>}

(* A crash: a plain request for the repository and a de-duplicated one     *)
(* without a lock, which do not fit the budget together.                   *)
MCRestartRequests ==
    {[kind |-> "trigger_dispatch", lock |-> "repo", key |-> "none", estimate |-> 1],
     [kind |-> "delegation_check", lock |-> "nolock", key |-> "k", estimate |-> 2]}

(* Progress: a kind of each registration, on one repository.               *)
MCLiveRequests ==
    {[kind |-> "trigger_dispatch", lock |-> "repo", key |-> "none", estimate |-> 1],
     [kind |-> "delegation_check", lock |-> "repo", key |-> "k", estimate |-> 1]}

=============================================================================
