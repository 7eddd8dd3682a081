------------------------------ MODULE Proposals ------------------------------
(* The proposals of tests (TestProposal) under names of their own, for the *)
(* modules that speak of other parts too.                                  *)

CONSTANTS
    Callers, KeyOf, FileOrder, Units, Rounds, Slots, Modulus, MinAdmitted, MaxAdmitted,
    MaxCalls, MaxUpsets

VARIABLES checkout, frozen, upsets, lease, rival, calls, started, proposal, answers, stays

proposalVars == <<checkout, frozen, upsets, lease, rival, calls, started, proposal, answers, stays>>

TP == INSTANCE TestProposal WITH reviewed <- frozen, other <- rival, record <- proposal, left <- stays

(* The properties of TestProposal: a visa is earned and its deletions are  *)
(* unseen, and the checkout and its lease are left as they should be.      *)
VisaSound == TP!VisaSound
RepositoryKept == TP!RepositoryKept
=============================================================================
