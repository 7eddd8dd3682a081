---------------------------- MODULE AutoAdoption ----------------------------
(***************************************************************************)
(* What a candidate must pass to be adopted without a person               *)
(* (modou/server/auto_adoption.py and TaskService._auto_confirm): the      *)
(* standing authorization, the budget of writes counted on the journal of  *)
(* the review, and the ledger of grants and attempts, which reserves       *)
(* before anything is written and never gives a reservation back.          *)
(*                                                                         *)
(* The operations of the task service run one at a time under its lock     *)
(* (op is the one in progress); generate_repair and autonomous_write_step  *)
(* of the review manager run beside them, ask the same budget and count on *)
(* the same journal.  All tasks here come from one review of one           *)
(* repository, so a criterion is its trigger_source.  The ledger, the      *)
(* journal and the tasks survive a crash, what an operation holds does     *)
(* not.  Time is counted in units and never goes back.                     *)
(***************************************************************************)
EXTENDS Integers, Sequences, FiniteSets

CONSTANTS
    Items,            \* the criteria a candidate is prepared for: task, criterion
    Writers,          \* callers beside the task service: "generate_repair",
                      \* "autonomous_write_step"
    Limit,            \* attempts in one window (window_attempt_limit)
    Window,           \* length of the window (window_seconds)
    GrantTtl,         \* authorization_ttl_cap_seconds
    MaxWrites,        \* max_writes_per_review of the standing authorization
    MaxHourly,        \* max_writes_per_hour of the standing authorization
    Hour,             \* the hour in which those are counted
    StandingUntil,    \* when the standing authorization expires
    GrantForms,       \* bound: what a grant may name: a scope and its end
    MaxClock,         \* bound: time
    MaxGrants,        \* bound: grants a person registers
    MaxCrashes        \* bound: crashes

Scopes == {"file", "tree"}                  \* a "tree" covers every candidate

ASSUME AdoptionAssumption ==
    /\ {Limit, Window, GrantTtl, MaxWrites, MaxHourly, Hour} \subseteq Nat \ {0}
    /\ {StandingUntil, MaxClock, MaxGrants, MaxCrashes} \subseteq Nat
    /\ IsFiniteSet(Writers) /\ GrantForms \subseteq Scopes \X Int

VARIABLES
    clock,
    grants,       \* the grants of the ledger, in order
    attempts,     \* the attempts of the ledger, in order
    journal,      \* when the review journaled a write of its own, in order
    saved,        \* task, criterion -> [status, attempt] as saved
    op,           \* the operation of the task service in progress
    asked,        \* the callers of the manager that passed the budget check
    crashes

aavars == <<clock, grants, attempts, journal, saved, op, asked, crashes>>

NoOp == [at |-> "idle", item |-> <<"none", "none">>, attempt |-> 0, auto |-> FALSE]

AAInit ==
    /\ clock = 0 /\ crashes = 0
    /\ grants = <<>> /\ attempts = <<>> /\ journal = <<>>
    /\ saved = [i \in Items |-> [status |-> "prepared", attempt |-> 0]]
    /\ op = NoOp /\ asked = {}

Journaled == journal' = Append(journal, clock)
Smaller(a, b) == IF a < b THEN a ELSE b
GoOn(place) == op' = [op EXCEPT !.at = place]
Record(status, attempt) == saved' = [saved EXCEPT ![op.item] = [status |-> status, attempt |-> attempt]]

-----------------------------------------------------------------------------
(* register_grant.  A ledger edited by hand may name any time; what a      *)
(* grant is worth is decided when it is used.                              *)

RegisterGrant(form) ==
    /\ Len(grants) < MaxGrants
    /\ grants' = Append(grants, [scope |-> form[1], until |-> form[2], created |-> clock])
    /\ UNCHANGED <<clock, attempts, journal, saved, op, asked, crashes>>

Effective(g) == Smaller(g.until, g.created + GrantTtl)
LiveGrants == {g \in 1..Len(grants) : Effective(grants[g]) > clock}

(* The live grant with the least time left governs, even where another one *)
(* would cover more.                                                       *)
GrantFor == CHOOSE g \in LiveGrants : \A h \in LiveGrants :
                \/ Effective(grants[g]) < Effective(grants[h])
                \/ Effective(grants[g]) = Effective(grants[h]) /\ g <= h

-----------------------------------------------------------------------------
(* _auto_confirm: authorization, budget, journal, ledger, and only then    *)
(* the ordinary confirmation.                                              *)

AutoConfirm(i) ==
    /\ op = NoOp /\ saved[i].status = "prepared" /\ clock < StandingUntil
    /\ op' = [at |-> "admitted", item |-> i, attempt |-> 0, auto |-> TRUE]
    /\ UNCHANGED <<clock, grants, attempts, journal, saved, asked, crashes>>

(* _self_writes and _assert_write_budget: all that is journaled, and what  *)
(* was journaled in the last hour.                                         *)
ThisHour == {w \in 1..Len(journal) : clock - journal[w] < Hour}
BudgetLeft == Len(journal) < MaxWrites /\ Cardinality(ThisHour) < MaxHourly

AskBudget ==
    /\ op.at = "admitted"
    /\ IF BudgetLeft THEN GoOn("budgeted") ELSE op' = NoOp
    /\ UNCHANGED <<clock, grants, attempts, journal, saved, asked, crashes>>

JournalWrite ==
    /\ op.at = "budgeted" /\ GoOn("journaled")
    /\ Journaled
    /\ UNCHANGED <<clock, grants, attempts, saved, asked, crashes>>

(* assert_allowed: every attempt counts, whatever became of it.            *)
(* Plausible errors: settled attempts no longer count; nor do those of     *)
(* other tasks' criteria.                                                  *)
RecentUnsettled == {a \in 1..Len(attempts) :
    clock - attempts[a].at < Window /\ attempts[a].status = "reserved"}
UsedForCriterion(t) == {a \in 1..Len(attempts) :
    attempts[a].task = t /\ attempts[a].trigger = op.item[2]}

Recent == {a \in 1..Len(attempts) : clock - attempts[a].at < Window}
UsedBy(t) == {a \in 1..Len(attempts) : attempts[a].task = t}

Allowed(needs) ==
    /\ \A a \in 1..Len(attempts) : attempts[a].trigger # op.item[2]
    /\ LiveGrants # {}
    /\ grants[GrantFor].scope \in {needs, "tree"}
    /\ UsedBy(op.item[1]) = {}
    /\ Cardinality(Recent) < Limit

(* assert_allowed raises for a candidate whose basis or rule protection is *)
(* missing, and for what the ledger does not allow.                        *)
Reserve(needs, sound) ==
    /\ op.at = "journaled"
    /\ IF sound /\ Allowed(needs)
       THEN /\ attempts' = Append(attempts,
                   [task |-> op.item[1], trigger |-> op.item[2], grant |-> GrantFor,
                    at |-> clock, status |-> "reserved"])
            /\ op' = [op EXCEPT !.at = "reserved", !.attempt = Len(attempts) + 1]
       ELSE op' = NoOp /\ UNCHANGED attempts
    /\ UNCHANGED <<clock, grants, journal, saved, asked, crashes>>

(* A person confirms with the plan's fingerprint: the same _confirm, with  *)
(* the attempt that the criterion still names, if it names one.            *)
ManualConfirm(i) ==
    /\ op = NoOp /\ saved[i].status = "prepared"
    /\ op' = [at |-> "reserved", item |-> i, auto |-> FALSE,
              attempt |-> saved[i].attempt]
    /\ UNCHANGED <<clock, grants, attempts, journal, saved, asked, crashes>>

(* _confirm: refused before anything is saved, the attempt stays reserved  *)
(* and the criterion does not know of it.                                  *)
ConfirmRefused ==
    /\ op.at = "reserved" /\ op' = NoOp
    /\ UNCHANGED <<clock, grants, attempts, journal, saved, asked, crashes>>

ConfirmMark ==
    /\ op.at = "reserved" /\ Record("applying", op.attempt) /\ GoOn("applying")
    /\ UNCHANGED <<clock, grants, attempts, journal, asked, crashes>>

Apply ==
    /\ op.at = "applying"
    /\ \/ Record("adopted", op.attempt) /\ GoOn("applied")
       \/ Record("recovery_required", op.attempt) /\ GoOn("failed")
    /\ UNCHANGED <<clock, grants, attempts, journal, asked, crashes>>

(* settle: only an attempt that is still reserved changes.                 *)
Settled(a, status) ==
    IF a # 0 /\ attempts[a].status = "reserved"
    THEN [attempts EXCEPT ![a].status = status] ELSE attempts

Settle ==
    /\ op.at \in {"applied", "failed", "recovered"}
    /\ attempts' = Settled(op.attempt, op.at) /\ op' = NoOp
    /\ UNCHANGED <<clock, grants, journal, saved, asked, crashes>>

(* _recover finds the files as planned, and settles; or as they were       *)
(* before, and the candidate can be prepared again (here at once): its     *)
(* criterion keeps naming the attempt.                                     *)
Unfinished(i) == op = NoOp /\ saved[i].status \in {"applying", "recovery_required"}

RecoverApplied(i) ==
    /\ Unfinished(i) /\ saved' = [saved EXCEPT ![i].status = "adopted"]
    /\ op' = [at |-> "recovered", item |-> i, auto |-> FALSE,
              attempt |-> saved[i].attempt]
    /\ UNCHANGED <<clock, grants, attempts, journal, asked, crashes>>

RecoverBefore(i) ==
    /\ Unfinished(i) /\ saved' = [saved EXCEPT ![i].status = "prepared"]
    /\ UNCHANGED <<clock, grants, attempts, journal, op, asked, crashes>>

-----------------------------------------------------------------------------
(* generate_repair and autonomous_write_step: the check, and later the     *)
(* event; between the two the model answers or fails.                      *)

AskWrite(o) ==
    /\ o \notin asked /\ BudgetLeft /\ asked' = asked \cup {o}
    /\ UNCHANGED <<clock, grants, attempts, journal, saved, op, crashes>>

WriteJournaled(o) ==
    /\ o \in asked /\ asked' = asked \ {o} /\ Journaled
    /\ UNCHANGED <<clock, grants, attempts, saved, op, crashes>>

WriteFails ==
    /\ "generate_repair" \in asked /\ asked' = asked \ {"generate_repair"}
    /\ UNCHANGED <<clock, grants, attempts, journal, saved, op, crashes>>

TimePasses ==
    /\ clock < MaxClock /\ clock' = clock + 1
    /\ UNCHANGED <<grants, attempts, journal, saved, op, asked, crashes>>

Crash ==
    /\ crashes < MaxCrashes /\ crashes' = crashes + 1
    /\ op' = NoOp /\ asked' = {}
    /\ UNCHANGED <<clock, grants, attempts, journal, saved>>

AANext ==
    \/ \E form \in GrantForms : RegisterGrant(form)
    \/ \E i \in Items :
           \/ AutoConfirm(i) \/ ManualConfirm(i)
           \/ RecoverApplied(i) \/ RecoverBefore(i)
    \/ \E needs \in Scopes, sound \in BOOLEAN : Reserve(needs, sound)
    \/ AskBudget \/ JournalWrite \/ ConfirmRefused \/ ConfirmMark \/ Apply \/ Settle
    \/ \E o \in Writers : AskWrite(o) \/ WriteJournaled(o)
    \/ WriteFails \/ TimePasses \/ Crash

AASpec == AAInit /\ [][AANext]_aavars

-----------------------------------------------------------------------------
(* Wherever the window of the ledger is laid, no more than Limit attempts  *)
(* fall into it, settled or not, over all tasks and over crashes           *)
(* (auto_adoption.py:14-15, 361-367).                                      *)
WindowHolds ==
    \A end \in 0..clock :
        Cardinality({a \in 1..Len(attempts) : attempts[a].at \in (end - Window + 1)..end}) <= Limit

(* A task adopts one candidate without a person and a trigger drives one   *)
(* adoption, also after a failure, a recovery or a crash gave the          *)
(* criterion back as prepared (auto_adoption.py:12-13, 338-340, 356-360).  *)
OncePerTask ==
    \A a, b \in 1..Len(attempts) : a # b =>
        attempts[a].task # attempts[b].task /\ attempts[a].trigger # attempts[b].trigger

(* No attempt is older than its grant by the cap of its time or more,      *)
(* whatever the file says (auto_adoption.py:16-17).                        *)
WithinTtl == \A a \in 1..Len(attempts) :
                attempts[a].at - grants[attempts[a].grant].created < GrantTtl

(* The budget is asked before the model answers and counted after it: the  *)
(* callers that asked together overrun it, by one each at the most, over   *)
(* the review and in every hour (control.py:1841-1874, 3699-3710,          *)
(* 4391-4395).                                                             *)
OverrunBounded ==
    /\ Len(journal) <= MaxWrites + Cardinality(Writers)
    /\ \A end \in 0..clock :
           Cardinality({w \in 1..Len(journal) : journal[w] \in (end - Hour + 1)..end})
               <= MaxHourly + Cardinality(Writers)

(* The four together: no clock, file, failure or crash buys automatic      *)
(* adoption more than its limits (auto_adoption.py:338-367,                *)
(* control.py:1841-1874).                                                  *)
LimitsHold == OncePerTask /\ WindowHolds /\ WithinTtl /\ OverrunBounded
=============================================================================
