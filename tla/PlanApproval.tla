---------------------------- MODULE PlanApproval ----------------------------
(***************************************************************************)
(* From a request to a running worker: how the review manager              *)
(* (modou/server/control.py) compiles a specification, drafts its plan,    *)
(* has it approved by a person, a task round or a standing authorization,  *)
(* and replaces a draft by a revised one.                                  *)
(*                                                                         *)
(* Two threads call the manager.  "loop" is the event loop: its handlers   *)
(* run to their end one after another.  "round" is the pool thread of a    *)
(* task round, which creates a follow-up review and approves it.  create() *)
(* holds the manager's lock from its first check to its answer; approve()  *)
(* and cancel() take that lock only to look up their idempotency key, and  *)
(* revise_v2() not at all, so each of their checks and effects is a step   *)
(* of its own.                                                             *)
(*                                                                         *)
(* A review is its state snapshot, the source it names three times (in the *)
(* specification, in the request, in the session that drew the plan), the  *)
(* runtime's lease, its worker thread, and its place in the revision       *)
(* chain.  live is _live_id, leased the review the repository's lease on   *)
(* disk names, source the version of the user's checkout and of its HEAD:  *)
(* a version never comes back.  Cancelling a running review and restarts   *)
(* are in ReviewControl, dead owners of a lease in RepositoryLease.        *)
(***************************************************************************)
EXTENDS Integers

CONSTANTS
    MaxReviews,       \* bound: reviews ever created
    MaxEdits,         \* bound: edits and commits of the user
    Standing,         \* a standing authorization is configured, at level L3
    ThreadsMayFail    \* the worker thread may fail to start

ASSUME PlanAssumption == {MaxReviews, MaxEdits} \subseteq Nat /\ {Standing, ThreadsMayFail} \subseteq BOOLEAN

VARIABLES
    reviews,      \* review -> its record
    live,         \* the review that occupies the manager, 0 for none
    lock,         \* who holds the manager's lock: a caller or "free"
    leased,       \* the review the lease of the repository names, 0 for none
    source,       \* [work, head, memory]: the checkout, HEAD, is the memory file sound
    authorized,   \* the standing authorization has not expired
    at,           \* where each caller is
    job           \* what each caller is about

pavars == <<reviews, live, lock, leased, source, authorized, at, job>>

Callers == {"loop", "round"}
Ids == 1..MaxReviews
Terminal == {"COMPLETE", "FAILED", "ABORTED"}
Statuses == {"none", "INTAKE", "AWAITING", "FROZEN", "RUNNING"} \cup Terminal
Unborn == [status |-> "none", by |-> "loop", spec |-> 0, target |-> 0, request |-> 0,
           drafted |-> 0, parent |-> 0, linked |-> FALSE, lease |-> FALSE, worker |-> "none",
           approvals |-> 0, superseded |-> FALSE]
Nothing == [review |-> 0, parent |-> 0, spec |-> 0, target |-> 0, within |-> FALSE]

PAInit ==
    /\ reviews = [r \in Ids |-> Unborn]
    /\ live = 0 /\ lock = "free" /\ leased = 0
    /\ source = [work |-> 0, head |-> 0, memory |-> TRUE]
    /\ authorized = Standing
    /\ at = [c \in Callers |-> "idle"] /\ job = [c \in Callers |-> Nothing]

Status(r) == reviews[r].status
MayLock(c) == lock \in {"free", c}
GoTo(c, place) == at' = [at EXCEPT ![c] = place]
Set(r, field, value) == reviews' = [reviews EXCEPT ![r][field] = value]

(* The handler raises: it ends, and gives back the lock if it held it.     *)
Leave(c) ==
    /\ GoTo(c, "idle") /\ job' = [job EXCEPT ![c] = Nothing]
    /\ lock' = IF lock = c THEN "free" ELSE lock

-----------------------------------------------------------------------------
(* create_v2: the specification is bound to HEAD and to the checkout.  A   *)
(* revision brings the target of the draft it replaces.                    *)

AskForReview(c) ==
    /\ at[c] = "idle" /\ GoTo(c, "compile")
    /\ UNCHANGED <<reviews, live, lock, leased, source, authorized, job>>

Compile(c) ==
    LET revised == job[c].parent # 0 IN
    /\ at[c] = "compile" /\ MayLock(c)
    /\ IF source.memory /\ (revised => job[c].target = source.head)
       THEN /\ GoTo(c, "compiled")
            /\ job' = [job EXCEPT ![c].spec = source.work, ![c].target = source.head]
            /\ lock' = lock
       ELSE Leave(c)
    /\ UNCHANGED <<reviews, live, leased, source, authorized>>

(* create(): one review at a time; the request takes its own snapshot.     *)
NextId == CHOOSE r \in Ids : Status(r) = "none" /\ \A q \in Ids : Status(q) = "none" => r <= q

Admit(c) ==
    /\ at[c] = "compiled" /\ MayLock(c) /\ live = 0
    /\ \E r \in Ids : Status(r) = "none"
    /\ reviews' = [reviews EXCEPT ![NextId] =
           [Unborn EXCEPT !.status = "INTAKE", !.by = c, !.spec = job[c].spec,
                          !.target = job[c].target, !.request = source.work,
                          !.parent = job[c].parent]]
    /\ live' = NextId /\ lock' = c
    /\ job' = [job EXCEPT ![c].review = NextId]
    /\ GoTo(c, "admitted")
    /\ UNCHANGED <<leased, source, authorized>>

Busy(c) ==
    /\ at[c] = "compiled" /\ MayLock(c) /\ live # 0 /\ Leave(c)
    /\ UNCHANGED <<reviews, live, leased, source, authorized>>

(* The memory of the repository is read again.  This error is raised       *)
(* before the try block that would call _fail.                             *)
LoadMemory(c) ==
    /\ at[c] = "admitted"
    /\ IF source.memory THEN GoTo(c, "loaded") /\ UNCHANGED <<job, lock>> ELSE Leave(c)
    /\ UNCHANGED <<reviews, live, leased, source, authorized>>

(* _fail: a review that is not finished becomes FAILED and leaves its      *)
(* place to the next one; its lease is not given back here.                *)
Failed(r, records) ==
    [records EXCEPT ![r].status = IF @ \in Terminal THEN @ ELSE "FAILED"]
Vacated(r) == IF live = r THEN 0 ELSE live

Draft(c) ==
    LET r == job[c].review IN
    /\ at[c] = "loaded"
    /\ reviews' = [reviews EXCEPT ![r].status = "AWAITING", ![r].drafted = source.work]
    /\ GoTo(c, "created")
    /\ UNCHANGED <<live, lock, leased, source, authorized, job>>

DraftFails(c) ==
    /\ at[c] = "loaded"
    /\ reviews' = Failed(job[c].review, reviews) /\ live' = Vacated(job[c].review)
    /\ Leave(c)
    /\ UNCHANGED <<leased, source, authorized>>

(* _maybe_standing_approve, still inside create().                         *)
StandingApproves(c) ==
    /\ at[c] = "created" /\ lock = c /\ authorized /\ GoTo(c, "checked")
    /\ job' = [job EXCEPT ![c].within = TRUE]
    /\ UNCHANGED <<reviews, live, lock, leased, source, authorized>>

(* create() answers.  A task round goes on to approve its follow-up when   *)
(* that still awaits approval, a revision to link it to the draft it       *)
(* replaces.                                                               *)
Answer(c, r) ==
    /\ GoTo(c, IF job[c].parent # 0 THEN "linking"
               ELSE IF c = "round" /\ Status(r) = "AWAITING" THEN "checked"
               ELSE "idle")
    /\ job' = [job EXCEPT ![c].within = FALSE]
    /\ lock' = "free"

NoStandingApproval(c) ==
    /\ at[c] = "created" /\ lock = c /\ ~authorized /\ Answer(c, job[c].review)
    /\ UNCHANGED <<reviews, live, leased, source, authorized>>

-----------------------------------------------------------------------------
(* approve().  Its checks, the lease, the journal, the transition and the  *)
(* thread are separate; an error within create() fails the review.         *)

Refused(c, records) ==
    LET r == job[c].review IN
    /\ reviews' = IF job[c].within THEN Failed(r, records) ELSE records
    /\ live' = IF job[c].within THEN Vacated(r) ELSE live
    /\ Leave(c)

(* A person approves with the fingerprint shown to them.                   *)
Fingerprint(r) == <<reviews[r].spec, reviews[r].target, reviews[r].drafted, reviews[r].parent>>

HumanApproves(shown, r) ==
    /\ at["loop"] = "idle" /\ lock = "free"
    /\ Status(shown) # "none" /\ Status(r) = "AWAITING"
    /\ Fingerprint(shown) = Fingerprint(r)
    /\ GoTo("loop", "checked") /\ job' = [job EXCEPT !["loop"].review = r]
    /\ UNCHANGED <<reviews, live, lock, leased, source, authorized>>

(* A plausible error: only the state is asked, not the source.             *)
CompareStatus(c) ==
    /\ at[c] = "checked"
    /\ IF Status(job[c].review) = "AWAITING"
       THEN GoTo(c, "compared") /\ UNCHANGED <<reviews, live, lock, job>>
       ELSE Refused(c, reviews)
    /\ UNCHANGED <<leased, source, authorized>>

CompareSource(c) ==
    /\ at[c] = "checked"
    /\ IF Status(job[c].review) = "AWAITING" /\ reviews[job[c].review].request = source.work
       THEN GoTo(c, "compared") /\ UNCHANGED <<reviews, live, lock, job>>
       ELSE Refused(c, reviews)
    /\ UNCHANGED <<leased, source, authorized>>

(* The lease is re-entrant for one review and operation.                   *)
TakeLease(c) ==
    LET r == job[c].review IN
    /\ at[c] = "compared"
    /\ IF leased \in {0, r}
       THEN /\ leased' = r /\ GoTo(c, "leased")
            /\ reviews' = [reviews EXCEPT ![r].lease = TRUE, ![r].approvals = @ + 1]
            /\ UNCHANGED <<live, lock, job>>
       ELSE Refused(c, reviews) /\ UNCHANGED leased
    /\ UNCHANGED <<source, authorized>>

Released(r) == IF reviews[r].lease /\ leased = r THEN 0 ELSE leased

(* PLAN_FROZEN, or the transition is refused and the lease given back.     *)
Freeze(c) ==
    LET r == job[c].review IN
    /\ at[c] = "leased"
    /\ IF Status(r) = "AWAITING"
       THEN Set(r, "status", "FROZEN") /\ GoTo(c, "frozen") /\ UNCHANGED <<live, lock, leased, job>>
       ELSE leased' = Released(r) /\ Refused(c, [reviews EXCEPT ![r].lease = FALSE])
    /\ UNCHANGED <<source, authorized>>

StartWorker(c) ==
    LET r == job[c].review IN
    /\ at[c] = "frozen" /\ Set(r, "worker", "starting")
    /\ IF job[c].within THEN Answer(c, r) ELSE Leave(c)
    /\ UNCHANGED <<live, leased, source, authorized>>

WorkerDoesNotStart(c) ==
    LET r == job[c].review IN
    /\ ThreadsMayFail /\ at[c] = "frozen"
    /\ leased' = Released(r) /\ Refused(c, [reviews EXCEPT ![r].lease = FALSE])
    /\ UNCHANGED <<source, authorized>>

-----------------------------------------------------------------------------
(* The worker: it begins if its review is frozen; before its last          *)
(* transition it gives back the lease and its place.                       *)

Prepared(r) == [reviews EXCEPT ![r].lease = FALSE, ![r].worker = "finishing"]

(* A plausible error: the worker begins without asking for its state.      *)
WorkerBeginsUnasked(r) ==
    /\ reviews[r].worker = "starting"
    /\ reviews' = [reviews EXCEPT ![r].status = "RUNNING", ![r].worker = "running"]
    /\ UNCHANGED <<live, leased, lock, source, authorized, at, job>>

WorkerBegins(r) ==
    /\ reviews[r].worker = "starting"
    /\ IF Status(r) = "FROZEN"
       THEN /\ reviews' = [reviews EXCEPT ![r].status = "RUNNING", ![r].worker = "running"]
            /\ UNCHANGED <<live, leased>>
       ELSE reviews' = Prepared(r) /\ leased' = Released(r) /\ live' = Vacated(r)
    /\ UNCHANGED <<lock, source, authorized, at, job>>

WorkerPrepares(r) ==
    /\ reviews[r].worker = "running"
    /\ reviews' = Prepared(r) /\ leased' = Released(r) /\ live' = Vacated(r)
    /\ UNCHANGED <<lock, source, authorized, at, job>>

WorkerEnds(r) ==
    /\ reviews[r].worker = "finishing"
    /\ \E last \in {"COMPLETE", "FAILED"} :
           reviews' = [reviews EXCEPT ![r].worker = "ended",
                                      ![r].status = IF @ \in Terminal THEN @ ELSE last]
    /\ UNCHANGED <<live, lock, leased, source, authorized, at, job>>

-----------------------------------------------------------------------------
(* revise_v2(): the draft is announced as superseded, aborted, its place   *)
(* vacated, and only then is the replacement compiled.                     *)

Revise(r) ==
    /\ at["loop"] = "idle" /\ Status(r) = "AWAITING"
    /\ GoTo("loop", "announced")
    /\ job' = [job EXCEPT !["loop"].review = r, !["loop"].parent = r,
                          !["loop"].target = reviews[r].target]
    /\ UNCHANGED <<reviews, live, lock, leased, source, authorized>>

Abort(r, superseded) ==
    reviews' = [reviews EXCEPT ![r].status = "ABORTED", ![r].superseded = superseded]

Supersede ==
    LET r == job["loop"].review IN
    /\ at["loop"] = "announced"
    /\ IF Status(r) \notin Terminal
       THEN Abort(r, TRUE) /\ GoTo("loop", "superseded") /\ UNCHANGED <<lock, job>>
       ELSE UNCHANGED reviews /\ Leave("loop")
    /\ UNCHANGED <<live, leased, source, authorized>>

MakeRoom ==
    /\ at["loop"] = "superseded" /\ MayLock("loop")
    /\ live' = Vacated(job["loop"].review) /\ GoTo("loop", "compile")
    /\ UNCHANGED <<reviews, lock, leased, source, authorized, job>>

LinkRevision ==
    /\ at["loop"] = "linking" /\ Set(job["loop"].review, "linked", TRUE) /\ Leave("loop")
    /\ UNCHANGED <<live, leased, source, authorized>>

(* cancel() of a review that has not been approved.                        *)
Cancel(r) ==
    /\ at["loop"] = "idle" /\ lock = "free" /\ Status(r) \in {"INTAKE", "AWAITING"}
    /\ GoTo("loop", "cancelling") /\ job' = [job EXCEPT !["loop"].review = r]
    /\ UNCHANGED <<reviews, live, lock, leased, source, authorized>>

CancelAborts ==
    LET r == job["loop"].review IN
    /\ at["loop"] = "cancelling"
    /\ IF Status(r) \notin Terminal
       THEN Abort(r, FALSE) /\ GoTo("loop", "cancelled") /\ UNCHANGED <<lock, job>>
       ELSE UNCHANGED reviews /\ Leave("loop")
    /\ UNCHANGED <<live, leased, source, authorized>>

CancelMakesRoom ==
    /\ at["loop"] = "cancelled" /\ MayLock("loop")
    /\ live' = Vacated(job["loop"].review) /\ Leave("loop")
    /\ UNCHANGED <<reviews, leased, source, authorized>>

-----------------------------------------------------------------------------
(* The user works in the checkout; the authorization expires.              *)

Edit ==
    /\ source.work < MaxEdits
    /\ \E commit \in BOOLEAN, memory \in BOOLEAN :
           source' = [work |-> source.work + 1, memory |-> memory,
                      head |-> IF commit THEN source.head + 1 ELSE source.head]
    /\ UNCHANGED <<reviews, live, lock, leased, authorized, at, job>>

Expire ==
    /\ authorized /\ authorized' = FALSE
    /\ UNCHANGED <<reviews, live, lock, leased, source, at, job>>

CreateStep(c) ==
    \/ AskForReview(c) \/ Compile(c) \/ Admit(c) \/ Busy(c) \/ LoadMemory(c)
    \/ Draft(c) \/ DraftFails(c) \/ StandingApproves(c) \/ NoStandingApproval(c)
ApproveStep(c) ==
    \/ CompareSource(c) \/ TakeLease(c) \/ Freeze(c) \/ StartWorker(c) \/ WorkerDoesNotStart(c)

PANext ==
    \/ \E c \in Callers : CreateStep(c) \/ ApproveStep(c)
    \/ \E r \in Ids : WorkerBegins(r) \/ WorkerPrepares(r) \/ WorkerEnds(r)
    \/ \E r, shown \in Ids : HumanApproves(shown, r)
    \/ \E r \in Ids : Revise(r) \/ Cancel(r)
    \/ Supersede \/ MakeRoom \/ LinkRevision \/ CancelAborts \/ CancelMakesRoom
    \/ Edit \/ Expire

PASpec == PAInit /\ [][PANext]_pavars
-----------------------------------------------------------------------------
(* The plan a worker executes was drawn from the very source the request   *)
(* froze, though the source is read four times on the way, an edit may     *)
(* fall between any two of them, and no two of them are compared except    *)
(* the request's with the checkout at approval (control.py:1684-1688).     *)
PlanIsForItsSource ==
    \A r \in Ids : reviews[r].worker = "running" => reviews[r].drafted = reviews[r].request

(* A worker that runs holds the lease of the repository, whoever approved  *)
(* and whatever else was refused meanwhile, as long as one approval only   *)
(* got as far as the lease; two of them share it, and the one that is      *)
(* refused gives it back (control.py:1711-1715).                           *)
RunHoldsLease ==
    \A r \in Ids : reviews[r].worker = "running" /\ reviews[r].approvals = 1 => leased = r

RunIsSound == PlanIsForItsSource /\ RunHoldsLease

(* A review found superseded never begins: its worker finds it ABORTED,    *)
(* also when the revision came between its approval and its first step.    *)
SupersededNeverBegins ==
    [][\A r \in Ids : reviews[r].superseded /\ reviews[r].worker # "running"
                         => reviews[r]'.worker # "running"]_pavars
=============================================================================
