----------------------------- MODULE Delegation -----------------------------
(***************************************************************************)
(* Continuous delegation (modou/server/delegation.py): a user authorises a *)
(* few re-verifications of a task, events ask for a check, a check         *)
(* dispatches a job, and the job re-verifies the task under a watchdog.    *)
(*                                                                         *)
(* Two locks matter: the delegation service's (dlock) and the task         *)
(* service's, which a re-verification holds while its experiments run      *)
(* (TasksFree).  A check or a job's identity check holds the first while   *)
(* it waits for the second.  Steps between lock operations are actions of  *)
(* their own.                                                              *)
(*                                                                         *)
(* The job service is modelled by what JobService.tla shows of it: a       *)
(* running job may be cancelled, given up or interrupted by a crash, and a *)
(* worker that read a queued record may overwrite a cancellation.          *)
(*                                                                         *)
(* On disk: auth, job, round.  In memory: dlock, checker, stopper, runner, *)
(* raised, over, inner, work.  The environment: source, requirement,       *)
(* lapsed.  History: entered, ran, recorded, aborted, returned.            *)
(***************************************************************************)
EXTENDS Naturals, FiniteSets

CONSTANTS
    MaxAuths,      \* bound: authorizations a user creates, one after another
    Jobs,          \* job ids
    Snapshots,     \* contents the worktree can have
    MaxReverify,   \* max_reverify of every authorization
    Criteria,      \* number of the task's criteria a round re-verifies
    MaxVersions,   \* bound: requirement versions
    MaxCrashes     \* bound: how often the service dies

ASSUME BoundsAssumption ==
    /\ MaxAuths \in Nat \ {0} /\ MaxReverify \in 1..3 /\ Criteria \in Nat \ {0}
    /\ MaxVersions \in Nat \ {0} /\ MaxCrashes \in Nat
    /\ IsFiniteSet(Jobs) /\ Snapshots # {}

Auths == 1..MaxAuths

VARIABLES
    auth, job, round, source, requirement, lapsed,
    dlock, checker, stopper, runner, raised, over, inner, work, crashes,
    entered, ran, recorded, aborted, returned

disk == <<auth, job, round>>
world == <<source, requirement, lapsed>>
threads == <<runner, raised, over, inner, work>>
history == <<entered, ran, recorded, aborted, returned>>
vars == <<disk, world, dlock, checker, stopper, threads, crashes, history>>

Ended == {"completed", "failed", "cancelled", "interrupted", "needs_recovery"}

Nowhere == CHOOSE s \in Snapshots : TRUE
NoAuth == [status |-> "absent", version |-> 0, used |-> 0, dispatched |-> {}]
NoJob == [status |-> "absent", auth |-> 1, snap |-> Nowhere, settled |-> FALSE, usage |-> 0]
NoWork == [snap |-> Nowhere, pending |-> 0]
IdleChecker == [at |-> "idle", job |-> CHOOSE j \in Jobs : TRUE, snap |-> Nowhere]
IdleStopper == [at |-> "idle", auth |-> 1, left |-> {}]

Init ==
    /\ auth = [a \in Auths |-> NoAuth]
    /\ job = [j \in Jobs |-> NoJob]
    /\ source = Nowhere /\ round = [snap |-> Nowhere, pending |-> 0]
    /\ requirement = 1 /\ lapsed = {} /\ crashes = 0
    /\ dlock = "free" /\ checker = IdleChecker /\ stopper = IdleStopper
    /\ runner = [j \in Jobs |-> "none"]
    /\ raised = {} /\ over = {}
    /\ inner = [j \in Jobs |-> "none"]
    /\ work = [j \in Jobs |-> NoWork]
    /\ entered = {} /\ ran = {} /\ recorded = {} /\ aborted = {} /\ returned = {}

-----------------------------------------------------------------------------
(* The two locks and what is read under them.                              *)

TasksFree == \A j \in Jobs : inner[j] # "inside"
Held(who) == dlock = who
Known == {a \in Auths : auth[a].status # "absent"}
Latest == Cardinality(Known)      \* they are numbered in order
AuthOf(j) == job[j].auth

(* reverify_needed: a pending criterion, or the source left the round.     *)
Needed == round.pending > 0 \/ round.snap # source

Row(j) == [snap |-> job[j].snap, job |-> j]
Registered(j) == Row(j) \in auth[AuthOf(j)].dispatched
Live(a) == auth[a].status = "active" /\ a \notin lapsed
Interrupted(j) == j \in raised \cup over

(* The budget account of one authorization: max_reverify reservations of   *)
(* one unit, and what the settled jobs used of theirs.                     *)
Account(a) == {j \in Jobs : job[j].status # "absent" /\ AuthOf(j) = a}
HasRoom(a) ==
    Cardinality({j \in Account(a) : ~job[j].settled \/ job[j].usage = 1}) < MaxReverify

-----------------------------------------------------------------------------
(* The user and the world.                                                 *)

(* create: only when no earlier authorization is active and unexpired.     *)
Authorise(a) ==
    /\ Held("free") /\ TasksFree
    /\ a \notin Known /\ a = Cardinality(Known) + 1
    /\ \A p \in Known : ~Live(p)
    /\ auth' = [auth EXCEPT ![a] = [NoAuth EXCEPT !.status = "active", !.version = requirement]]
    /\ UNCHANGED <<job, round, world, dlock, checker, stopper, threads, crashes, history>>

(* expires_at passes; it no longer matters once the authorization ended.   *)
Lapse(a) ==
    /\ Live(a) /\ lapsed' = lapsed \cup {a}
    /\ UNCHANGED <<disk, source, requirement, dlock, checker, stopper, threads, crashes, history>>

EditSource(s) ==
    /\ s # source /\ source' = s
    /\ UNCHANGED <<disk, requirement, lapsed, dlock, checker, stopper, threads, crashes, history>>

(* create_requirement_version: fresh criteria, none of them pending.       *)
ChangeRequirement ==
    /\ TasksFree /\ requirement < MaxVersions
    /\ requirement' = requirement + 1
    /\ round' = [snap |-> source, pending |-> 0]
    /\ UNCHANGED <<auth, job, source, lapsed, dlock, checker, stopper, threads, crashes, history>>

-----------------------------------------------------------------------------
(* check(): everything under the delegation lock, the calls into the task  *)
(* service and the job service included.                                   *)

Close(a, status) == auth' = [auth EXCEPT ![a].status = status]

(* The answers that need no task: blocked, expired, exhausted.             *)
CheckBlocked ==
    /\ Held("free") /\ Known # {}
    /\ IF auth[Latest].status = "active"
       THEN \/ Latest \in lapsed /\ Close(Latest, "expired")
            \/ Latest \notin lapsed /\ auth[Latest].used >= MaxReverify
               /\ Close(Latest, "exhausted")
       ELSE UNCHANGED auth
    /\ UNCHANGED <<job, round, world, dlock, checker, stopper, threads, crashes, history>>

CheckEnter ==
    /\ Held("free") /\ Known # {} /\ Live(Latest) /\ auth[Latest].used < MaxReverify
    /\ \E j \in Jobs : job[j].status = "absent"   \* bound: the ids of Jobs
    /\ dlock' = "check" /\ checker' = [IdleChecker EXCEPT !.at = "task"]
    /\ UNCHANGED <<disk, world, stopper, threads, crashes, history>>

CheckLeaves == dlock' = "free" /\ checker' = IdleChecker

(* tasks.get, reverify_needed and the snapshot.                            *)
CheckTask ==
    /\ Held("check") /\ checker.at = "task" /\ TasksFree
    /\ \/ /\ requirement # auth[Latest].version
          /\ Close(Latest, "needs_reconfirm") /\ CheckLeaves
       \/ /\ requirement = auth[Latest].version
          /\ ~Needed \/ \E row \in auth[Latest].dispatched : row.snap = source
          /\ CheckLeaves /\ UNCHANGED auth
       \/ /\ requirement = auth[Latest].version
          /\ Needed /\ \A row \in auth[Latest].dispatched : row.snap # source
          /\ checker' = [checker EXCEPT !.at = "create", !.snap = source]
          /\ UNCHANGED <<auth, dlock>>
    /\ UNCHANGED <<job, round, world, stopper, threads, crashes, history>>

(* jobs.create: an in-flight job with the same key, a new one, or a job    *)
(* the budget refuses, which fails the whole check before anything of it   *)
(* is saved.                                                               *)
SameKey(a, s) == {j \in Account(a) : job[j].snap = s /\ job[j].status \in {"queued", "running"}}

CheckCreates(j) ==
    /\ Held("check") /\ checker.at = "create"
    /\ IF SameKey(Latest, checker.snap) # {}
       THEN j \in SameKey(Latest, checker.snap) /\ UNCHANGED job
       ELSE /\ job[j].status = "absent" /\ HasRoom(Latest)
            /\ job' = [job EXCEPT ![j] = [NoJob EXCEPT !.status = "queued", !.auth = Latest,
                                                       !.snap = checker.snap]]
    /\ checker' = [checker EXCEPT !.at = "save", !.job = j]
    /\ UNCHANGED <<auth, round, world, dlock, stopper, threads, crashes, history>>

CheckRefused(j) ==
    /\ Held("check") /\ checker.at = "create"
    /\ SameKey(Latest, checker.snap) = {} /\ job[j].status = "absent" /\ ~HasRoom(Latest)
    /\ job' = [job EXCEPT ![j] = [NoJob EXCEPT !.status = "failed", !.auth = Latest,
                                               !.snap = checker.snap, !.settled = TRUE]]
    /\ CheckLeaves
    /\ UNCHANGED <<auth, round, world, stopper, threads, crashes, history>>

CheckSaves ==
    /\ Held("check") /\ checker.at = "save"
    /\ auth' = [auth EXCEPT ![Latest].used = @ + 1,
                            ![Latest].dispatched = @ \cup {[snap |-> checker.snap, job |-> checker.job]}]
    /\ CheckLeaves
    /\ UNCHANGED <<job, round, world, stopper, threads, crashes, history>>

-----------------------------------------------------------------------------
(* The job service, as far as this component sees it.                      *)

(* The dispatcher takes a queued job and its worker reads the record.      *)
StartJob(j) ==
    /\ job[j].status = "queued" /\ runner[j] = "none"
    /\ runner' = [runner EXCEPT ![j] = "read"]
    /\ UNCHANGED <<disk, world, dlock, checker, stopper, raised, over, inner, work, crashes, history>>

(* The worker writes the record it read as running, also over a            *)
(* cancellation that came in between.                                      *)
EnterRunner(j) ==
    /\ runner[j] = "read"
    /\ job' = [job EXCEPT ![j].status = "running"]
    /\ runner' = [runner EXCEPT ![j] = "identify"]
    /\ UNCHANGED <<auth, round, world, dlock, checker, stopper, raised, over, inner, work, crashes, history>>

Settle(r, status, usage) ==
    IF r.settled THEN [r EXCEPT !.status = status]
    ELSE [r EXCEPT !.status = status, !.settled = TRUE, !.usage = usage]

(* _finalize: a terminal record is left alone, and a success that meets a  *)
(* cancellation is recorded as cancelled.                                  *)
Finished(j, wanted, usage) ==
    CASE job[j].status = "running" -> Settle(job[j], wanted, usage)
      [] job[j].status = "stopping" ->
           Settle(job[j], IF wanted = "completed" THEN "cancelled" ELSE wanted, usage)
      [] OTHER -> job[j]

EndJob(j, wanted) ==
    /\ runner' = [runner EXCEPT ![j] = "none"]
    /\ \E usage \in 0..1 : job' = [job EXCEPT ![j] = Finished(j, wanted, usage)]

Cancelled(j) ==
    CASE job[j].status = "queued" -> Settle(job[j], "cancelled", 0)
      [] job[j].status = "running" -> [job[j] EXCEPT !.status = "stopping"]
      [] OTHER -> job[j]

Cancels(j) ==
    /\ job' = [job EXCEPT ![j] = Cancelled(j)]
    /\ raised' = IF job[j].status = "running" THEN raised \cup {j} ELSE raised

(* POST /jobs/{id}/cancel.                                                 *)
CancelJob(j) ==
    /\ job[j].status \in {"queued", "running"}
    /\ Cancels(j)
    /\ UNCHANGED <<auth, round, world, dlock, checker, stopper, runner, over, inner, work, crashes, history>>

(* The deadline of cancel() passes before the worker is gone.              *)
GiveUpJob(j) ==
    /\ job[j].status = "stopping"
    /\ \E usage \in 0..1 : job' = [job EXCEPT ![j] = Settle(job[j], "needs_recovery", usage)]
    /\ UNCHANGED <<auth, round, world, dlock, checker, stopper, threads, crashes, history>>

(* The job has used up its reservation.                                    *)
RunOver(j) ==
    /\ runner[j] \notin {"none", "read"} /\ j \notin over /\ over' = over \cup {j}
    /\ UNCHANGED <<disk, world, dlock, checker, stopper, runner, raised, inner, work, crashes, history>>

-----------------------------------------------------------------------------
(* stop(): a request thread, one at a time here.                           *)

OnlyStopper == <<disk, world, dlock, checker, threads, crashes, history>>

StopAsked(a) ==
    /\ stopper.at = "idle" /\ auth[a].status = "active"
    /\ stopper' = [IdleStopper EXCEPT !.at = "enter", !.auth = a]
    /\ UNCHANGED OnlyStopper

StopMarks ==
    /\ stopper.at = "enter" /\ Held("free")
    /\ IF auth[stopper.auth].status = "active"
       THEN /\ Close(stopper.auth, "stopped")
            /\ stopper' = [stopper EXCEPT !.at = "cancel",
                   !.left = {j \in Account(stopper.auth) : job[j].status \in {"queued", "running"}}]
       ELSE stopper' = IdleStopper /\ UNCHANGED auth
    /\ UNCHANGED <<job, round, world, dlock, checker, threads, crashes, history>>

(* jobs.cancel returns when the job is no longer stopping.                 *)
StopCancels(j) ==
    /\ stopper.at = "cancel" /\ j \in stopper.left
    /\ job[j].status \in {"queued", "running"}
    /\ Cancels(j)
    /\ UNCHANGED <<auth, round, world, dlock, checker, stopper, runner, over, inner, work, crashes, history>>

StopWaits(j) ==
    /\ stopper.at = "cancel" /\ j \in stopper.left /\ job[j].status \in Ended
    /\ stopper' = [stopper EXCEPT !.left = @ \ {j}]
    /\ UNCHANGED OnlyStopper

StopReturns ==
    /\ stopper.at = "cancel" /\ stopper.left = {} /\ Held("free")
    /\ returned' = returned \cup {stopper.auth}
    /\ stopper' = IdleStopper
    /\ UNCHANGED <<disk, world, dlock, checker, threads, crashes, entered, ran, recorded, aborted>>

-----------------------------------------------------------------------------
(* _runner: the body of a delegation_check job.                            *)

Goto(j, pc) == runner' = [runner EXCEPT ![j] = pc]
OnlyRunner == <<disk, world, checker, stopper, raised, over, inner, work, crashes>>

(* Error: an unregistered job is let through.                              *)
IdentifyAny(j) ==
    /\ runner[j] = "identify" /\ Held("free")
    /\ dlock' = "runner" /\ Goto(j, "compare")
    /\ UNCHANGED <<disk, world, checker, stopper, raised, over, inner, work, crashes, history>>

(* The identity of the job, under the delegation lock.  Without its row in *)
(* the authorization it fails closed.                                      *)
Identify(j) ==
    /\ runner[j] = "identify" /\ Held("free")
    /\ \/ /\ ~Registered(j) /\ EndJob(j, "failed") /\ UNCHANGED <<auth, dlock>>
       \/ /\ Registered(j) /\ ~Live(AuthOf(j))
          /\ EndJob(j, "completed") /\ UNCHANGED <<auth, dlock>>
       \/ /\ Registered(j) /\ Live(AuthOf(j))
          /\ dlock' = "runner" /\ Goto(j, "compare") /\ UNCHANGED <<auth, job>>
    /\ UNCHANGED <<round, world, checker, stopper, raised, over, inner, work, crashes, history>>

(* Error: a mismatch leaves without giving the delegation lock back.       *)
CompareKeepingLock(j) ==
    /\ runner[j] = "compare" /\ TasksFree
    /\ IF requirement = auth[AuthOf(j)].version /\ source = job[j].snap
       THEN Goto(j, "begin") /\ dlock' = "free" /\ UNCHANGED <<job, aborted>>
       ELSE EndJob(j, "failed") /\ aborted' = aborted \cup {j} /\ UNCHANGED dlock
    /\ UNCHANGED <<auth, round, world, checker, stopper, raised, over, inner, work, crashes,
                   entered, ran, recorded, returned>>

(* ... and of the task: requirement and content, still under that lock.    *)
Compare(j) ==
    /\ runner[j] = "compare" /\ TasksFree /\ dlock' = "free"
    /\ \/ /\ requirement # auth[AuthOf(j)].version
          /\ EndJob(j, "completed") /\ aborted' = aborted \cup {j}
       \/ /\ requirement = auth[AuthOf(j)].version /\ source # job[j].snap
          /\ EndJob(j, "failed") /\ aborted' = aborted \cup {j}
       \/ /\ requirement = auth[AuthOf(j)].version /\ source = job[j].snap
          /\ Goto(j, "begin") /\ UNCHANGED <<job, aborted>>
    /\ UNCHANGED <<auth, round, world, checker, stopper, raised, over, inner, work, crashes,
                   entered, ran, recorded, returned>>

(* An interrupt ends the job here; otherwise reverify_needed once more and *)
(* then the thread that re-verifies.                                       *)
Begin(j) ==
    /\ runner[j] = "begin"
    /\ \/ Interrupted(j) /\ Goto(j, "abort") /\ UNCHANGED <<job, inner>>
       \/ /\ ~Interrupted(j) /\ TasksFree /\ Needed
          /\ Goto(j, "watch") /\ inner' = [inner EXCEPT ![j] = "spawned"] /\ UNCHANGED job
       \/ ~Interrupted(j) /\ TasksFree /\ ~Needed /\ EndJob(j, "completed") /\ UNCHANGED inner
    /\ UNCHANGED <<auth, round, world, dlock, checker, stopper, raised, over, work, crashes, history>>

(* _reverify_watchdog: it sees an interrupt and, at the end of the grace   *)
(* or before, leaves the thread to itself, finished or not, ...            *)
WatchSees(j) ==
    /\ runner[j] = "watch" /\ Interrupted(j)
    /\ Goto(j, "abort")
    /\ UNCHANGED <<OnlyRunner, dlock, history>>

(* ... or the thread ends first.                                           *)
WatchJoins(j) ==
    /\ runner[j] = "watch" /\ inner[j] \in {"finished", "stopped", "error"}
    /\ \/ inner[j] = "finished" /\ Goto(j, "receipt") /\ UNCHANGED job
       \/ inner[j] = "stopped" /\ Goto(j, "abort") /\ UNCHANGED job
       \/ inner[j] = "error" /\ EndJob(j, "failed")
    /\ UNCHANGED <<auth, round, world, dlock, checker, stopper, raised, over, inner, work, crashes, history>>

(* The receipt of the task is read, then the last check.                   *)
LastCheck(j) ==
    /\ runner[j] = "receipt" /\ TasksFree
    /\ Goto(j, IF Interrupted(j) THEN "abort" ELSE "record")
    /\ UNCHANGED <<OnlyRunner, dlock, history>>

(* receipt_recorded, then the job service finishes the job.                *)
Record(j) ==
    /\ runner[j] = "record" /\ Held("free")
    /\ recorded' = recorded \cup {j} /\ Goto(j, "return")
    /\ UNCHANGED <<OnlyRunner, dlock, entered, ran, aborted, returned>>

Return(j) ==
    /\ runner[j] = "return" /\ EndJob(j, "completed")
    /\ UNCHANGED <<auth, round, world, dlock, checker, stopper, raised, over, inner, work, crashes, history>>

(* _abort_event, then JobCancelled or JobBudgetExhausted.                  *)
Abort(j) ==
    /\ runner[j] = "abort" /\ Held("free")
    /\ aborted' = aborted \cup {j}
    /\ EndJob(j, IF j \in raised THEN "cancelled" ELSE "failed")
    /\ UNCHANGED <<auth, round, world, dlock, checker, stopper, raised, over, inner, work, crashes,
                   entered, ran, recorded, returned>>

-----------------------------------------------------------------------------
(* tasks.reverify_current, in the watchdog's thread, under the task lock.  *)

OnlyInner == <<auth, job, world, dlock, checker, stopper, runner, raised, over, crashes>>

(* A source that moved opens a round in which every criterion is pending.  *)
EnterTasks(j) ==
    /\ inner[j] = "spawned" /\ TasksFree
    /\ inner' = [inner EXCEPT ![j] = "inside"]
    /\ work' = [work EXCEPT ![j] = IF source = round.snap THEN round
                                   ELSE [snap |-> source, pending |-> Criteria]]
    /\ entered' = entered \cup {j}
    /\ UNCHANGED <<OnlyInner, round, ran, recorded, aborted, returned>>

LeaveTasks(j, how) == inner' = [inner EXCEPT ![j] = how] /\ work' = [work EXCEPT ![j] = NoWork]

(* The interrupt point before a criterion saves what was done so far.      *)
InterruptPoint(j) ==
    /\ inner[j] = "inside" /\ work[j].pending > 0 /\ Interrupted(j)
    /\ round' = work[j] /\ LeaveTasks(j, "stopped")
    /\ UNCHANGED <<OnlyInner, history>>

(* Error: the loop runs its experiments without an interrupt point.        *)
ExperimentUnasked(j) ==
    /\ inner[j] = "inside" /\ work[j].pending > 0
    /\ ran' = ran \cup {<<j, work[j].snap>>}
    /\ work' = [work EXCEPT ![j].pending = @ - 1]
    /\ UNCHANGED <<OnlyInner, inner, round, entered, recorded, aborted, returned>>

(* _run_experiment: the source guard, then the server's runner.            *)
Experiment(j) ==
    /\ inner[j] = "inside" /\ work[j].pending > 0 /\ ~Interrupted(j)
    /\ source = work[j].snap
    /\ ran' = ran \cup {<<j, work[j].snap>>}
    /\ work' = [work EXCEPT ![j].pending = @ - 1]
    /\ UNCHANGED <<OnlyInner, inner, round, entered, recorded, aborted, returned>>

GuardRaises(j) ==
    /\ inner[j] = "inside" /\ work[j].pending > 0 /\ ~Interrupted(j)
    /\ source # work[j].snap
    /\ LeaveTasks(j, "error")
    /\ UNCHANGED <<OnlyInner, round, history>>

FinishTasks(j) ==
    /\ inner[j] = "inside" /\ work[j].pending = 0
    /\ round' = work[j] /\ LeaveTasks(j, "finished")
    /\ UNCHANGED <<OnlyInner, history>>

-----------------------------------------------------------------------------
(* The process dies and is started again: the authorization directory is   *)
(* scanned, then the job directory.                                        *)

Crash ==
    /\ crashes < MaxCrashes /\ crashes' = crashes + 1
    /\ dlock' = "free" /\ checker' = IdleChecker /\ stopper' = IdleStopper
    /\ runner' = [j \in Jobs |-> "none"] /\ inner' = [j \in Jobs |-> "none"]
    /\ work' = [j \in Jobs |-> NoWork] /\ raised' = {} /\ over' = {}
    /\ auth' = [a \in Auths |-> IF auth[a].status = "active" /\ a \in lapsed
                                 THEN [auth[a] EXCEPT !.status = "expired"] ELSE auth[a]]
    /\ job' = [j \in Jobs |->
           CASE job[j].status = "running" -> [job[j] EXCEPT !.status = "interrupted"]
             [] job[j].status = "stopping" -> [job[j] EXCEPT !.status = "needs_recovery"]
             [] OTHER -> job[j]]
    /\ UNCHANGED <<round, world, history>>

-----------------------------------------------------------------------------

Environment ==
    \/ \E a \in Auths : Authorise(a) \/ Lapse(a) \/ StopAsked(a)
    \/ \E s \in Snapshots : EditSource(s)
    \/ ChangeRequirement \/ CheckBlocked \/ CheckEnter \/ Crash
    \/ \E j \in Jobs : CancelJob(j) \/ RunOver(j)

CheckStep == CheckTask \/ CheckSaves \/ \E j \in Jobs : CheckCreates(j) \/ CheckRefused(j)
StopStep == StopMarks \/ StopReturns \/ \E j \in Jobs : StopCancels(j) \/ StopWaits(j)

RunnerStep(j) ==
    \/ StartJob(j) \/ EnterRunner(j) \/ Identify(j) \/ Compare(j) \/ Begin(j)
    \/ WatchSees(j) \/ WatchJoins(j) \/ LastCheck(j) \/ Record(j) \/ Return(j) \/ Abort(j)

InnerStep(j) ==
    EnterTasks(j) \/ InterruptPoint(j) \/ Experiment(j) \/ GuardRaises(j) \/ FinishTasks(j)

Next ==
    \/ Environment \/ CheckStep \/ StopStep
    \/ \E j \in Jobs : RunnerStep(j) \/ InnerStep(j) \/ GiveUpJob(j)

Spec == Init /\ [][Next]_vars

(* Every thread of the service that can run does, experiments end, and the *)
(* deadline of a cancellation falls.  Nothing is assumed of the user, of   *)
(* the worktree or of crashes.                                             *)
Fairness ==
    /\ WF_vars(CheckStep) /\ SF_vars(StopStep)
    /\ \A j \in Jobs : SF_vars(RunnerStep(j)) /\ SF_vars(InnerStep(j)) /\ WF_vars(GiveUpJob(j))

FairSpec == Spec /\ Fairness

-----------------------------------------------------------------------------
(* Properties.                                                             *)

(* Once stop() has returned no experiment starts under the authorization,  *)
(* not even in a thread its watchdog abandoned.                            *)
StopIsFinal ==
    [][\A j \in Jobs, s \in Snapshots :
          <<j, s>> \in ran' \ ran => AuthOf(j) \notin returned]_vars

(* An interrupted job leaves an abort or a receipt, never both: the abort  *)
(* event says receipt_suppressed.                                          *)
AbortSuppressesReceipt == aborted \cap recorded = {}

StopHolds == StopIsFinal /\ []AbortSuppressesReceipt

(* What the authorization book promises (Allowance), whatever the threads  *)
(* and crashes do.                                                         *)
BookState(a) ==
    CASE auth[a].status = "absent" -> "unknown"
      [] auth[a].status = "active" -> "open"
      [] OTHER -> "closed"

Book == INSTANCE Allowance WITH
    Grants <- Auths, Uses <- Jobs, Limit <- MaxReverify,
    state <- [a \in Auths |-> BookState(a)],
    booked <- [a \in Auths |-> {row.job : row \in auth[a].dispatched}],
    ran <- entered

KeepsBook == Book!ASpec

(* A user's stop is answered: neither the two locks nor a job that ignores *)
(* its cancellation hold it for ever.                                      *)
StopAnswered == (stopper.at # "idle") ~> (stopper.at = "idle")

=============================================================================
