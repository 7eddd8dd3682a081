----------------------------- MODULE JobService -----------------------------
(***************************************************************************)
(* The background job service (modou/server/jobs.py): creation with        *)
(* de-duplication and budget reservation, the dispatcher thread, one       *)
(* worker thread per dispatched job, cancellation from a request thread,   *)
(* and the scan of the job directory when the service restarts.            *)
(*                                                                         *)
(* A section the code runs under self._lock is one action.  What the code  *)
(* does between two such sections (the unlocked read at the top of         *)
(* _execute, the runner, the write of result.json, the signal to the       *)
(* cancel event) is a step of its own, so every interleaving of the        *)
(* dispatcher, the workers and the cancelling threads is explored.         *)
(*                                                                         *)
(* On disk: rec (job.json), ledger (the shared budget file), published     *)
(* (result.json).  In memory, lost by a crash: pending, activeLocks,       *)
(* registered, worker, seen, event, canceller.  History, read by no        *)
(* action's guard: born (creation order), runs (entries into the runner),  *)
(* raced (jobs whose worker wrote a record over a terminal one), refused   *)
(* (jobs the ledger had no room for), torn (the service died between two   *)
(* writes that belong together).                                           *)
(***************************************************************************)
EXTENDS Integers, Sequences, FiniteSets, FiniteSetsExt

CONSTANTS
    Jobs,         \* job ids, which secrets.token_hex picks
    NameOrder,    \* pairs of jobs: the sorted order of their directory names
    Requests,     \* what a caller asks for: records [kind, lock, key, estimate]
    CtorKinds,    \* kinds whose runner is given to the constructor
    LateKinds,    \* kinds registered after the constructor, by register_runner
    NoLock,       \* the empty repo_write_lock
    NoKey,        \* the empty dedupe_key
    BudgetTotal,  \* the budget's total
    MaxUsage,     \* bound: the usage one settlement can report
    MaxCrashes    \* bound: how often the service dies

ASSUME JobsAssumption ==
    IsFiniteSet(Jobs) /\ NameOrder \subseteq Jobs \X Jobs /\ \A j \in Jobs : <<j, j>> \notin NameOrder
ASSUME RequestsAssumption ==
    Requests # {} /\ \A r \in Requests : DOMAIN r = {"kind", "lock", "key", "estimate"} /\ r.estimate \in Nat
ASSUME BoundsAssumption ==
    BudgetTotal \in Nat /\ MaxUsage \in Nat /\ MaxCrashes \in Nat

VARIABLES
    rec, ledger, published,
    up, crashes, pending, activeLocks, registered, worker, seen, event, canceller,
    born, runs, raced, refused, torn

disk == <<rec, ledger, published>>
threads == <<worker, seen, event, canceller>>
queue == <<pending, activeLocks, registered>>
history == <<born, runs, raced, refused, torn>>
vars == <<disk, up, crashes, queue, threads, history>>

TerminalStatuses == {"completed", "failed", "cancelled", "interrupted", "needs_recovery"}
DedupeActive == {"queued", "running"}
Statuses == {"absent", "queued", "running", "stopping"} \cup TerminalStatuses

(* A job.json: its status, whether a cancellation was requested, whether   *)
(* its budget was settled and with what usage, whether the last scan left  *)
(* it waiting for its runner, and the request it was created from.         *)
Records ==
    [status : Statuses, cancelRequested : BOOLEAN, settled : BOOLEAN,
     usage : 0..MaxUsage, deferred : BOOLEAN, req : Requests]

WorkerSteps == {"none", "spawned", "read", "started", "runner", "checked", "published", "done"}

Status(j) == rec[j].status
LockOf(j) == rec[j].req.lock
Estimate(j) == rec[j].req.estimate
Pending == {pending[i] : i \in DOMAIN pending}
LockFree(j) == LockOf(j) = NoLock \/ LockOf(j) \notin activeLocks

(* The thread has registered itself in _worker_threads and is alive.       *)
WorkerAlive(j) == worker[j] \notin {"none", "spawned"}

Without(s, i) == SubSeq(s, 1, i - 1) \o SubSeq(s, i + 1, Len(s))

(* A directory that does not exist yet.                                    *)
Blank == [status |-> "absent", cancelRequested |-> FALSE, settled |-> FALSE,
          usage |-> 0, deferred |-> FALSE, req |-> CHOOSE r \in Requests : TRUE]

Init ==
    /\ rec = [j \in Jobs |-> Blank]
    /\ ledger = [reserved |-> 0, settled |-> 0]
    /\ published = {}
    /\ up = TRUE /\ crashes = 0
    /\ pending = <<>> /\ activeLocks = {} /\ registered = CtorKinds
    /\ worker = [j \in Jobs |-> "none"]
    /\ seen = [j \in Jobs |-> Blank]
    /\ event = [j \in Jobs |-> "absent"]
    /\ canceller = [j \in Jobs |-> "idle"]
    /\ born = [j \in Jobs |-> 0]
    /\ runs = [j \in Jobs |-> 0]
    /\ raced = {} /\ refused = {} /\ torn = FALSE

-----------------------------------------------------------------------------
(* The budget ledger.                                                      *)

HasRoom(amount) == ledger.reserved + ledger.settled + amount <= BudgetTotal

Reserved(amount) == [ledger EXCEPT !.reserved = @ + amount]

AtLeastZero(n) == IF n < 0 THEN 0 ELSE n

(* Error: the usage is booked and the reservation is not released.         *)
SettledKeepingReservation(j, usage) ==
    IF Estimate(j) = 0 \/ rec[j].settled THEN ledger
    ELSE [ledger EXCEPT !.settled = @ + usage]

Settled(j, usage) ==
    IF Estimate(j) = 0 \/ rec[j].settled THEN ledger
    ELSE [reserved |-> AtLeastZero(ledger.reserved - Estimate(j)),
          settled |-> ledger.settled + usage]

(* The record once its budget is settled: only the first settlement counts *)
(* and a job without a budget records none.                                *)
Closed(r, status, usage) ==
    IF r.req.estimate = 0 \/ r.settled THEN [r EXCEPT !.status = status]
    ELSE [r EXCEPT !.status = status, !.settled = TRUE, !.usage = usage]

(* Error: a late completion is taken at its word.                          *)
OutcomeAsWanted(status, wanted) == wanted

(* _finalize: the first terminal status wins; a completion that meets a    *)
(* cancellation is recorded as cancelled.  r is the record on disk as the  *)
(* caller left it.                                                         *)
Outcome(status, wanted) ==
    IF status = "stopping" /\ wanted = "completed" THEN "cancelled" ELSE wanted

FinalizeFrom(r, j, wanted, usage) ==
    IF r.status \in {"queued", "running", "stopping"}
    THEN /\ rec' = [rec EXCEPT ![j] = Closed(r, Outcome(r.status, wanted), usage)]
         /\ ledger' = Settled(j, usage)
    ELSE UNCHANGED <<rec, ledger>>

Finalize(j, wanted, usage) == FinalizeFrom(rec[j], j, wanted, usage)

(* Error: giving a job up leaves its budget unsettled.                     *)
MarkWithoutSettling(j, usage) ==
    rec' = [rec EXCEPT ![j].status = "needs_recovery"] /\ UNCHANGED ledger

(* _mark_needs_recovery.                                                   *)
MarkNeedsRecovery(j, usage) ==
    /\ rec' = [rec EXCEPT ![j] = Closed(@, "needs_recovery", usage)]
    /\ ledger' = Settled(j, usage)

-----------------------------------------------------------------------------
(* Creation and runner registration (request threads, under the lock).     *)

Inline(r) == r.kind \notin CtorKinds \cup LateKinds
Resolvable(r) == Inline(r) \/ r.kind \in registered
(* Error: a queued job does not count as in flight.                        *)
DuplicateOfRunning(r) ==
    r.key # NoKey /\ \E j \in Jobs : rec[j].req.key = r.key /\ Status(j) = "running"

Duplicate(r) ==
    r.key # NoKey /\ \E j \in Jobs : rec[j].req.key = r.key /\ Status(j) \in DedupeActive

Admissible(j, r) ==
    up /\ Status(j) = "absent" /\ Resolvable(r) /\ ~Duplicate(r)

NewRecord(r, status) == [Blank EXCEPT !.status = status, !.req = r]
CreatedSoFar == Cardinality({j \in Jobs : born[j] > 0})

Create(j, r) ==
    /\ Admissible(j, r)
    /\ HasRoom(r.estimate) \/ r.estimate = 0
    /\ ledger' = Reserved(r.estimate)
    /\ rec' = [rec EXCEPT ![j] = NewRecord(r, "queued")]
    /\ pending' = Append(pending, j)
    /\ born' = [born EXCEPT ![j] = CreatedSoFar + 1]
    /\ UNCHANGED <<published, up, crashes, activeLocks, registered, threads,
                   runs, raced, refused, torn>>

CreateRefused(j, r) ==
    /\ Admissible(j, r)
    /\ r.estimate > 0 /\ ~HasRoom(r.estimate)
    /\ rec' = [rec EXCEPT ![j] = NewRecord(r, "failed")]
    /\ born' = [born EXCEPT ![j] = CreatedSoFar + 1]
    /\ refused' = refused \cup {j}
    /\ UNCHANGED <<ledger, published, up, crashes, queue, threads, runs, raced, torn>>

(* The sequences over a set of ids in the order of glob: one.              *)
SortedIds(S) ==
    {s \in [1..Cardinality(S) -> S] : \A a, b \in DOMAIN s : a < b => <<s[a], s[b]>> \in NameOrder}

(* Error: the runner is registered and its deferred jobs stay behind.      *)
RegisterOnly(k) ==
    /\ up /\ k \in LateKinds \ registered
    /\ registered' = registered \cup {k}
    /\ UNCHANGED <<disk, up, crashes, pending, activeLocks, threads, history>>

RegisterRunner(k) ==
    /\ up /\ k \in LateKinds \ registered
    /\ registered' = registered \cup {k}
    /\ LET waiting == {j \in Jobs : rec[j].req.kind = k /\ Status(j) = "queued" /\ rec[j].deferred}
       IN  /\ rec' = [j \in Jobs |-> IF j \in waiting THEN [rec[j] EXCEPT !.deferred = FALSE]
                                                     ELSE rec[j]]
           /\ \E s \in SortedIds(waiting) : pending' = pending \o s
    /\ UNCHANGED <<ledger, published, up, crashes, activeLocks, threads, history>>

-----------------------------------------------------------------------------
(* The dispatcher thread: the first pending job whose lock is free.        *)

Dispatch ==
    /\ up
    /\ \E i \in DOMAIN pending :
          /\ LockFree(pending[i])
          /\ \A k \in 1..(i - 1) : ~LockFree(pending[k])
          /\ pending' = Without(pending, i)
          /\ activeLocks' = activeLocks \cup ({LockOf(pending[i])} \ {NoLock})
          /\ worker' = [worker EXCEPT ![pending[i]] = "spawned"]
    /\ UNCHANGED <<disk, up, crashes, registered, seen, event, canceller, history>>

-----------------------------------------------------------------------------
(* A worker thread: _run_job and _execute.                                 *)

At(j, step) == up /\ worker[j] = step
GoTo(j, step) == worker' = [worker EXCEPT ![j] = step]

(* The unlocked read at the top of _execute.                               *)
ReadRecord(j) ==
    /\ At(j, "spawned") /\ GoTo(j, "read")
    /\ seen' = [seen EXCEPT ![j] = rec[j]]
    /\ UNCHANGED <<disk, up, crashes, queue, event, canceller, history>>

(* The locked section of _execute writes back the record read before it.   *)
Start(j) ==
    /\ At(j, "read") /\ GoTo(j, "started")
    /\ event' = [event EXCEPT ![j] = IF seen[j].cancelRequested THEN "set" ELSE "clear"]
    /\ rec' = [rec EXCEPT ![j] = IF seen[j].status = "stopping" THEN seen[j]
                                 ELSE [seen[j] EXCEPT !.status = "running"]]
    /\ seen' = [seen EXCEPT ![j] = Blank]
    /\ raced' = IF Status(j) \in TerminalStatuses THEN raced \cup {j} ELSE raced
    /\ UNCHANGED <<ledger, published, up, crashes, queue, canceller, born, runs, refused, torn>>

(* A step of the worker that ends in _finalize.                            *)
Ends(j, wanted, usage) ==
    /\ Finalize(j, wanted, usage) /\ GoTo(j, "done")
    /\ UNCHANGED <<published, up, crashes, queue, seen, event, canceller, history>>

CancelBeforeRunner(j) ==
    At(j, "started") /\ event[j] = "set" /\ Ends(j, "cancelled", 0)

EnterRunner(j) ==
    /\ At(j, "started") /\ event[j] # "set" /\ GoTo(j, "runner")
    /\ runs' = [runs EXCEPT ![j] = @ + 1]
    /\ UNCHANGED <<disk, up, crashes, queue, seen, event, canceller, born, raced, refused, torn>>

CancelSeen(j) == event[j] = "set" \/ Status(j) \in {"stopping", "needs_recovery"}

(* The runner returns: a cancellation seen now suppresses the result.      *)
RunnerReturnsLate(j, usage) ==
    At(j, "runner") /\ CancelSeen(j) /\ Ends(j, "cancelled", usage)

RunnerReturns(j) ==
    /\ At(j, "runner") /\ ~CancelSeen(j) /\ GoTo(j, "checked")
    /\ UNCHANGED <<disk, up, crashes, queue, seen, event, canceller, history>>

(* The runner, or the write of its result, raises.                         *)
RunnerFails(j, usage) ==
    up /\ worker[j] \in {"runner", "checked"} /\ Ends(j, "failed", usage)

RunnerObservesCancel(j, usage) ==
    At(j, "runner") /\ event[j] = "set" /\ Ends(j, "cancelled", usage)

WriteResult(j) ==
    /\ At(j, "checked") /\ GoTo(j, "published")
    /\ published' = published \cup {j}
    /\ UNCHANGED <<rec, ledger, up, crashes, queue, seen, event, canceller, history>>

Complete(j, usage) == At(j, "published") /\ Ends(j, "completed", usage)

(* The finally block of _run_job.                                          *)
LeaveWorker(j) ==
    /\ At(j, "done") /\ GoTo(j, "none")
    /\ activeLocks' = activeLocks \ {LockOf(j)}
    /\ event' = [event EXCEPT ![j] = "absent"]
    /\ UNCHANGED <<disk, up, crashes, pending, registered, seen, canceller, history>>

-----------------------------------------------------------------------------
(* cancel(): one request thread per job; a second finds "stopping" or a    *)
(* terminal status and returns.                                            *)

(* Error: the cancelled job stays in the queue.                            *)
CancelQueuedInPlace(j) ==
    /\ up /\ canceller[j] = "idle" /\ Status(j) = "queued"
    /\ FinalizeFrom([rec[j] EXCEPT !.cancelRequested = TRUE], j, "cancelled", 0)
    /\ UNCHANGED <<published, up, crashes, queue, threads, history>>

CancelQueued(j) ==
    /\ up /\ canceller[j] = "idle" /\ Status(j) = "queued"
    /\ IF j \in Pending
       THEN \E i \in DOMAIN pending : pending[i] = j /\ pending' = Without(pending, i)
       ELSE UNCHANGED pending
    /\ FinalizeFrom([rec[j] EXCEPT !.cancelRequested = TRUE], j, "cancelled", 0)
    /\ UNCHANGED <<published, up, crashes, activeLocks, registered, threads, history>>

CancelRunning(j) ==
    /\ up /\ canceller[j] = "idle" /\ Status(j) = "running"
    /\ rec' = [rec EXCEPT ![j].status = "stopping", ![j].cancelRequested = TRUE]
    /\ canceller' = [canceller EXCEPT ![j] = "signal"]
    /\ UNCHANGED <<ledger, published, up, crashes, queue, worker, seen, event, history>>

SignalCancel(j) ==
    /\ up /\ canceller[j] = "signal"
    /\ event' = [event EXCEPT ![j] = IF @ = "absent" THEN @ ELSE "set"]
    /\ canceller' = [canceller EXCEPT ![j] = "await"]
    /\ UNCHANGED <<disk, up, crashes, queue, worker, seen, history>>

(* Error: giving up a job frees its lock while its worker still runs.      *)
CancelSettlesFreeingLock(j, usage) ==
    /\ up /\ canceller[j] = "await"
    /\ canceller' = [canceller EXCEPT ![j] = "idle"]
    /\ IF Status(j) # "stopping" THEN UNCHANGED <<rec, ledger, activeLocks>>
       ELSE MarkNeedsRecovery(j, usage) /\ activeLocks' = activeLocks \ {LockOf(j)}
    /\ UNCHANGED <<published, up, crashes, pending, registered, worker, seen, event, history>>

(* Error: no deadline, the canceller waits for the worker to end.          *)
CancelSettlesOnExit(j, usage) ==
    /\ up /\ canceller[j] = "await" /\ ~WorkerAlive(j)
    /\ canceller' = [canceller EXCEPT ![j] = "idle"]
    /\ Finalize(j, "cancelled", usage)
    /\ UNCHANGED <<published, up, crashes, queue, worker, seen, event, history>>

(* The poll ends on a terminal status, on the worker's exit or at the      *)
(* deadline, which may fall at any time.                                   *)
CancelSettles(j, usage) ==
    /\ up /\ canceller[j] = "await"
    /\ canceller' = [canceller EXCEPT ![j] = "idle"]
    /\ IF Status(j) # "stopping" THEN UNCHANGED <<rec, ledger>>
       ELSE IF WorkerAlive(j) THEN MarkNeedsRecovery(j, usage)
       ELSE Finalize(j, "cancelled", usage)
    /\ UNCHANGED <<published, up, crashes, queue, worker, seen, event, history>>

-----------------------------------------------------------------------------
(* The process dies: threads and memory are gone, the files stay.          *)

Dies ==
    /\ up /\ crashes < MaxCrashes
    /\ up' = FALSE /\ crashes' = crashes + 1
    /\ pending' = <<>> /\ activeLocks' = {} /\ registered' = CtorKinds
    /\ worker' = [j \in Jobs |-> "none"]
    /\ seen' = [j \in Jobs |-> Blank]
    /\ event' = [j \in Jobs |-> "absent"]
    /\ canceller' = [j \in Jobs |-> "idle"]
    /\ UNCHANGED <<published, runs, raced>>

Crash == Dies /\ UNCHANGED <<rec, ledger, born, refused, torn>>

(* ... in create(): the reservation is on disk and the job is not.         *)
CrashAfterReserve(j, r) ==
    /\ Admissible(j, r) /\ r.estimate > 0 /\ HasRoom(r.estimate)
    /\ Dies /\ ledger' = Reserved(r.estimate) /\ torn' = TRUE
    /\ UNCHANGED <<rec, born, refused>>

(* ... in create(): the refused job is on disk as queued, not yet failed.  *)
CrashBeforeRefusal(j, r) ==
    /\ Admissible(j, r) /\ r.estimate > 0 /\ ~HasRoom(r.estimate)
    /\ Dies /\ torn' = TRUE
    /\ rec' = [rec EXCEPT ![j] = NewRecord(r, "queued")]
    /\ born' = [born EXCEPT ![j] = CreatedSoFar + 1]
    /\ refused' = refused \cup {j}
    /\ UNCHANGED ledger

(* ... in cancel() of a queued job: the request is on disk, and the ledger *)
(* may already be settled, but the record is still queued.                 *)
CrashInCancelQueued(j) ==
    /\ canceller[j] = "idle" /\ Status(j) = "queued"
    /\ Dies
    /\ rec' = [rec EXCEPT ![j].cancelRequested = TRUE]
    /\ \/ ledger' = ledger /\ torn' = torn
       \/ ledger' = Settled(j, 0) /\ torn' = TRUE
    /\ UNCHANGED <<born, refused>>

(* ... in _finalize or _mark_needs_recovery: the ledger is settled and the *)
(* record is not.                                                          *)
CrashInSettlement(j, usage) ==
    /\ Status(j) \in {"running", "stopping"}
    /\ worker[j] \in {"started", "runner", "checked", "published"}
    /\ Estimate(j) > 0 /\ ~rec[j].settled
    /\ Dies /\ ledger' = Settled(j, usage) /\ torn' = TRUE
    /\ UNCHANGED <<rec, born, refused>>

(* Error: the scan puts interrupted jobs back into the queue.              *)
RestartReplaying ==
    /\ ~up /\ up' = TRUE
    /\ rec' = [j \in Jobs |->
          IF Status(j) \in {"running", "stopping"} THEN [rec[j] EXCEPT !.status = "queued"]
                                                  ELSE rec[j]]
    /\ \E s \in SortedIds({j \in Jobs : Status(j) \in {"queued", "running", "stopping"}}) :
          pending' = s
    /\ UNCHANGED <<ledger, published, crashes, activeLocks, registered, threads, history>>

(* The constructor's scan.  A running job whose write scope changed, and   *)
(* every stopping one, needs recovery; the others are interrupted.  Queued *)
(* jobs with a runner go back to the queue in the order of their names.    *)
Restart ==
    /\ ~up /\ up' = TRUE
    /\ \E traces \in SUBSET {j \in Jobs : Status(j) = "running"} :
          rec' = [j \in Jobs |->
              CASE Status(j) = "stopping" \/ j \in traces ->
                       [rec[j] EXCEPT !.status = "needs_recovery"]
                [] Status(j) = "running" /\ j \notin traces ->
                       [rec[j] EXCEPT !.status = "interrupted"]
                [] Status(j) = "queued" /\ rec[j].req.kind \notin CtorKinds ->
                       [rec[j] EXCEPT !.deferred = TRUE]
                [] OTHER -> rec[j]]
    /\ \E s \in SortedIds({j \in Jobs : Status(j) = "queued" /\ rec[j].req.kind \in CtorKinds}) :
          pending' = s
    /\ UNCHANGED <<ledger, published, crashes, activeLocks, registered, threads, history>>

(* Every id is used or unwanted and every thread is at rest.               *)
Quiet ==
    /\ up /\ pending = <<>> /\ \A j \in Jobs : worker[j] = "none" /\ canceller[j] = "idle"
    /\ UNCHANGED vars

-----------------------------------------------------------------------------

Client ==
    \/ \E j \in Jobs, r \in Requests : Create(j, r) \/ CreateRefused(j, r)
    \/ \E j \in Jobs : CancelQueued(j) \/ CancelRunning(j)

RunnerStep(j) ==
    \/ RunnerReturns(j)
    \/ \E u \in 0..MaxUsage :
          RunnerReturnsLate(j, u) \/ RunnerFails(j, u) \/ RunnerObservesCancel(j, u)

WorkerStep(j) ==
    \/ ReadRecord(j) \/ Start(j) \/ CancelBeforeRunner(j) \/ EnterRunner(j)
    \/ WriteResult(j) \/ LeaveWorker(j) \/ \E u \in 0..MaxUsage : Complete(j, u)

CancellerStep(j) == SignalCancel(j) \/ \E u \in 0..MaxUsage : CancelSettles(j, u)

Crashes ==
    \/ Crash
    \/ \E j \in Jobs, r \in Requests : CrashAfterReserve(j, r) \/ CrashBeforeRefusal(j, r)
    \/ \E j \in Jobs : CrashInCancelQueued(j)
    \/ \E j \in Jobs, u \in 0..MaxUsage : CrashInSettlement(j, u)

Next ==
    \/ Client \/ Dispatch \/ Crashes \/ Restart \/ Quiet
    \/ \E k \in LateKinds : RegisterRunner(k)
    \/ \E j \in Jobs : RunnerStep(j) \/ WorkerStep(j) \/ CancellerStep(j)

Spec == Init /\ [][Next]_vars

(* The scheduler runs every runnable thread of the service; the process is *)
(* started again after it dies and then registers its late runners.        *)
(* Nothing is assumed of a runner, nor that anyone creates or cancels.     *)
Fairness ==
    /\ WF_vars(Dispatch) /\ WF_vars(Restart)
    /\ \A k \in LateKinds : WF_vars(RegisterRunner(k))
    /\ \A j \in Jobs : WF_vars(WorkerStep(j)) /\ WF_vars(CancellerStep(j))

FairSpec == Spec /\ Fairness

-----------------------------------------------------------------------------
(* Properties.                                                             *)

(* Every variable stays in the set its part of jobs.py gives it.           *)
TypeOK ==
    /\ rec \in [Jobs -> Records]
    /\ ledger \in [reserved : Nat, settled : Nat]
    /\ published \subseteq Jobs /\ raced \subseteq Jobs /\ refused \subseteq Jobs
    /\ up \in BOOLEAN /\ torn \in BOOLEAN /\ crashes \in 0..MaxCrashes
    /\ pending \in Seq(Jobs)
    /\ activeLocks \subseteq {r.lock : r \in Requests}
    /\ registered \subseteq CtorKinds \cup LateKinds
    /\ worker \in [Jobs -> WorkerSteps]
    /\ seen \in [Jobs -> Records]
    /\ event \in [Jobs -> {"absent", "clear", "set"}]
    /\ canceller \in [Jobs -> {"idle", "signal", "await"}]
    /\ born \in [Jobs -> Nat] /\ runs \in [Jobs -> Nat]

(* Writes to one repository are serial: between its dispatch and the end   *)
(* of its thread (the finally block of _run_job) no two jobs with the same *)
(* repo_write_lock have a worker, whatever is cancelled, given up as       *)
(* needs_recovery or crashes meanwhile.                                    *)
LockExclusion ==
    \A a, b \in Jobs :
        worker[a] # "none" /\ worker[b] # "none" /\ LockOf(a) = LockOf(b) /\ LockOf(a) # NoLock
        => a = b

(* No blind replay (module docstring of jobs.py): over any number of       *)
(* restarts the runner of a job is entered at most once.                   *)
RunsOnce == \A j \in Jobs : runs[j] <= 1

(* A cancellation that was recorded while the job ran is never turned into *)
(* success by a worker that finishes late, and a job given up as           *)
(* needs_recovery is never touched again by its late worker or a restart.  *)
NoLateSuccess ==
    [][\A j \in Jobs :
        /\ Status(j) = "stopping" => Status(j)' \in {"stopping", "cancelled", "failed", "needs_recovery"}
        /\ Status(j) \in {"needs_recovery", "interrupted"} => rec[j]' = rec[j]]_vars

(* The jobs that hold a part of the ledger's reserved amount.              *)
Holders ==
    {j \in Jobs : Estimate(j) > 0 /\ ~rec[j].settled /\ Status(j) # "absent" /\ j \notin refused}

(* The shared budget is conserved: unless a worker resurrected a job or    *)
(* the service died between two writes, the ledger's reserved amount is    *)
(* what the unsettled jobs reserved and its settled amount what the        *)
(* settled jobs used, each counted once.                                   *)
LedgerConserved ==
    raced = {} /\ ~torn =>
        /\ ledger.reserved = MapThenSumSet(Estimate, Holders)
        /\ ledger.settled = MapThenSumSet(LAMBDA j : rec[j].usage, Jobs)

(* Only a restart strands a reservation: a job that ends while the service *)
(* is up gives back what it reserved, also when it ends as needs_recovery. *)
OnlyRestartStrands ==
    crashes = 0 =>
        \A j \in Holders : Status(j) \in {"queued", "running", "stopping"}

(* At most one job with a dedupe key is queued or running, also after a    *)
(* restart and with the runner not registered yet, unless one of the two   *)
(* was resurrected.                                                        *)
DedupeUnique ==
    \A a, b \in Jobs :
        /\ {Status(a), Status(b)} \subseteq {"queued", "running"}
        /\ rec[a].req.key = rec[b].req.key /\ rec[a].req.key # NoKey
        => a = b \/ a \in raced \/ b \in raced

(* Memory and disk agree: a job in the queue is queued on disk and has no  *)
(* worker, it is there once, and a job whose runner is executing is        *)
(* running, stopping or given up.                                          *)
QueueConsistent ==
    /\ \A j \in Pending : Status(j) = "queued" /\ worker[j] = "none" /\ ~rec[j].deferred
    /\ Cardinality(Pending) = Len(pending)
    /\ \A j \in Jobs : worker[j] = "runner" => Status(j) \in {"running", "stopping", "needs_recovery"}

(* A requested stop is always resolved, by the worker, by the canceller's  *)
(* deadline or by the next restart, even if the runner never returns.      *)
StoppingResolves == \A j \in Jobs : Status(j) = "stopping" ~> Status(j) \in TerminalStatuses

(* If every runner comes back, no job of a registered kind stays queued:   *)
(* neither behind a lock, nor behind a restart, nor behind a cancellation. *)
RunnersReturn == \A j \in Jobs : worker[j] \in {"runner", "checked"} ~> worker[j] \notin {"runner", "checked"}
QueuedProgress ==
    RunnersReturn =>
        \A j \in Jobs : (Status(j) = "queued" /\ ~Inline(rec[j].req)) ~> Status(j) # "queued"
=============================================================================
