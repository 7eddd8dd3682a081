-------------------------- MODULE DelegationProofs --------------------------
(* The delegation keeps the book of its authorizations, for every number   *)
(* of authorizations, jobs, snapshots and crashes: proofs about Delegation.*)
EXTENDS Delegation, FiniteSetTheorems, TLAPS

AuthStatuses == {"absent", "active", "stopped", "expired", "exhausted", "needs_reconfirm"}
JobStatuses == Ended \cup {"absent", "queued", "running", "stopping"}
Early == {"read", "identify", "compare", "begin"}
Late == {"watch", "receipt", "record", "return", "abort"}
Rows == [snap : Snapshots, job : Jobs]
AuthRecords == [status : AuthStatuses, version : Nat, used : Nat, dispatched : SUBSET Rows]
JobRecords == [status : JobStatuses, auth : Auths, snap : Snapshots, settled : BOOLEAN, usage : 0..1]

TypeOK ==
    /\ auth \in [Auths -> AuthRecords] /\ job \in [Jobs -> JobRecords]
    /\ source \in Snapshots /\ requirement \in Nat
    /\ runner \in [Jobs -> {"none"} \cup Early \cup Late]
    /\ inner \in [Jobs -> {"none", "spawned", "inside", "finished", "stopped", "error"}]
    /\ stopper \in [at : {"idle", "enter", "cancel"}, auth : Auths, left : SUBSET Jobs]
    /\ checker \in [at : {"idle", "task", "create", "save"}, job : Jobs \cup {IdleChecker.job}, snap : Snapshots]

Booked(a) == {row.job : row \in auth[a].dispatched}

(* Authorizations are numbered in the order of their creation.             *)
Numbered == \E n \in Nat : Known = 1..n

(* Nothing is booked on an authorization that was not created.             *)
NothingEarly == \A a \in Auths : auth[a].status = "absent" => auth[a].dispatched = {} /\ auth[a].used = 0

(* A row names a job created for its authorization and its snapshot.       *)
RowsAgree ==
    \A a \in Auths : \A row \in auth[a].dispatched :
        job[row.job].status # "absent" /\ job[row.job].auth = a /\ job[row.job].snap = row.snap

(* Every booking was counted.                                              *)
Counted ==
    \A a \in Auths : IsFiniteSet(Booked(a)) /\ Cardinality(Booked(a)) <= auth[a].used

(* While a check holds the delegation lock its authorization stays open,   *)
(* has a use left, and has no row of the snapshot the check works on.      *)
CheckSound ==
    dlock = "check" =>
        /\ Known # {} /\ auth[Latest].status = "active" /\ auth[Latest].used < MaxReverify
        /\ checker.at \in {"create", "save"} =>
               /\ checker.snap \in Snapshots
               /\ \A row \in auth[Latest].dispatched : row.snap # checker.snap
        /\ checker.at = "save" =>
               /\ checker.job \in Jobs /\ job[checker.job].status # "absent"
               /\ job[checker.job].auth = Latest /\ job[checker.job].snap = checker.snap

(* Past its identity check a job is registered, and so is the thread that  *)
(* re-verifies for it.                                                     *)
RunnersBooked ==
    \A j \in Jobs :
        runner[j] \in {"compare", "begin"} \cup Late \/ inner[j] = "spawned" => Registered(j)

(* A job goes through its runner once: what started is not queued, and     *)
(* what got its thread does not come back to the beginning.                *)
OneRunEach ==
    \A j \in Jobs :
        /\ runner[j] # "none" => job[j].status # "absent"
        /\ runner[j] \notin {"none", "read"} => job[j].status # "queued"
        /\ inner[j] = "spawned" \/ j \in entered =>
               job[j].status \notin {"absent", "queued"} /\ runner[j] \notin Early
        /\ j \in entered => inner[j] # "spawned"

BookSound == Numbered /\ NothingEarly /\ RowsAgree /\ Counted /\ CheckSound
RunSound == RunnersBooked /\ OneRunEach
IInv == TypeOK /\ BookSound /\ RunSound

-----------------------------------------------------------------------------
(* The latest authorization is one of those created.                       *)
LEMMA LatestKnown ==
    ASSUME Numbered, Known # {} PROVE Latest \in Known
<1>1. PICK n \in Nat : Known = 1..n
  BY DEF Numbered
<1>2. Latest = n
  BY <1>1, FS_Interval DEF Latest
<1> QED
  BY <1>1, <1>2

-----------------------------------------------------------------------------
(* What no step does to a job that exists: it keeps its authorization and  *)
(* its snapshot, and is not queued again.                                  *)
JobsKept ==
    /\ job' \in [Jobs -> JobRecords]
    /\ \A j \in Jobs : job[j].status # "absent" =>
          /\ job'[j].auth = job[j].auth /\ job'[j].snap = job[j].snap /\ job'[j].status # "absent"
          /\ job[j].status # "queued" => job'[j].status # "queued"

(* Settling a record keeps its type, its authorization and its snapshot.   *)
LEMMA SettleType ==
    ASSUME NEW r \in JobRecords, NEW status \in JobStatuses, NEW usage \in 0..1
    PROVE  /\ Settle(r, status, usage) \in JobRecords
           /\ Settle(r, status, usage).status = status
           /\ Settle(r, status, usage).auth = r.auth /\ Settle(r, status, usage).snap = r.snap
  BY DEF Settle, JobRecords

(* One job changes to a record of its type.                                *)
LEMMA OneJobKept ==
    ASSUME TypeOK, NEW j \in Jobs, NEW r \in JobRecords, job' = [job EXCEPT ![j] = r],
           job[j].status # "absent" =>
               /\ r.auth = job[j].auth /\ r.snap = job[j].snap /\ r.status # "absent"
               /\ job[j].status # "queued" => r.status # "queued"
    PROVE  JobsKept
  BY DEF JobsKept, TypeOK

(* A worker that ends its job keeps what the job was made for.             *)
LEMMA EndJobKeeps ==
    ASSUME TypeOK, NEW j \in Jobs, NEW wanted \in Ended, EndJob(j, wanted)
    PROVE  JobsKept
<1>1. PICK usage \in 0..1 : job' = [job EXCEPT ![j] = Finished(j, wanted, usage)]
  BY DEF EndJob
<1>2. job[j] \in JobRecords /\ wanted \in JobStatuses /\ "cancelled" \in JobStatuses
  BY DEF TypeOK, JobStatuses, Ended
<1>3. CASE job[j].status = "running"
  <2>1. Finished(j, wanted, usage) = Settle(job[j], wanted, usage)
    BY <1>3 DEF Finished
  <2> QED
    BY <1>1, <1>2, <2>1, SettleType, OneJobKept DEF Ended
<1>4. CASE job[j].status = "stopping"
  <2>1. PICK status \in Ended : Finished(j, wanted, usage) = Settle(job[j], status, usage)
    BY <1>4 DEF Finished, Ended
  <2>2. status \in JobStatuses
    BY DEF JobStatuses
  <2> QED
    BY <1>1, <1>2, <2>1, <2>2, SettleType, OneJobKept DEF Ended
<1>5. CASE job[j].status \notin {"running", "stopping"}
  BY <1>1, <1>2, <1>5, OneJobKept DEF Finished
<1> QED
  BY <1>3, <1>4, <1>5

(* So does a cancellation.                                                 *)
LEMMA CancelsKeeps ==
    ASSUME TypeOK, NEW j \in Jobs, Cancels(j)
    PROVE  JobsKept
<1>1. job[j] \in JobRecords /\ "cancelled" \in JobStatuses /\ "stopping" \in JobStatuses /\ 0 \in 0..1
  BY DEF TypeOK, JobStatuses, Ended
<1>2. Cancelled(j) \in JobRecords
  BY <1>1, SettleType DEF Cancelled, JobRecords
<1>3. /\ Cancelled(j).auth = job[j].auth /\ Cancelled(j).snap = job[j].snap
      /\ Cancelled(j).status \in {job[j].status, "cancelled", "stopping"}
  BY <1>1, SettleType DEF Cancelled, JobRecords
<1> QED
  BY <1>2, <1>3, OneJobKept DEF Cancels

(* The actions after which job is what it was.                             *)
LEMMA SameJobsKept == ASSUME TypeOK, UNCHANGED job PROVE JobsKept
  BY DEF TypeOK, JobsKept

(* A check creates its job where none was.                                 *)
LEMMA CreatedKept ==
    ASSUME TypeOK, BookSound, NEW j \in Jobs, CheckCreates(j) \/ CheckRefused(j)
    PROVE  JobsKept
<1>1. Latest \in Auths /\ checker.snap \in Snapshots
  BY LatestKnown DEF BookSound, CheckSound, CheckCreates, CheckRefused, Held, Known
<1>2. NoJob \in JobRecords
  BY BoundsAssumption DEF NoJob, JobRecords, JobStatuses, Auths, Nowhere
<1>3. [NoJob EXCEPT !.status = "queued", !.auth = Latest, !.snap = checker.snap] \in JobRecords
  BY <1>1, <1>2 DEF JobRecords, JobStatuses
<1>4. [NoJob EXCEPT !.status = "failed", !.auth = Latest, !.snap = checker.snap, !.settled = TRUE]
        \in JobRecords
  BY <1>1, <1>2 DEF JobRecords, JobStatuses, Ended
<1> QED
  BY <1>3, <1>4, OneJobKept, SameJobsKept DEF CheckCreates, CheckRefused

(* A worker that enters the runner marks its own job as running.           *)
LEMMA EnterRunnerKeeps ==
    ASSUME TypeOK, NEW j \in Jobs, EnterRunner(j)
    PROVE  JobsKept
<1>1. [job[j] EXCEPT !.status = "running"] \in JobRecords
  BY DEF TypeOK, JobRecords, JobStatuses
<1>2. job' = [job EXCEPT ![j] = [job[j] EXCEPT !.status = "running"]]
  BY DEF EnterRunner
<1> QED
  BY <1>1, <1>2, OneJobKept DEF TypeOK, JobRecords

(* A job that is given up keeps what it was made for.                      *)
LEMMA GiveUpKeeps ==
    ASSUME TypeOK, NEW j \in Jobs, GiveUpJob(j)
    PROVE  JobsKept
<1>1. PICK usage \in 0..1 : job' = [job EXCEPT ![j] = Settle(job[j], "needs_recovery", usage)]
  BY DEF GiveUpJob
<1>2. job[j] \in JobRecords /\ "needs_recovery" \in JobStatuses
  BY DEF TypeOK, JobStatuses, Ended
<1> QED
  BY <1>1, <1>2, SettleType, OneJobKept

(* A restart ends the jobs it finds in flight and keeps the others.        *)
LEMMA CrashKeeps == ASSUME TypeOK, Crash PROVE JobsKept
<1>1. \A j \in Jobs : job[j] \in JobRecords
  BY DEF TypeOK
<1>2. \A j \in Jobs : [job[j] EXCEPT !.status = "interrupted"] \in JobRecords
                    /\ [job[j] EXCEPT !.status = "needs_recovery"] \in JobRecords
  BY <1>1 DEF JobRecords, JobStatuses, Ended
<1>3. job' \in [Jobs -> JobRecords]
  BY <1>1, <1>2 DEF Crash
<1>4. \A j \in Jobs : /\ job'[j].auth = job[j].auth /\ job'[j].snap = job[j].snap
                      /\ job'[j].status \in {job[j].status, "interrupted", "needs_recovery"}
  BY <1>1 DEF Crash, JobRecords
<1> QED
  BY <1>3, <1>4 DEF JobsKept

(* No step of the program makes a job forget what it was made for.         *)
LEMMA JobsKeep == ASSUME TypeOK, BookSound, [Next]_vars PROVE JobsKept
<1>1. CASE Environment
  <2>1. ASSUME NEW j \in Jobs, CancelJob(j) PROVE JobsKept
    BY <2>1, CancelsKeeps DEF CancelJob
  <2>2. CASE UNCHANGED job
    BY <2>2, SameJobsKept
  <2> QED
    BY <1>1, <2>1, <2>2, CrashKeeps
       DEF Environment, Authorise, Lapse, StopAsked, EditSource, ChangeRequirement, CheckBlocked,
           CheckEnter, RunOver, disk, OnlyStopper
<1>2. CASE CheckStep
  BY <1>2, CreatedKept, SameJobsKept DEF CheckStep, CheckTask, CheckSaves
<1>3. CASE StopStep
  <2>1. ASSUME NEW j \in Jobs, StopCancels(j) PROVE JobsKept
    BY <2>1, CancelsKeeps DEF StopCancels
  <2> QED
    BY <1>3, <2>1, SameJobsKept DEF StopStep, StopMarks, StopReturns, StopWaits, disk, OnlyStopper
<1>4. ASSUME NEW j \in Jobs, RunnerStep(j) PROVE JobsKept
  <2>1. ASSUME NEW wanted \in Ended, EndJob(j, wanted) PROVE JobsKept
    BY <2>1, EndJobKeeps
  <2>2. CASE UNCHANGED job
    BY <2>2, SameJobsKept
  <2> QED
    BY <1>4, <2>1, <2>2, EnterRunnerKeeps
       DEF RunnerStep, StartJob, Identify, Compare, Begin, WatchSees, WatchJoins, LastCheck, Record,
           Return, Abort, OnlyRunner, disk, Ended
<1>5. ASSUME NEW j \in Jobs, InnerStep(j) PROVE JobsKept
  BY <1>5, SameJobsKept
     DEF InnerStep, EnterTasks, InterruptPoint, Experiment, GuardRaises, FinishTasks, OnlyInner
<1>6. CASE UNCHANGED vars
  BY <1>6, SameJobsKept DEF vars, disk
<1> QED
  BY <1>1, <1>2, <1>3, <1>4, <1>5, <1>6, GiveUpKeeps DEF Next

-----------------------------------------------------------------------------
(* Typing.                                                                 *)

(* The program starts in its types.                                        *)
LEMMA InitTypeOK == Init => TypeOK
<1>1. 1 \in Auths /\ Nowhere \in Snapshots
  BY BoundsAssumption DEF Auths, Nowhere
<1>2. NoJob \in JobRecords /\ NoAuth \in AuthRecords
  BY <1>1 DEF NoJob, NoAuth, JobRecords, AuthRecords, JobStatuses, AuthStatuses
<1> QED
  BY <1>1, <1>2 DEF Init, TypeOK, IdleStopper, IdleChecker

(* Closing an authorization keeps the type of the records.                 *)
LEMMA CloseType ==
    ASSUME TypeOK, NEW a \in Auths, NEW status \in AuthStatuses, Close(a, status)
    PROVE  auth' \in [Auths -> AuthRecords]
  BY DEF TypeOK, Close, AuthRecords

(* Every step keeps the type of the authorizations.                        *)
LEMMA AuthTyped ==
    ASSUME TypeOK, BookSound, [Next]_vars
    PROVE  auth' \in [Auths -> AuthRecords]
<1>1. CASE UNCHANGED auth
  BY <1>1 DEF TypeOK
<1>2. ASSUME NEW a \in Auths, Authorise(a) PROVE auth' \in [Auths -> AuthRecords]
  <2>1. [NoAuth EXCEPT !.status = "active", !.version = requirement] \in AuthRecords
    BY DEF NoAuth, AuthRecords, AuthStatuses, TypeOK
  <2> QED
    BY <1>2, <2>1 DEF Authorise, TypeOK
<1>3. CASE CheckBlocked
  <2>1. Latest \in Auths
    BY <1>3, LatestKnown DEF BookSound, CheckBlocked, Known
  <2>2. CASE Close(Latest, "expired")
    BY <2>1, <2>2, CloseType DEF AuthStatuses
  <2>3. CASE Close(Latest, "exhausted")
    BY <2>1, <2>3, CloseType DEF AuthStatuses
  <2> QED
    BY <1>1, <1>3, <2>2, <2>3 DEF CheckBlocked
<1>4. CASE CheckTask
  <2>1. Latest \in Auths
    BY <1>4, LatestKnown DEF BookSound, CheckSound, CheckTask, Held, Known
  <2> QED
    BY <1>1, <1>4, <2>1, CloseType DEF CheckTask, AuthStatuses
<1>5. CASE CheckSaves
  <2>1. Latest \in Auths /\ [snap |-> checker.snap, job |-> checker.job] \in Rows
    BY <1>5, LatestKnown DEF BookSound, CheckSound, CheckSaves, Held, Known, Rows
  <2>2. auth[Latest] \in AuthRecords
    BY <2>1 DEF TypeOK
  <2>3. [auth[Latest] EXCEPT !.used = @ + 1,
                             !.dispatched = @ \cup {[snap |-> checker.snap, job |-> checker.job]}]
          \in AuthRecords
    <3>1. /\ auth[Latest].used + 1 \in Nat
          /\ auth[Latest].dispatched \cup {[snap |-> checker.snap, job |-> checker.job]} \in SUBSET Rows
      BY <2>1, <2>2 DEF AuthRecords
    <3>2. \A n \in Nat, R \in SUBSET Rows : [auth[Latest] EXCEPT !.used = n, !.dispatched = R] \in AuthRecords
      BY <2>2 DEF AuthRecords
    <3> QED
      BY <3>1, <3>2
  <2>4. auth' = [auth EXCEPT ![Latest] =
                   [auth[Latest] EXCEPT !.used = @ + 1,
                        !.dispatched = @ \cup {[snap |-> checker.snap, job |-> checker.job]}]]
    BY <1>5, <2>1 DEF CheckSaves, TypeOK
  <2> QED
    BY <2>1, <2>3, <2>4 DEF TypeOK
<1>6. CASE StopMarks
  BY <1>1, <1>6, CloseType DEF StopMarks, AuthStatuses, TypeOK
<1>7. CASE Crash
  <2>1. \A a \in Auths : [auth[a] EXCEPT !.status = "expired"] \in AuthRecords
    BY DEF TypeOK, AuthRecords, AuthStatuses
  <2> QED
    BY <1>7, <2>1 DEF Crash, TypeOK
<1> QED
  BY <1>1, <1>2, <1>3, <1>4, <1>5, <1>6, <1>7
     DEF Next, Environment, CheckStep, StopStep, RunnerStep, InnerStep, Lapse, StopAsked, EditSource,
         ChangeRequirement, CheckEnter, CancelJob, RunOver, CheckCreates, CheckRefused, StopReturns,
         StopCancels, StopWaits, StartJob, EnterRunner, Identify, Compare, Begin, WatchSees, WatchJoins,
         LastCheck, Record, Return, Abort, EnterTasks, InterruptPoint, Experiment, GuardRaises,
         FinishTasks, GiveUpJob, vars, disk, OnlyStopper, OnlyRunner, OnlyInner

(* Every step keeps the types.                                             *)
LEMMA TypePreserved == ASSUME TypeOK, BookSound, [Next]_vars PROVE TypeOK'
<1>1. auth' \in [Auths -> AuthRecords] /\ job' \in [Jobs -> JobRecords]
  BY AuthTyped, JobsKeep DEF JobsKept
<1>2. source' \in Snapshots /\ requirement' \in Nat
  <2>1. CASE UNCHANGED <<source, requirement>>
    BY <2>1 DEF TypeOK
  <2>2. ASSUME NEW x \in Snapshots, EditSource(x) PROVE source' \in Snapshots /\ requirement' \in Nat
    BY <2>2 DEF EditSource, TypeOK
  <2>3. CASE ChangeRequirement
    BY <2>3 DEF ChangeRequirement, TypeOK
  <2> QED
    BY <2>1, <2>2, <2>3
       DEF Next, Environment, CheckStep, StopStep, RunnerStep, InnerStep, Authorise, Lapse, StopAsked,
           CheckBlocked, CheckEnter, CancelJob, RunOver, Crash, CheckTask, CheckSaves, CheckCreates,
           CheckRefused, StopMarks, StopReturns, StopCancels, StopWaits, StartJob, EnterRunner, Identify,
           Compare, Begin, WatchSees, WatchJoins, LastCheck, Record, Return, Abort, EnterTasks,
           InterruptPoint, Experiment, GuardRaises, FinishTasks, GiveUpJob, vars, world, OnlyStopper,
           OnlyRunner, OnlyInner
<1>3. runner' \in [Jobs -> {"none"} \cup Early \cup Late]
  <2>1. CASE UNCHANGED runner
    BY <2>1 DEF TypeOK
  <2>2. ASSUME NEW j \in Jobs, RunnerStep(j) PROVE runner' \in [Jobs -> {"none"} \cup Early \cup Late]
    BY <2>1, <2>2 DEF TypeOK, RunnerStep, StartJob, EnterRunner, Identify, Compare, Begin, WatchSees, WatchJoins,
                LastCheck, Record, Return, Abort, Goto, EndJob, Early, Late
  <2>3. CASE Crash
    BY <2>3 DEF Crash
  <2> QED
    BY <2>1, <2>2, <2>3
       DEF Next, Environment, CheckStep, StopStep, InnerStep, Authorise, Lapse, StopAsked, EditSource,
           ChangeRequirement, CheckBlocked, CheckEnter, CancelJob, RunOver, CheckTask, CheckSaves,
           CheckCreates, CheckRefused, StopMarks, StopReturns, StopCancels, StopWaits, EnterTasks,
           InterruptPoint, Experiment, GuardRaises, FinishTasks, GiveUpJob, vars, threads, OnlyStopper,
           OnlyInner
<1>4. inner' \in [Jobs -> {"none", "spawned", "inside", "finished", "stopped", "error"}]
  <2>1. CASE UNCHANGED inner
    BY <2>1 DEF TypeOK
  <2>2. ASSUME NEW j \in Jobs, InnerStep(j) \/ Begin(j)
        PROVE  inner' \in [Jobs -> {"none", "spawned", "inside", "finished", "stopped", "error"}]
    BY <2>1, <2>2 DEF TypeOK, InnerStep, Begin, EnterTasks, InterruptPoint, Experiment, GuardRaises, FinishTasks,
                LeaveTasks
  <2>3. CASE Crash
    BY <2>3 DEF Crash
  <2> QED
    BY <2>1, <2>2, <2>3
       DEF Next, Environment, CheckStep, StopStep, RunnerStep, Authorise, Lapse, StopAsked, EditSource,
           ChangeRequirement, CheckBlocked, CheckEnter, CancelJob, RunOver, CheckTask, CheckSaves,
           CheckCreates, CheckRefused, StopMarks, StopReturns, StopCancels, StopWaits, StartJob,
           EnterRunner, Identify, Compare, WatchSees, WatchJoins, LastCheck, Record, Return, Abort,
           GiveUpJob, vars, threads, OnlyStopper, OnlyRunner
<1>5. stopper' \in [at : {"idle", "enter", "cancel"}, auth : Auths, left : SUBSET Jobs]
  <2> DEFINE Stoppers == [at : {"idle", "enter", "cancel"}, auth : Auths, left : SUBSET Jobs]
  <2>1. CASE UNCHANGED stopper
    BY <2>1 DEF TypeOK
  <2>2. IdleStopper \in Stoppers
    BY BoundsAssumption DEF IdleStopper, Auths
  <2>3. ASSUME NEW a \in Auths, StopAsked(a) PROVE stopper' \in Stoppers
    BY <2>2, <2>3 DEF StopAsked
  <2>4. CASE StopMarks
    <3>1. {j \in Account(stopper.auth) : job[j].status \in {"queued", "running"}} \in SUBSET Jobs
      BY DEF Account
    <3> QED
      BY <2>2, <2>4, <3>1 DEF StopMarks, TypeOK
  <2>5. ASSUME NEW j \in Jobs, StopWaits(j) PROVE stopper' \in Stoppers
    BY <2>5 DEF StopWaits, TypeOK
  <2> QED
    BY <2>1, <2>2, <2>3, <2>4, <2>5
       DEF Next, Environment, CheckStep, StopStep, RunnerStep, InnerStep, Authorise, Lapse, EditSource,
           ChangeRequirement, CheckBlocked, CheckEnter, CancelJob, RunOver, Crash, CheckTask, CheckSaves,
           CheckCreates, CheckRefused, StopReturns, StopCancels, StartJob, EnterRunner, Identify, Compare,
           Begin, WatchSees, WatchJoins, LastCheck, Record, Return, Abort, EnterTasks, InterruptPoint,
           Experiment, GuardRaises, FinishTasks, GiveUpJob, vars, OnlyRunner, OnlyInner
<1>6. checker' \in [at : {"idle", "task", "create", "save"}, job : Jobs \cup {IdleChecker.job}, snap : Snapshots]
  <2> DEFINE Checkers == [at : {"idle", "task", "create", "save"}, job : Jobs \cup {IdleChecker.job},
                          snap : Snapshots]
  <2>1. CASE UNCHANGED checker
    BY <2>1 DEF TypeOK
  <2>2. IdleChecker \in Checkers
    BY BoundsAssumption DEF IdleChecker, Nowhere
  <2>3. CASE CheckEnter
    BY <2>2, <2>3 DEF CheckEnter
  <2>4. CASE CheckTask
    BY <2>2, <2>4 DEF CheckTask, CheckLeaves, TypeOK
  <2>5. ASSUME NEW j \in Jobs, CheckCreates(j) PROVE checker' \in Checkers
    BY <2>5 DEF CheckCreates, TypeOK
  <2> QED
    BY <2>1, <2>2, <2>3, <2>4, <2>5
       DEF Next, Environment, CheckStep, StopStep, RunnerStep, InnerStep, Authorise, Lapse, StopAsked,
           EditSource, ChangeRequirement, CheckBlocked, CancelJob, RunOver, Crash, CheckSaves,
           CheckRefused, CheckLeaves, StopMarks, StopReturns, StopCancels, StopWaits, StartJob,
           EnterRunner, Identify, Compare, Begin, WatchSees, WatchJoins, LastCheck, Record, Return, Abort,
           EnterTasks, InterruptPoint, Experiment, GuardRaises, FinishTasks, GiveUpJob, vars, OnlyStopper,
           OnlyRunner, OnlyInner
<1> QED
  BY <1>1, <1>2, <1>3, <1>4, <1>5, <1>6 DEF TypeOK

-----------------------------------------------------------------------------
(* The book.                                                               *)

(* The same rows and counts, nobody created: only statuses changed.        *)
RowsKept ==
    /\ auth' \in [Auths -> AuthRecords]
    /\ \A a \in Auths :
          /\ auth'[a].dispatched = auth[a].dispatched /\ auth'[a].used = auth[a].used
          /\ auth'[a].status = "absent" <=> auth[a].status = "absent"

(* As long as rows and jobs are kept, a row names a job of its own.        *)
LEMMA RowsAgreeKept ==
    ASSUME TypeOK, RowsAgree, JobsKept, RowsKept PROVE RowsAgree'
<1>1. \A a \in Auths : \A row \in auth[a].dispatched : row.job \in Jobs
  BY DEF TypeOK, AuthRecords, Rows
<1> QED
  BY <1>1 DEF RowsAgree, JobsKept, RowsKept

(* Steps that create no authorization leave the latest one the latest.     *)
LEMMA SameKnown == ASSUME RowsKept PROVE Known' = Known /\ Latest' = Latest
<1>1. Known' = Known
  BY DEF RowsKept, Known
<1> QED
  BY <1>1 DEF Latest

(* Steps that book nothing keep the book, outside a check at work.         *)
LEMMA BookKept ==
    ASSUME TypeOK, BookSound, JobsKept, RowsKept,
           dlock' # "check" \/ UNCHANGED <<auth, dlock, checker>>
    PROVE  BookSound'
<1>1. Numbered' /\ NothingEarly'
  BY SameKnown DEF BookSound, Numbered, NothingEarly, RowsKept
<1>2. RowsAgree'
  BY RowsAgreeKept DEF BookSound
<1>3. Counted'
  <2>1. \A a \in Auths : Booked(a)' = Booked(a)
    BY DEF Booked, RowsKept
  <2> QED
    BY <2>1 DEF BookSound, Counted, RowsKept
<1>4. CheckSound'
  <2>1. CASE dlock' # "check"
    BY <2>1 DEF CheckSound
  <2>2. CASE UNCHANGED <<auth, dlock, checker>>
    BY <2>2, SameKnown DEF BookSound, CheckSound, JobsKept
  <2> QED
    BY <2>1, <2>2
<1> QED
  BY <1>1, <1>2, <1>3, <1>4 DEF BookSound

(* A step that leaves the authorizations alone keeps their rows.           *)
LEMMA SameRowsKept == ASSUME TypeOK, UNCHANGED auth PROVE RowsKept
  BY DEF TypeOK, RowsKept

(* Closing an authorization keeps its rows.                                *)
LEMMA ClosedRowsKept ==
    ASSUME TypeOK, NEW a \in Known, NEW status \in AuthStatuses \ {"absent"}, Close(a, status)
    PROVE  RowsKept
<1>1. a \in Auths /\ auth[a].status # "absent"
  BY DEF Known
<1> QED
  BY <1>1, CloseType DEF Close, RowsKept, TypeOK, AuthRecords

(* A restart closes authorizations and keeps their rows.                   *)
LEMMA CrashRowsKept == ASSUME TypeOK, BookSound, Crash PROVE RowsKept
<1>1. auth' \in [Auths -> AuthRecords]
  BY AuthTyped DEF Next, Environment
<1>2. \A a \in Auths : auth[a] \in AuthRecords
  BY DEF TypeOK
<1> QED
  BY <1>1, <1>2 DEF Crash, RowsKept, AuthRecords

(* A new authorization gets the next number and an empty book.             *)
LEMMA AuthorisedSound ==
    ASSUME TypeOK, BookSound, NEW a \in Auths, Authorise(a)
    PROVE  BookSound'
<1>1. PICK n \in Nat : Known = 1..n
  BY DEF BookSound, Numbered
<1>2. a = n + 1
  BY <1>1, FS_Interval DEF Authorise
<1>3. /\ auth'[a].status = "active" /\ auth'[a].dispatched = {} /\ auth'[a].used = 0
      /\ \A b \in Auths \ {a} : auth'[b] = auth[b]
  BY DEF Authorise, TypeOK, NoAuth
<1>4. Known' = 1..(n + 1)
  <2>1. Known' = Known \cup {a}
    BY <1>3 DEF Known
  <2> QED
    BY <2>1, <1>1, <1>2
<1>5. NothingEarly' /\ RowsAgree'
  BY <1>3 DEF BookSound, NothingEarly, RowsAgree, Authorise
<1>6. Counted'
  <2>1. Booked(a)' = {} /\ \A b \in Auths \ {a} : Booked(b)' = Booked(b)
    BY <1>3 DEF Booked
  <2> QED
    BY <2>1, <1>3, FS_EmptySet DEF BookSound, Counted
<1>7. CheckSound'
  BY DEF Authorise, Held, CheckSound
<1> QED
  BY <1>4, <1>5, <1>6, <1>7 DEF BookSound, Numbered

(* A check enters on an open authorization with a use left.                *)
LEMMA CheckEnterSound == ASSUME TypeOK, BookSound, CheckEnter PROVE BookSound'
<1>1. RowsKept /\ JobsKept
  BY SameRowsKept, SameJobsKept DEF CheckEnter, disk
<1>2. CheckSound'
  <2>1. Known' = Known /\ Latest' = Latest
    BY <1>1, SameKnown
  <2> QED
    BY <2>1 DEF CheckEnter, CheckSound, Live, IdleChecker, disk
<1>3. Numbered' /\ NothingEarly' /\ RowsAgree'
  BY <1>1, SameKnown, RowsAgreeKept DEF BookSound, Numbered, NothingEarly, RowsKept
<1>4. Counted'
  BY DEF CheckEnter, disk, BookSound, Counted, Booked
<1> QED
  BY <1>2, <1>3, <1>4 DEF BookSound

(* A check that goes on after reading the task has a snapshot without a row. *)
LEMMA CheckTaskSound == ASSUME TypeOK, BookSound, CheckTask PROVE BookSound'
<1>1. Latest \in Known
  BY LatestKnown DEF CheckTask, BookSound, CheckSound, Held
<1>2. JobsKept
  BY SameJobsKept DEF CheckTask
<1>3. CASE Close(Latest, "needs_reconfirm") /\ CheckLeaves
  <2>1. RowsKept
    BY <1>1, <1>3, ClosedRowsKept DEF AuthStatuses
  <2> QED
    BY <1>2, <1>3, <2>1, BookKept DEF CheckLeaves
<1>4. CASE CheckLeaves /\ UNCHANGED auth
  BY <1>2, <1>4, SameRowsKept, BookKept DEF CheckLeaves
<1>5. CASE /\ \A row \in auth[Latest].dispatched : row.snap # source
           /\ checker' = [checker EXCEPT !.at = "create", !.snap = source]
           /\ UNCHANGED <<auth, dlock>>
  <2>1. RowsKept /\ Known' = Known /\ Latest' = Latest
    BY <1>5, SameRowsKept, SameKnown
  <2>2. CheckSound'
    <3>1. checker'.at = "create" /\ checker'.snap = source /\ source \in Snapshots
      BY <1>5 DEF TypeOK
    <3> QED
      BY <1>5, <2>1, <3>1 DEF BookSound, CheckSound, CheckTask
  <2>3. Numbered' /\ NothingEarly' /\ RowsAgree'
    BY <1>2, <2>1, RowsAgreeKept DEF BookSound, Numbered, NothingEarly, RowsKept
  <2>4. Counted'
    BY <1>5 DEF BookSound, Counted, Booked
  <2> QED
    BY <2>2, <2>3, <2>4 DEF BookSound
<1> QED
  BY <1>3, <1>4, <1>5 DEF CheckTask

(* The job a check creates is made for its authorization and its snapshot. *)
LEMMA CheckCreatesSound ==
    ASSUME TypeOK, BookSound, NEW j \in Jobs, CheckCreates(j) PROVE BookSound'
<1>1. RowsKept /\ Known' = Known /\ Latest' = Latest
  BY SameRowsKept, SameKnown DEF CheckCreates
<1>2. JobsKept
  BY CreatedKept
<1>3. CheckSound'
  <2>1. checker'.at = "save" /\ checker'.job = j /\ checker'.snap = checker.snap /\ UNCHANGED <<auth, dlock>>
    BY DEF CheckCreates, TypeOK
  <2>2. job'[j].status # "absent" /\ job'[j].auth = Latest /\ job'[j].snap = checker.snap
    <3>1. CASE SameKey(Latest, checker.snap) # {}
      BY <3>1 DEF CheckCreates, SameKey, Account, AuthOf
    <3>2. CASE SameKey(Latest, checker.snap) = {}
      <4>1. job'[j] = [NoJob EXCEPT !.status = "queued", !.auth = Latest, !.snap = checker.snap]
        BY <3>2 DEF CheckCreates, TypeOK
      <4> QED
        BY <4>1 DEF NoJob
    <3> QED
      BY <3>1, <3>2
  <2> QED
    BY <1>1, <2>1, <2>2 DEF BookSound, CheckSound, CheckCreates, Held
<1>4. Numbered' /\ NothingEarly' /\ RowsAgree'
  BY <1>1, <1>2, RowsAgreeKept DEF BookSound, Numbered, NothingEarly, RowsKept
<1>5. Counted'
  BY DEF CheckCreates, BookSound, Counted, Booked
<1> QED
  BY <1>3, <1>4, <1>5 DEF BookSound

(* What a check saves: one more use, and the row of its job.               *)
LEMMA SavedRow ==
    ASSUME TypeOK, BookSound, CheckSaves
    PROVE  /\ Latest \in Known /\ auth[Latest].status = "active" /\ checker.job \in Jobs
           /\ auth'[Latest].status = "active" /\ auth'[Latest].used = auth[Latest].used + 1
           /\ auth'[Latest].dispatched =
                  auth[Latest].dispatched \cup {[snap |-> checker.snap, job |-> checker.job]}
           /\ \A a \in Auths \ {Latest} : auth'[a] = auth[a]
           /\ \A a \in Auths : Booked(a)' = Booked(a) \cup (IF a = Latest THEN {checker.job} ELSE {})
<1>1. Latest \in Known /\ Latest \in Auths /\ auth[Latest].status = "active" /\ checker.job \in Jobs
  BY LatestKnown DEF CheckSaves, BookSound, CheckSound, Held, Known
<1>2. auth' = [auth EXCEPT ![Latest] =
                 [auth[Latest] EXCEPT !.used = @ + 1,
                      !.dispatched = @ \cup {[snap |-> checker.snap, job |-> checker.job]}]]
  BY <1>1 DEF CheckSaves, TypeOK
<1>3. auth[Latest] \in AuthRecords
  BY <1>1 DEF TypeOK
<1>4. /\ auth'[Latest].status = "active" /\ auth'[Latest].used = auth[Latest].used + 1
      /\ auth'[Latest].dispatched =
             auth[Latest].dispatched \cup {[snap |-> checker.snap, job |-> checker.job]}
      /\ \A a \in Auths \ {Latest} : auth'[a] = auth[a]
  BY <1>1, <1>2, <1>3 DEF TypeOK, AuthRecords
<1>5. ASSUME NEW a \in Auths
      PROVE  Booked(a)' = Booked(a) \cup (IF a = Latest THEN {checker.job} ELSE {})
  <2> DEFINE row == [snap |-> checker.snap, job |-> checker.job]
  <2>1. row.job = checker.job
    OBVIOUS
  <2>2. a = Latest => auth'[a].dispatched = auth[a].dispatched \cup {row}
    BY <1>4
  <2>3. a # Latest => auth'[a] = auth[a]
    BY <1>4
  <2> HIDE DEF row
  <2> QED
    BY <2>1, <2>2, <2>3 DEF Booked
<1> QED
  BY <1>1, <1>4, <1>5

(* Saving a check books one more job, and counts it.                       *)
LEMMA CheckSavesSound == ASSUME TypeOK, BookSound, CheckSaves PROVE BookSound'
<1>1. Numbered' /\ NothingEarly'
  <2>1. Known' = Known
    BY SavedRow DEF Known
  <2> QED
    BY <2>1, SavedRow DEF BookSound, Numbered, NothingEarly, Known
<1>2. RowsAgree'
  <2> SUFFICES ASSUME NEW a \in Auths, NEW row \in auth'[a].dispatched
               PROVE  /\ job[row.job].status # "absent"
                      /\ job[row.job].auth = a /\ job[row.job].snap = row.snap
    BY DEF RowsAgree, CheckSaves
  <2>1. CASE row \in auth[a].dispatched
    BY <2>1 DEF BookSound, RowsAgree
  <2>2. CASE a = Latest /\ row = [snap |-> checker.snap, job |-> checker.job]
    BY <2>2 DEF CheckSaves, BookSound, CheckSound, Held
  <2> QED
    BY <2>1, <2>2, SavedRow
<1>3. Counted'
  <2>1. Latest \in Auths /\ auth[Latest].used \in Nat
    BY SavedRow DEF TypeOK, AuthRecords, Known
  <2>2. IsFiniteSet(Booked(Latest)) /\ Cardinality(Booked(Latest)) <= auth[Latest].used
    BY <2>1 DEF BookSound, Counted
  <2>3. Cardinality(Booked(Latest)) \in Nat
    BY <2>2, FS_CardinalityType
  <2>4. /\ IsFiniteSet(Booked(Latest) \cup {checker.job})
        /\ Cardinality(Booked(Latest) \cup {checker.job}) <= auth[Latest].used + 1
    BY <2>1, <2>2, <2>3, FS_AddElement
  <2>5. \A a \in Auths : IsFiniteSet(Booked(a)') /\ Cardinality(Booked(a)') <= auth'[a].used
    BY <2>4, SavedRow DEF BookSound, Counted
  <2> QED
    BY <2>5 DEF Counted, Booked
<1>4. CheckSound'
  BY DEF CheckSaves, CheckLeaves, CheckSound
<1> QED
  BY <1>1, <1>2, <1>3, <1>4 DEF BookSound

(* Every step keeps the book sound.                                        *)
LEMMA BookPreserved == ASSUME TypeOK, BookSound, [Next]_vars PROVE BookSound'
<1>1. JobsKept
  BY JobsKeep
<1>2. CASE UNCHANGED <<auth, dlock, checker>> \/ (UNCHANGED auth /\ dlock' # "check")
  BY <1>1, <1>2, SameRowsKept, BookKept
<1>3. CASE CheckBlocked
  <2>1. Latest \in Known
    BY <1>3, LatestKnown DEF CheckBlocked, BookSound
  <2>2. ASSUME NEW status \in AuthStatuses \ {"absent"}, Close(Latest, status) PROVE BookSound'
    BY <1>1, <1>3, <2>1, <2>2, ClosedRowsKept, BookKept DEF CheckBlocked, Held
  <2>3. "expired" \in AuthStatuses \ {"absent"} /\ "exhausted" \in AuthStatuses \ {"absent"}
    BY DEF AuthStatuses
  <2> QED
    BY <1>2, <1>3, <2>2, <2>3 DEF CheckBlocked
<1>4. CASE StopMarks
  <2>1. ASSUME auth[stopper.auth].status = "active", Close(stopper.auth, "stopped") PROVE BookSound'
    <3>1. stopper.auth \in Known /\ "stopped" \in AuthStatuses \ {"absent"}
      BY <2>1 DEF TypeOK, Known, AuthStatuses
    <3> QED
      BY <1>1, <1>4, <2>1, <3>1, ClosedRowsKept, BookKept DEF StopMarks, Held
  <2> QED
    BY <1>2, <1>4, <2>1 DEF StopMarks
<1>5. CASE Crash
  BY <1>1, <1>5, CrashRowsKept, BookKept DEF Crash
<1> QED
  BY <1>2, <1>3, <1>4, <1>5, AuthorisedSound, CheckEnterSound, CheckTaskSound, CheckCreatesSound,
     CheckSavesSound
     DEF Next, Environment, CheckStep, StopStep, RunnerStep, InnerStep, Lapse, StopAsked, EditSource,
         ChangeRequirement, CancelJob, RunOver, CheckRefused, CheckLeaves, StopReturns, StopCancels,
         StopWaits, StartJob, EnterRunner, Identify, Compare, Begin, WatchSees, WatchJoins, LastCheck,
         Record, Return, Abort, EnterTasks, InterruptPoint, Experiment, GuardRaises, FinishTasks,
         GiveUpJob, vars, disk, OnlyStopper, OnlyRunner, OnlyInner

-----------------------------------------------------------------------------
(* The jobs that run.                                                      *)

(* No step removes a row.                                                  *)
LEMMA RowsGrow ==
    ASSUME TypeOK, BookSound, [Next]_vars, NEW a \in Auths
    PROVE  auth[a].dispatched \subseteq auth'[a].dispatched
<1>1. CASE RowsKept
  BY <1>1 DEF RowsKept
<1>2. ASSUME NEW b \in Auths, Authorise(b) PROVE auth[a].dispatched \subseteq auth'[a].dispatched
  <2>1. auth[b].dispatched = {}
    BY <1>2 DEF Authorise, Known, BookSound, NothingEarly
  <2>2. a # b => auth'[a] = auth[a]
    BY <1>2 DEF Authorise, TypeOK
  <2> QED
    BY <2>1, <2>2
<1>3. CASE CheckSaves
  BY <1>3, SavedRow
<1>4. CASE CheckBlocked
  <2>1. Latest \in Known
    BY <1>4, LatestKnown DEF CheckBlocked, BookSound
  <2>2. "expired" \in AuthStatuses \ {"absent"} /\ "exhausted" \in AuthStatuses \ {"absent"}
    BY DEF AuthStatuses
  <2>3. CASE UNCHANGED auth
    BY <2>3
  <2>4. ASSUME NEW status \in AuthStatuses \ {"absent"}, Close(Latest, status) PROVE RowsKept
    BY <2>1, <2>4, ClosedRowsKept
  <2> QED
    BY <1>1, <1>4, <2>2, <2>3, <2>4 DEF CheckBlocked
<1>5. CASE CheckTask
  <2>1. Latest \in Known /\ "needs_reconfirm" \in AuthStatuses \ {"absent"}
    BY <1>5, LatestKnown DEF CheckTask, BookSound, CheckSound, Held, AuthStatuses
  <2> QED
    BY <1>1, <1>5, <2>1, ClosedRowsKept DEF CheckTask
<1>6. CASE StopMarks
  <2>1. ASSUME auth[stopper.auth].status = "active", Close(stopper.auth, "stopped") PROVE RowsKept
    BY <2>1, ClosedRowsKept DEF TypeOK, Known, AuthStatuses
  <2> QED
    BY <1>1, <1>6, <2>1 DEF StopMarks
<1>7. CASE UNCHANGED auth
  BY <1>7
<1> QED
  BY <1>1, <1>2, <1>3, <1>4, <1>5, <1>6, <1>7, CrashRowsKept
     DEF Next, Environment, CheckStep, StopStep, RunnerStep, InnerStep, Lapse, StopAsked, EditSource,
         ChangeRequirement, CheckEnter, CancelJob, RunOver, CheckCreates, CheckRefused, StopReturns,
         StopCancels, StopWaits, StartJob, EnterRunner, Identify, Compare, Begin, WatchSees, WatchJoins,
         LastCheck, Record, Return, Abort, EnterTasks, InterruptPoint, Experiment, GuardRaises,
         FinishTasks, GiveUpJob, vars, disk, OnlyStopper, OnlyRunner, OnlyInner

(* A job that is registered stays registered.                              *)
LEMMA RegisteredStays ==
    ASSUME TypeOK, BookSound, [Next]_vars, NEW j \in Jobs, Registered(j)
    PROVE  Registered(j)'
<1>1. AuthOf(j) \in Auths
  BY DEF AuthOf, TypeOK, JobRecords
<1>2. job[j].status # "absent"
  BY <1>1 DEF Registered, Row, BookSound, RowsAgree
<1>3. job'[j].auth = job[j].auth /\ job'[j].snap = job[j].snap
  BY <1>2, JobsKeep DEF JobsKept
<1> QED
  BY <1>1, <1>3, RowsGrow DEF Registered, Row, AuthOf

(* Nothing of the runners moved.                                           *)
LEMMA RunKept ==
    ASSUME TypeOK, BookSound, RunSound, [Next]_vars, UNCHANGED <<runner, inner, entered>>
    PROVE  RunSound'
<1>1. RunnersBooked'
  BY RegisteredStays DEF RunSound, RunnersBooked
<1>2. OneRunEach'
  BY JobsKeep DEF JobsKept, RunSound, OneRunEach
<1> QED
  BY <1>1, <1>2 DEF RunSound

(* One runner moved, and the thread it started if it started one.          *)
LEMMA RunnerMoved ==
    ASSUME TypeOK, BookSound, RunSound, [Next]_vars, NEW j \in Jobs,
           UNCHANGED entered, NEW at \in {"none"} \cup Early \cup Late, runner' = [runner EXCEPT ![j] = at],
           inner' = inner \/ (at = "watch" /\ inner' = [inner EXCEPT ![j] = "spawned"]),
           at \in {"compare", "begin"} \cup Late => Registered(j),
           at # "none" => job'[j].status # "absent",
           at \notin {"none", "read"} => job'[j].status # "queued",
           at \in Early => j \notin entered /\ inner[j] # "spawned",
           inner' # inner => j \notin entered
    PROVE  RunSound'
<1>1. RunnersBooked'
  <2> SUFFICES ASSUME NEW i \in Jobs, runner'[i] \in {"compare", "begin"} \cup Late \/ inner'[i] = "spawned"
               PROVE  Registered(i)'
    BY DEF RunnersBooked
  <2>1. Registered(i)
    BY DEF RunSound, RunnersBooked, TypeOK, Late
  <2> QED
    BY <2>1, RegisteredStays
<1>2. OneRunEach'
  BY JobsKeep DEF JobsKept, RunSound, OneRunEach, TypeOK, Early, Late
<1> QED
  BY <1>1, <1>2 DEF RunSound

(* The runner is gone.                                                     *)
LEMMA RunnerGone ==
    ASSUME TypeOK, BookSound, RunSound, [Next]_vars, NEW j \in Jobs,
           UNCHANGED <<inner, entered>>, runner' = [runner EXCEPT ![j] = "none"]
    PROVE  RunSound'
  BY RunnerMoved DEF Early, Late

(* The steps of a job's runner keep the threads booked and run once.       *)
LEMMA RunnerStepSound ==
    ASSUME TypeOK, BookSound, RunSound, NEW j \in Jobs, RunnerStep(j)
    PROVE  RunSound'
<1> [Next]_vars /\ UNCHANGED entered
  BY DEF Next, RunnerStep, StartJob, EnterRunner, Identify, Compare, Begin, WatchSees, WatchJoins,
         LastCheck, Record, Return, Abort, history
<1>1. JobsKept
  BY JobsKeep
<1>2. job[j].status # "absent" \/ runner[j] = "none"
  BY DEF RunSound, OneRunEach
<1>3. CASE StartJob(j)
  BY <1>1, <1>3, RunnerMoved DEF StartJob, threads, disk, Early, Late, RunSound, OneRunEach
<1>4. CASE EnterRunner(j)
  <2>1. job'[j].status = "running"
    BY <1>4 DEF EnterRunner, TypeOK, JobRecords
  <2> QED
    BY <1>4, <2>1, RunnerMoved DEF EnterRunner, Early, Late, RunSound, OneRunEach
<1>5. CASE Identify(j)
  <2>1. ASSUME NEW wanted \in Ended, EndJob(j, wanted) PROVE RunSound'
    BY <1>5, <2>1, RunnerGone DEF EndJob, Identify
  <2>2. CASE Registered(j) /\ Goto(j, "compare") /\ UNCHANGED job
    BY <1>2, <1>5, <2>2, RunnerMoved DEF Identify, Goto, Early, Late, RunSound, OneRunEach
  <2> QED
    BY <1>5, <2>1, <2>2 DEF Identify, Ended
<1>6. CASE Compare(j)
  <2>1. ASSUME NEW wanted \in Ended, EndJob(j, wanted) PROVE RunSound'
    BY <1>6, <2>1, RunnerGone DEF EndJob, Compare
  <2>2. CASE Goto(j, "begin") /\ UNCHANGED job
    BY <1>2, <1>6, <2>2, RunnerMoved DEF Compare, Goto, Early, Late, RunSound, OneRunEach, RunnersBooked
  <2> QED
    BY <1>6, <2>1, <2>2 DEF Compare, Ended
<1>7. CASE Begin(j)
  <2>1. ASSUME NEW wanted \in Ended, EndJob(j, wanted), UNCHANGED inner PROVE RunSound'
    BY <1>7, <2>1, RunnerGone DEF EndJob, Begin
  <2>2. CASE Goto(j, "abort") /\ UNCHANGED <<job, inner>>
    BY <1>2, <1>7, <2>2, RunnerMoved DEF Begin, Goto, Early, Late, RunSound, OneRunEach, RunnersBooked
  <2>3. CASE Goto(j, "watch") /\ inner' = [inner EXCEPT ![j] = "spawned"] /\ UNCHANGED job
    BY <1>2, <1>7, <2>3, RunnerMoved DEF Begin, Goto, Early, Late, RunSound, OneRunEach, RunnersBooked
  <2> QED
    BY <1>7, <2>1, <2>2, <2>3 DEF Begin, Ended
<1>8. ASSUME runner[j] \in Late, NEW at \in Late, Goto(j, at), UNCHANGED <<job, inner>>
      PROVE  RunSound'
  BY <1>2, <1>8, RunnerMoved DEF Goto, Early, Late, RunSound, OneRunEach, RunnersBooked
<1>9. ASSUME NEW wanted \in Ended, EndJob(j, wanted), UNCHANGED inner PROVE RunSound'
  BY <1>9, RunnerGone DEF EndJob
<1> QED
  BY <1>3, <1>4, <1>5, <1>6, <1>7, <1>8, <1>9
     DEF RunnerStep, WatchSees, WatchJoins, LastCheck, Record, Return, Abort, OnlyRunner, disk, Late, Ended

(* The steps of a re-verifying thread keep the threads booked and run once. *)
LEMMA InnerStepSound ==
    ASSUME TypeOK, BookSound, RunSound, NEW j \in Jobs, InnerStep(j)
    PROVE  RunSound'
<1> [Next]_vars
  BY DEF Next
<1>1. UNCHANGED <<job, auth, runner>>
  BY DEF InnerStep, EnterTasks, InterruptPoint, Experiment, GuardRaises, FinishTasks, OnlyInner
<1>2. PICK at \in {"inside", "finished", "stopped", "error"} : inner' = [inner EXCEPT ![j] = at] \/ inner' = inner
  BY DEF InnerStep, EnterTasks, InterruptPoint, Experiment, GuardRaises, FinishTasks, LeaveTasks
<1>3. entered' = entered \/ (entered' = entered \cup {j} /\ inner[j] = "spawned" /\ inner' = [inner EXCEPT ![j] = "inside"])
  BY DEF InnerStep, EnterTasks, InterruptPoint, Experiment, GuardRaises, FinishTasks, history
<1>4. RunnersBooked'
  <2>1. \A i \in Jobs : inner'[i] = "spawned" => inner[i] = "spawned"
    BY <1>2 DEF TypeOK
  <2> QED
    BY <1>1, <2>1, RegisteredStays DEF RunSound, RunnersBooked
<1>5. OneRunEach'
  BY <1>1, <1>2, <1>3 DEF RunSound, OneRunEach, TypeOK
<1> QED
  BY <1>4, <1>5 DEF RunSound

(* So does a restart, which leaves no thread.                              *)
LEMMA CrashSound == ASSUME TypeOK, BookSound, RunSound, Crash PROVE RunSound'
<1>1. JobsKept
  BY CrashKeeps
<1>2. \A j \in Jobs : runner'[j] = "none" /\ inner'[j] = "none"
  BY DEF Crash
<1>3. entered' = entered
  BY DEF Crash, history
<1> QED
  BY <1>1, <1>2, <1>3 DEF RunSound, RunnersBooked, OneRunEach, JobsKept, Early, Late

(* Every step keeps the threads booked and run once.                       *)
LEMMA RunPreserved == ASSUME TypeOK, BookSound, RunSound, [Next]_vars PROVE RunSound'
<1>1. CASE UNCHANGED <<runner, inner, entered>>
  BY <1>1, RunKept
<1> QED
  BY <1>1, RunnerStepSound, InnerStepSound, CrashSound
     DEF Next, Environment, CheckStep, StopStep, Authorise, Lapse, StopAsked, EditSource,
         ChangeRequirement, CheckBlocked, CheckEnter, CancelJob, RunOver, CheckTask, CheckSaves,
         CheckCreates, CheckRefused, StopMarks, StopReturns, StopCancels, StopWaits, GiveUpJob, vars,
         threads, history, OnlyStopper

(* The inductive invariant holds at the start.                             *)
LEMMA InitIInv == Init => IInv
<1> SUFFICES ASSUME Init PROVE IInv
  OBVIOUS
<1>1. Known = {}
  BY DEF Init, Known, NoAuth
<1>2. Known = 1..0 /\ \A a \in Auths : Booked(a) = {}
  BY <1>1 DEF Init, NoAuth, Booked
<1>3. BookSound
  BY <1>2, FS_EmptySet DEF Init, BookSound, Numbered, NothingEarly, RowsAgree, Counted, CheckSound, NoAuth
<1>4. RunSound
  BY DEF Init, RunSound, RunnersBooked, OneRunEach, Late
<1> QED
  BY <1>3, <1>4, InitTypeOK DEF IInv

(* The inductive invariant holds in every state.                           *)
THEOREM Invariance == Spec => []IInv
<1>1. IInv /\ [Next]_vars => IInv'
  BY TypePreserved, BookPreserved, RunPreserved DEF IInv
<1> QED
  BY <1>1, InitIInv, PTL DEF Spec

-----------------------------------------------------------------------------
(* The refinement.                                                         *)

(* The start of the program is a start of the book.                        *)
LEMMA InitBook == Init => Book!AInit
  BY DEF Init, Book!AInit, BookState, NoAuth

(* A step that changes neither a status nor a row nor what entered.        *)
LEMMA StutterBook ==
    ASSUME UNCHANGED <<auth, entered>> PROVE UNCHANGED Book!avars
  BY DEF Book!avars, BookState

(* Creating an authorization opens an allowance of the book.               *)
LEMMA AuthoriseOpens ==
    ASSUME TypeOK, BookSound, NEW a \in Auths, Authorise(a) PROVE Book!ANext
<1>1. auth[a].status = "absent" /\ auth[a].dispatched = {}
  BY DEF Authorise, Known, BookSound, NothingEarly
<1>2. auth'[a].status = "active" /\ auth'[a].dispatched = {} /\ \A b \in Auths \ {a} : auth'[b] = auth[b]
  BY DEF Authorise, TypeOK, NoAuth
<1>3. Book!Open(a)
  BY <1>1, <1>2 DEF Book!Open, BookState, Authorise, history
<1> QED
  BY <1>3 DEF Book!ANext

(* Statuses of active authorizations became something else.                *)
LEMMA StatusesClose ==
    ASSUME TypeOK, UNCHANGED entered, NEW S \in SUBSET Auths,
           \A a \in S : auth[a].status = "active" /\ auth'[a].status \notin {"absent", "active"},
           \A a \in Auths : auth'[a].dispatched = auth[a].dispatched,
           \A a \in Auths \ S : auth'[a].status = auth[a].status
    PROVE  Book!ANext
<1>1. Book!Close(S)
  BY DEF Book!Close, BookState
<1> QED
  BY <1>1 DEF Book!ANext

(* Closing one authorization closes its allowance.                         *)
LEMMA ClosingStep ==
    ASSUME TypeOK, UNCHANGED entered, NEW a \in Auths, auth[a].status = "active",
           NEW status \in AuthStatuses \ {"absent", "active"}, Close(a, status)
    PROVE  Book!ANext
<1>1. auth'[a].status = status /\ \A b \in Auths : auth'[b].dispatched = auth[b].dispatched
  BY DEF Close, TypeOK, AuthRecords
<1>2. \A b \in Auths \ {a} : auth'[b].status = auth[b].status
  BY DEF Close, TypeOK
<1> QED
  BY <1>1, <1>2, StatusesClose

(* A restart closes the allowances that lapsed, or none.                   *)
LEMMA CrashCloses ==
    ASSUME TypeOK, BookSound, Crash PROVE Book!ANext
<1> DEFINE S == {a \in Auths : auth[a].status = "active" /\ a \in lapsed}
<1>1. \A a \in S : auth'[a].status = "expired" /\ auth[a].status = "active"
  BY DEF Crash, TypeOK, AuthRecords
<1>2. \A a \in Auths : auth'[a].dispatched = auth[a].dispatched
  BY DEF Crash, TypeOK, AuthRecords
<1>3. \A a \in Auths \ S : auth'[a].status = auth[a].status
  BY DEF Crash
<1>4. UNCHANGED entered
  BY DEF Crash, history
<1> HIDE DEF S
<1>5. S \in SUBSET Auths
  BY DEF S
<1> QED
  BY <1>1, <1>2, <1>3, <1>4, <1>5, StatusesClose

(* Allowance counts as this module does.                                   *)
LEMMA SameCardinality == ASSUME NEW S PROVE Book!Cardinality(S) = Cardinality(S)
  BY DEF Book!Cardinality, Cardinality, Book!IsFiniteSet, IsFiniteSet

(* Saving a check books one job on the latest allowance.                   *)
LEMMA SavingBooks ==
    ASSUME TypeOK, BookSound, CheckSaves PROVE Book!ANext
<1>1. Latest \in Auths /\ auth[Latest].used \in Nat /\ auth[Latest].used < MaxReverify
  BY SavedRow DEF TypeOK, AuthRecords, Known, BookSound, CheckSound, CheckSaves, Held
<1>2. Cardinality(Booked(Latest)) < MaxReverify
  <2>1. IsFiniteSet(Booked(Latest)) /\ Cardinality(Booked(Latest)) <= auth[Latest].used
    BY <1>1 DEF BookSound, Counted
  <2> QED
    BY <1>1, <2>1, FS_CardinalityType, BoundsAssumption
<1>3. \A a \in Auths : checker.job \notin Booked(a)
  <2> SUFFICES ASSUME NEW a \in Auths, NEW row \in auth[a].dispatched, row.job = checker.job PROVE FALSE
    BY DEF Booked
  <2>1. job[checker.job].auth = a /\ job[checker.job].snap = row.snap
    BY DEF BookSound, RowsAgree
  <2>2. job[checker.job].auth = Latest /\ job[checker.job].snap = checker.snap
        /\ \A other \in auth[Latest].dispatched : other.snap # checker.snap
    BY DEF BookSound, CheckSound, CheckSaves, Held
  <2> QED
    BY <2>1, <2>2
<1>4. \A a \in Auths : auth'[a].status = auth[a].status
  BY SavedRow
<1>5. [a \in Auths |-> Booked(a)'] = [[a \in Auths |-> Booked(a)] EXCEPT ![Latest] = @ \cup {checker.job}]
  BY <1>1, SavedRow
<1>6. checker.job \in Jobs /\ BookState(Latest) = "open" /\ UNCHANGED entered
  BY SavedRow DEF BookState, CheckSaves, history
<1>7. UNCHANGED [a \in Auths |-> BookState(a)]
  BY <1>4 DEF BookState
<1>8. PICK a \in Auths, j \in Jobs : a = Latest /\ j = checker.job
  BY <1>1, <1>6
<1>9. Book!Book(a, j)
  <2>1. [b \in Auths |-> {row.job : row \in auth[b].dispatched}']
          = [[b \in Auths |-> {row.job : row \in auth[b].dispatched}] EXCEPT ![a] = @ \cup {j}]
    BY <1>5, <1>8 DEF Booked
  <2>2. \A b \in Auths : j \notin [h \in Auths |-> {row.job : row \in auth[h].dispatched}][b]
    BY <1>3, <1>8 DEF Booked
  <2>3. Cardinality([h \in Auths |-> {row.job : row \in auth[h].dispatched}][a]) < MaxReverify
    BY <1>2, <1>8 DEF Booked
  <2>4. [h \in Auths |-> BookState(h)][a] = "open"
    BY <1>6, <1>8
  <2> QED
    BY <1>6, <1>7, <2>1, <2>2, <2>3, <2>4, SameCardinality DEF Book!Book
<1> QED
  BY <1>9 DEF Book!ANext

(* A thread that enters the task service runs a booked job.                *)
LEMMA EnteringRuns ==
    ASSUME TypeOK, RunSound, NEW j \in Jobs, EnterTasks(j) PROVE Book!ANext
<1>1. AuthOf(j) \in Auths
  BY DEF AuthOf, TypeOK, JobRecords
<1>2. Row(j) \in auth[AuthOf(j)].dispatched /\ Row(j).job = j /\ j \notin entered
  BY DEF EnterTasks, RunSound, RunnersBooked, OneRunEach, Registered, Row
<1>3. j \in Booked(AuthOf(j))
  BY <1>2 DEF Booked
<1>4. Book!Run(AuthOf(j), j)
  BY <1>1, <1>2, <1>3 DEF Book!Run, Booked, BookState, EnterTasks, OnlyInner
<1> QED
  BY <1>1, <1>4 DEF Book!ANext

(* Every step of the program is a step of the book or none.                *)
LEMMA StepsKeepBook ==
    ASSUME TypeOK, BookSound, RunSound, [Next]_vars PROVE [Book!ANext]_(Book!avars)
<1>1. CASE UNCHANGED <<auth, entered>>
  BY <1>1, StutterBook
<1>2. CASE CheckBlocked
  <2>1. Latest \in Auths /\ UNCHANGED entered
    BY <1>2, LatestKnown DEF CheckBlocked, BookSound, Known, history
  <2>2. "expired" \in AuthStatuses \ {"absent", "active"} /\ "exhausted" \in AuthStatuses \ {"absent", "active"}
    BY DEF AuthStatuses
  <2>3. CASE UNCHANGED auth
    BY <1>1, <2>1, <2>3
  <2>4. ASSUME auth[Latest].status = "active", NEW status \in {"expired", "exhausted"}, Close(Latest, status)
        PROVE  Book!ANext
    BY <2>1, <2>2, <2>4, ClosingStep
  <2> QED
    BY <1>2, <2>3, <2>4 DEF CheckBlocked
<1>3. CASE CheckTask
  <2>1. Latest \in Auths /\ auth[Latest].status = "active" /\ UNCHANGED entered
    BY <1>3, LatestKnown DEF CheckTask, BookSound, CheckSound, Held, Known, history
  <2>2. CASE Close(Latest, "needs_reconfirm")
    BY <2>1, <2>2, ClosingStep DEF AuthStatuses
  <2> QED
    BY <1>1, <1>3, <2>1, <2>2 DEF CheckTask
<1>4. CASE StopMarks
  <2>1. ASSUME auth[stopper.auth].status = "active", Close(stopper.auth, "stopped") PROVE Book!ANext
    BY <1>4, <2>1, ClosingStep DEF StopMarks, TypeOK, AuthStatuses, history
  <2> QED
    BY <1>1, <1>4, <2>1 DEF StopMarks, history
<1> QED
  BY <1>1, <1>2, <1>3, <1>4, AuthoriseOpens, CrashCloses, SavingBooks, EnteringRuns
     DEF Next, Environment, CheckStep, StopStep, RunnerStep, InnerStep, Lapse, StopAsked, EditSource,
         ChangeRequirement, CheckEnter, CancelJob, RunOver, CheckCreates, CheckRefused, StopReturns,
         StopCancels, StopWaits, StartJob, EnterRunner, Identify, Compare, Begin, WatchSees, WatchJoins,
         LastCheck, Record, Return, Abort, InterruptPoint, Experiment, GuardRaises, FinishTasks, GiveUpJob,
         vars, disk, history, OnlyStopper, OnlyRunner, OnlyInner

(* Continuous delegation implements the allowance: whatever is edited,     *)
(* stopped, cancelled or crashed, an authorization books at most its limit *)
(* of jobs, none after it was closed, and a booked job enters the task     *)
(* service at most once.                                                   *)
THEOREM BookIsKept == Spec => KeepsBook
<1>1. IInv /\ [Next]_vars => [Book!ANext]_(Book!avars)
  BY StepsKeepBook DEF IInv
<1> QED
  BY <1>1, InitBook, Invariance, PTL DEF Spec, KeepsBook, Book!ASpec

-----------------------------------------------------------------------------
(* A stop is final.                                                        *)

(* The job may still start an experiment.                                  *)
Active(j) == runner[j] \in {"compare", "begin"} \/ inner[j] \in {"spawned", "inside"}

(* A stop of the authorization has returned, or cancels its jobs.          *)
Cancelling(a) == stopper.at = "cancel" /\ stopper.auth = a /\ a \notin returned
Halted(a) == a \in returned \/ Cancelling(a)

(* A thread without its watchdog was interrupted; a job that may still     *)
(* experiment is running or was interrupted.                               *)
ThreadsWatched ==
    \A j \in Jobs :
        /\ inner[j] \in {"spawned", "inside"} => runner[j] = "watch" \/ Interrupted(j)
        /\ inner[j] = "inside" => j \in entered
        /\ job[j].status = "stopping" => j \in raised
        /\ Active(j) \/ runner[j] = "identify" => job[j].status = "running" \/ Interrupted(j)

(* The active jobs of a halted authorization were interrupted, those       *)
(* excepted that the stop has still to cancel.                             *)
HaltSound ==
    \A a \in Auths : Halted(a) =>
        /\ auth[a].status \notin {"absent", "active"}
        /\ \A j \in Jobs : Active(j) /\ AuthOf(j) = a =>
               Interrupted(j) \/ (Cancelling(a) /\ j \in stopper.left)

(* An abort or a receipt is the last thing of its job.                     *)
LastWord ==
    /\ recorded \subseteq Jobs /\ aborted \subseteq Jobs
    /\ \A j \in recorded : runner[j] \in {"return", "none"} /\ job[j].status \notin {"absent", "queued"}
    /\ \A j \in aborted : runner[j] = "none" /\ job[j].status \notin {"absent", "queued"}
    /\ aborted \cap recorded = {}

StopInv == IInv /\ ThreadsWatched /\ HaltSound /\ LastWord

(* An authorization that is closed is not opened again.                    *)
LEMMA ClosedStays ==
    ASSUME IInv, [Next]_vars, NEW a \in Auths, auth[a].status \notin {"absent", "active"}
    PROVE  auth'[a].status \notin {"absent", "active"}
<1>1. [Book!ANext]_(Book!avars)
  BY StepsKeepBook DEF IInv
<1>2. BookState(a) = "closed"
  BY DEF BookState
<1>3. BookState(a)' = "closed"
  <2> DEFINE st == [b \in Auths |-> BookState(b)]
  <2>1. st[a] = "closed"
    BY <1>2
  <2>2. st'[a] = "closed"
    BY <1>1, <2>1 DEF Book!ANext, Book!avars, Book!Open, Book!Book, Book!Run, Book!Close
  <2> QED
    BY <2>2
<1> QED
  BY <1>3 DEF BookState

(* A job keeps its authorization.                                          *)
LEMMA SameAuthOf ==
    ASSUME IInv, [Next]_vars, NEW j \in Jobs, job[j].status # "absent"
    PROVE  AuthOf(j)' = AuthOf(j)
  BY JobsKeep DEF IInv, JobsKept, AuthOf

(* An active runner has a job.                                             *)
LEMMA ActiveExists ==
    ASSUME IInv, ThreadsWatched, NEW j \in Jobs, Active(j) PROVE job[j].status # "absent"
  BY DEF IInv, RunSound, OneRunEach, ThreadsWatched, Active

(* What a step has to do for a halted authorization to stay quiet.         *)
LEMMA HaltKept ==
    ASSUME StopInv, [Next]_vars, UNCHANGED <<stopper, returned>>,
           raised \subseteq raised', over \subseteq over',
           \A j \in Jobs : Active(j)' /\ ~Active(j) => auth'[AuthOf(j)'].status = "active"
    PROVE  HaltSound'
<1> SUFFICES ASSUME NEW a \in Auths, Halted(a)'
             PROVE  /\ auth'[a].status \notin {"absent", "active"}
                    /\ \A j \in Jobs : Active(j)' /\ AuthOf(j)' = a =>
                           Interrupted(j)' \/ (Cancelling(a)' /\ j \in stopper'.left)
  BY DEF HaltSound
<1>1. Halted(a)
  BY DEF Halted, Cancelling
<1>2. auth[a].status \notin {"absent", "active"} /\ auth'[a].status \notin {"absent", "active"}
  BY <1>1, ClosedStays DEF StopInv, HaltSound
<1>3. ASSUME NEW j \in Jobs, Active(j)', AuthOf(j)' = a
      PROVE  Interrupted(j)' \/ (Cancelling(a)' /\ j \in stopper'.left)
  <2>1. Active(j)
    BY <1>2, <1>3
  <2>2. AuthOf(j) = a
    BY <1>3, <2>1, SameAuthOf, ActiveExists DEF StopInv
  <2> QED
    BY <1>1, <2>1, <2>2 DEF StopInv, HaltSound, Interrupted, Cancelling
<1> QED
  BY <1>2, <1>3

Quiet == ThreadsWatched /\ HaltSound /\ LastWord

(* Steps that move no thread and ask for no stop.                          *)
LEMMA ElsewhereQuiet ==
    ASSUME StopInv, [Next]_vars,
           UNCHANGED <<runner, inner, raised, over, entered, stopper, returned, recorded, aborted>>,
           \A j \in Jobs :
              /\ job[j].status \in {"absent", "stopping"} \/ job'[j].status = job[j].status
              /\ job'[j].status = "stopping" => job[j].status = "stopping"
    PROVE  Quiet'
<1>1. ThreadsWatched'
  <2> SUFFICES ASSUME NEW j \in Jobs
               PROVE  /\ inner[j] \in {"spawned", "inside"} => runner[j] = "watch" \/ Interrupted(j)
                      /\ inner[j] = "inside" => j \in entered
                      /\ job'[j].status = "stopping" => j \in raised
                      /\ Active(j) \/ runner[j] = "identify" => job'[j].status = "running" \/ Interrupted(j)
    BY DEF ThreadsWatched, Active, Interrupted
  <2>1. Active(j) \/ runner[j] = "identify" => job[j].status # "absent"
    BY ActiveExists DEF StopInv, IInv, RunSound, OneRunEach
  <2>2. Active(j) \/ runner[j] = "identify" => job[j].status = "running" \/ Interrupted(j)
    BY DEF StopInv, ThreadsWatched
  <2>3. job[j].status = "stopping" => Interrupted(j)
    BY DEF StopInv, ThreadsWatched, Interrupted
  <2> QED
    BY <2>1, <2>2, <2>3 DEF StopInv, ThreadsWatched
<1>2. LastWord'
  BY JobsKeep DEF StopInv, IInv, JobsKept, LastWord
<1>3. HaltSound'
  BY HaltKept DEF Active
<1> QED
  BY <1>1, <1>2, <1>3 DEF Quiet

(* A cancellation leaves no runner of a stopped authorization unhalted.    *)
LEMMA CancelsQuiet ==
    ASSUME StopInv, [Next]_vars, NEW j \in Jobs, Cancels(j),
           UNCHANGED <<runner, inner, over, entered, stopper, returned, recorded, aborted>>
    PROVE  Quiet'
<1>1. /\ \A i \in Jobs \ {j} : job'[i] = job[i]
      /\ job'[j].status = job[j].status \/ (job[j].status = "queued" /\ job'[j].status = "cancelled")
         \/ (job[j].status = "running" /\ job'[j].status = "stopping" /\ j \in raised')
  <2>1. job[j] \in JobRecords /\ "cancelled" \in JobStatuses /\ 0 \in 0..1
    BY DEF StopInv, IInv, TypeOK, JobStatuses, Ended
  <2>2. job'[j] = Cancelled(j) /\ \A i \in Jobs \ {j} : job'[i] = job[i]
    BY DEF Cancels, StopInv, IInv, TypeOK
  <2>3. Settle(job[j], "cancelled", 0).status = "cancelled"
    BY <2>1, SettleType
  <2>4. CASE job[j].status = "queued"
    BY <2>2, <2>3, <2>4 DEF Cancelled
  <2>5. CASE job[j].status = "running"
    BY <2>1, <2>2, <2>5 DEF Cancelled, Cancels, JobRecords
  <2>6. CASE job[j].status \notin {"queued", "running"}
    BY <2>2, <2>6 DEF Cancelled
  <2> QED
    BY <2>2, <2>4, <2>5, <2>6
<1>2. raised \subseteq raised'
  BY DEF Cancels
<1>3. ThreadsWatched'
  BY <1>1, <1>2 DEF StopInv, IInv, RunSound, OneRunEach, ThreadsWatched, Active, Interrupted
<1>4. LastWord'
  BY JobsKeep DEF StopInv, IInv, JobsKept, LastWord
<1>5. HaltSound'
  BY <1>2, HaltKept DEF Active
<1> QED
  BY <1>3, <1>4, <1>5 DEF Quiet

(* The steps of a stop: the mark, each cancellation, the answer.           *)
LEMMA StopsQuiet == ASSUME StopInv, StopStep PROVE Quiet'
<1> [Next]_vars
  BY DEF Next
<1>1. CASE StopMarks /\ auth[stopper.auth].status = "active"
  <2>1. UNCHANGED <<job, runner, inner, raised, over, entered, returned, recorded, aborted>>
    BY <1>1 DEF StopMarks, threads, history
  <2>2. ThreadsWatched' /\ LastWord'
    BY <2>1 DEF StopInv, ThreadsWatched, LastWord, Active, Interrupted
  <2>3. /\ stopper'.at = "cancel" /\ stopper'.auth = stopper.auth
        /\ stopper'.left = {j \in Account(stopper.auth) : job[j].status \in {"queued", "running"}}
    BY <1>1 DEF StopMarks, StopInv, IInv, TypeOK
  <2>4. stopper.auth \in Auths /\ auth'[stopper.auth].status = "stopped" /\ stopper.auth \notin returned
    BY <1>1 DEF StopMarks, Close, StopInv, IInv, TypeOK, AuthRecords, HaltSound, Halted
  <2>5. HaltSound'
    <3> SUFFICES ASSUME NEW a \in Auths, Halted(a)'
                 PROVE  /\ auth'[a].status \notin {"absent", "active"}
                        /\ \A j \in Jobs : Active(j)' /\ AuthOf(j)' = a =>
                               Interrupted(j)' \/ (Cancelling(a)' /\ j \in stopper'.left)
      BY DEF HaltSound
    <3>1. CASE a = stopper.auth
      <4>1. \A j \in Jobs : Active(j) /\ AuthOf(j) = a => Interrupted(j) \/ j \in stopper'.left
        BY <2>3, <3>1, ActiveExists DEF StopInv, ThreadsWatched, Account
      <4> QED
        BY <2>1, <2>3, <2>4, <3>1, <4>1 DEF Active, Interrupted, Cancelling, AuthOf
    <3>2. CASE a # stopper.auth
      <4>1. a \in returned
        BY <2>1, <2>3, <3>2 DEF Halted, Cancelling
      <4>2. auth'[a].status \notin {"absent", "active"}
        BY <4>1, ClosedStays DEF StopInv, HaltSound, Halted
      <4>3. \A j \in Jobs : Active(j) /\ AuthOf(j) = a => Interrupted(j)
        BY <4>1, <1>1, <3>2 DEF StopInv, HaltSound, Halted, Cancelling, StopMarks
      <4> QED
        BY <2>1, <4>2, <4>3 DEF Active, Interrupted, AuthOf
    <3> QED
      BY <3>1, <3>2
  <2> QED
    BY <2>2, <2>5 DEF Quiet
<1>2. ASSUME UNCHANGED <<auth, job, runner, inner, raised, over, entered, recorded, aborted>>,
             \A a \in Auths : Halted(a)' => Halted(a),
             \A a \in Auths, j \in Jobs : Cancelling(a) /\ j \in stopper.left /\ Active(j) /\ AuthOf(j) = a =>
                 Interrupted(j) \/ (Cancelling(a)' /\ j \in stopper'.left)
      PROVE  Quiet'
  <2>1. ThreadsWatched' /\ LastWord'
    BY <1>2 DEF StopInv, ThreadsWatched, LastWord, Active, Interrupted
  <2>2. HaltSound'
    BY <1>2 DEF StopInv, HaltSound, Active, Interrupted, AuthOf
  <2> QED
    BY <2>1, <2>2 DEF Quiet
<1>3. CASE StopMarks /\ auth[stopper.auth].status # "active"
  BY <1>2, <1>3 DEF StopMarks, Halted, Cancelling, IdleStopper, threads, history
<1>4. CASE StopReturns
  <2>1. stopper'.at = "idle" /\ returned' = returned \cup {stopper.auth}
    BY <1>4 DEF StopReturns, IdleStopper
  <2> QED
    BY <1>2, <1>4, <2>1 DEF StopReturns, Halted, Cancelling, disk, threads
<1>5. ASSUME NEW j \in Jobs, StopCancels(j) PROVE Quiet'
  BY <1>5, CancelsQuiet DEF StopCancels, history
<1>6. ASSUME NEW j \in Jobs, StopWaits(j) PROVE Quiet'
  <2>1. stopper'.at = stopper.at /\ stopper'.auth = stopper.auth /\ stopper'.left = stopper.left \ {j}
    BY <1>6 DEF StopWaits, StopInv, IInv, TypeOK
  <2>2. Active(j) => Interrupted(j)
    BY <1>6 DEF StopWaits, StopInv, ThreadsWatched, Ended
  <2> QED
    BY <1>2, <1>6, <2>1, <2>2 DEF StopWaits, Halted, Cancelling, OnlyStopper, disk, threads, history
<1> QED
  BY <1>1, <1>3, <1>4, <1>5, <1>6 DEF StopStep

(* How EndJob leaves the records.                                          *)
LEMMA EndJobEnds ==
    ASSUME TypeOK, NEW j \in Jobs, NEW wanted \in Ended, EndJob(j, wanted)
    PROVE  /\ \A i \in Jobs \ {j} : job'[i] = job[i] /\ runner'[i] = runner[i]
           /\ job'[j].status # "stopping" /\ runner'[j] = "none"
<1>1. PICK usage \in 0..1 : job' = [job EXCEPT ![j] = Finished(j, wanted, usage)]
  BY DEF EndJob
<1>2. job[j] \in JobRecords /\ wanted \in JobStatuses /\ "cancelled" \in JobStatuses
  BY DEF TypeOK, JobStatuses, Ended
<1>3. Finished(j, wanted, usage).status # "stopping"
  <2>1. \A status \in Ended : Settle(job[j], status, usage).status # "stopping"
    BY <1>2, SettleType DEF Ended, JobStatuses
  <2>2. CASE job[j].status = "running"
    BY <2>1, <2>2 DEF Finished
  <2>3. CASE job[j].status = "stopping"
    BY <2>1, <2>3 DEF Finished, Ended
  <2>4. CASE job[j].status \notin {"running", "stopping"}
    BY <2>4 DEF Finished
  <2> QED
    BY <2>2, <2>3, <2>4
<1> QED
  BY <1>1, <1>3 DEF EndJob, TypeOK

(* A job whose runner ends keeps the stop quiet.                           *)
LEMMA EndedQuiet ==
    ASSUME StopInv, [Next]_vars, NEW j \in Jobs, NEW wanted \in Ended, EndJob(j, wanted),
           UNCHANGED <<inner, raised, over, entered, stopper, returned, recorded>>,
           runner[j] \notin {"none", "read"},
           runner[j] = "watch" => inner[j] \notin {"spawned", "inside"},
           aborted' = aborted \/ (aborted' = aborted \cup {j} /\ runner[j] # "return")
    PROVE  Quiet'
<1>1. /\ \A i \in Jobs \ {j} : job'[i] = job[i] /\ runner'[i] = runner[i]
      /\ job'[j].status # "stopping" /\ runner'[j] = "none"
  BY EndJobEnds DEF StopInv, IInv
<1>2. ThreadsWatched'
  BY <1>1 DEF StopInv, ThreadsWatched, Active, Interrupted
<1>3. LastWord'
  <2>1. job'[j].status \notin {"absent", "queued"} /\ job[j].status \notin {"absent", "queued"}
    BY JobsKeep DEF StopInv, IInv, RunSound, OneRunEach, JobsKept
  <2> QED
    BY <1>1, <2>1 DEF StopInv, LastWord
<1>4. HaltSound'
  BY <1>1, HaltKept DEF Active
<1> QED
  BY <1>2, <1>3, <1>4 DEF Quiet

(* A runner that moves on after asking keeps the stop quiet.               *)
LEMMA MovedQuiet ==
    ASSUME StopInv, [Next]_vars, NEW j \in Jobs, NEW at \in {"compare", "begin"} \cup Late, Goto(j, at),
           UNCHANGED <<job, raised, over, entered, stopper, returned, aborted>>,
           runner[j] \notin {"none", "read", "return"},
           at = "compare" => runner[j] = "identify" /\ auth'[AuthOf(j)].status = "active",
           at = "begin" => runner[j] = "compare",
           inner' = inner \/ (inner' = [inner EXCEPT ![j] = "spawned"] /\ runner[j] = "begin" /\ at = "watch"),
           runner[j] = "watch" /\ at # "watch" => Interrupted(j) \/ inner[j] \notin {"spawned", "inside"},
           recorded' = recorded \/ (recorded' = recorded \cup {j} /\ at = "return")
    PROVE  Quiet'
<1>1. runner'[j] = at /\ \A i \in Jobs \ {j} : runner'[i] = runner[i] /\ inner'[i] = inner[i]
  BY DEF Goto, StopInv, IInv, TypeOK
<1>2. inner'[j] = inner[j] \/ (inner'[j] = "spawned" /\ runner[j] = "begin" /\ at = "watch")
  BY DEF StopInv, IInv, TypeOK
<1>3. ThreadsWatched'
  BY <1>1, <1>2 DEF StopInv, ThreadsWatched, Active, Interrupted, Late
<1>4. LastWord'
  <2>1. job[j].status \notin {"absent", "queued"}
    BY DEF StopInv, IInv, RunSound, OneRunEach
  <2> QED
    BY <1>1, <2>1 DEF StopInv, LastWord, Late
<1>5. HaltSound'
  <2>1. AuthOf(j)' = AuthOf(j)
    BY DEF AuthOf
  <2> QED
    BY <1>1, <1>2, <2>1, HaltKept DEF Active, Late
<1> QED
  BY <1>3, <1>4, <1>5 DEF Quiet

(* The steps of a job's runner keep the stop quiet.                        *)
LEMMA RunnersQuiet ==
    ASSUME StopInv, NEW j \in Jobs, RunnerStep(j) PROVE Quiet'
<1> [Next]_vars
  BY DEF Next
<1>1. CASE StartJob(j)
  <2>1. runner'[j] = "read" /\ \A i \in Jobs \ {j} : runner'[i] = runner[i]
    BY <1>1 DEF StartJob, StopInv, IInv, TypeOK
  <2>2. UNCHANGED <<auth, job, raised, over, inner, entered, stopper, returned, recorded, aborted>>
    BY <1>1 DEF StartJob, disk, history
  <2>3. ThreadsWatched' /\ LastWord'
    BY <1>1, <2>1, <2>2 DEF StartJob, StopInv, ThreadsWatched, LastWord, Active, Interrupted
  <2>4. HaltSound'
    BY <2>1, <2>2, HaltKept DEF Active
  <2> QED
    BY <2>3, <2>4 DEF Quiet
<1>2. CASE EnterRunner(j)
  <2>1. /\ runner'[j] = "identify" /\ \A i \in Jobs \ {j} : runner'[i] = runner[i] /\ job'[i] = job[i]
        /\ job'[j].status = "running"
    BY <1>2 DEF EnterRunner, StopInv, IInv, TypeOK, JobRecords
  <2>2. UNCHANGED <<auth, raised, over, inner, entered, stopper, returned, recorded, aborted>>
    BY <1>2 DEF EnterRunner, history
  <2>3. ThreadsWatched' /\ LastWord'
    BY <1>2, <2>1, <2>2 DEF EnterRunner, StopInv, ThreadsWatched, LastWord, Active, Interrupted
  <2>4. HaltSound'
    BY <2>1, <2>2, HaltKept DEF Active
  <2> QED
    BY <2>3, <2>4 DEF Quiet
<1>3. CASE Identify(j)
  <2>1. ASSUME NEW wanted \in Ended, EndJob(j, wanted) PROVE Quiet'
    BY <1>3, <2>1, EndedQuiet DEF Identify, history
  <2>2. CASE Live(AuthOf(j)) /\ Goto(j, "compare") /\ UNCHANGED <<auth, job>>
    BY <1>3, <2>2, MovedQuiet DEF Identify, Live, history, Late
  <2> QED
    BY <1>3, <2>1, <2>2 DEF Identify, Ended
<1>4. CASE Compare(j)
  <2>1. ASSUME NEW wanted \in Ended, EndJob(j, wanted), aborted' = aborted \cup {j} PROVE Quiet'
    BY <1>4, <2>1, EndedQuiet DEF Compare
  <2>2. CASE Goto(j, "begin") /\ UNCHANGED <<job, aborted>>
    BY <1>4, <2>2, MovedQuiet DEF Compare, Late
  <2> QED
    BY <1>4, <2>1, <2>2 DEF Compare, Ended
<1>5. CASE Begin(j)
  <2>1. ASSUME NEW wanted \in Ended, EndJob(j, wanted), UNCHANGED inner PROVE Quiet'
    BY <1>5, <2>1, EndedQuiet DEF Begin, history
  <2>2. CASE Goto(j, "abort") /\ UNCHANGED <<job, inner>>
    BY <1>5, <2>2, MovedQuiet DEF Begin, Late, history
  <2>3. CASE Goto(j, "watch") /\ inner' = [inner EXCEPT ![j] = "spawned"] /\ UNCHANGED job
    BY <1>5, <2>3, MovedQuiet DEF Begin, Late, history
  <2> QED
    BY <1>5, <2>1, <2>2, <2>3 DEF Begin, Ended
<1>6. CASE WatchSees(j)
  BY <1>6, MovedQuiet DEF WatchSees, OnlyRunner, disk, history, Late
<1>7. CASE WatchJoins(j)
  <2>1. ASSUME NEW wanted \in Ended, EndJob(j, wanted) PROVE Quiet'
    BY <1>7, <2>1, EndedQuiet DEF WatchJoins, history
  <2>2. ASSUME NEW at \in {"receipt", "abort"}, Goto(j, at), UNCHANGED job PROVE Quiet'
    BY <1>7, <2>2, MovedQuiet DEF WatchJoins, Late, history
  <2> QED
    BY <1>7, <2>1, <2>2 DEF WatchJoins, Ended
<1>8. CASE LastCheck(j)
  BY <1>8, MovedQuiet DEF LastCheck, OnlyRunner, disk, history, Late
<1>9. CASE Record(j)
  BY <1>9, MovedQuiet DEF Record, OnlyRunner, disk, Late
<1>10. CASE Return(j)
  BY <1>10, EndedQuiet DEF Return, history, Ended
<1>11. CASE Abort(j)
  BY <1>11, EndedQuiet DEF Abort, Ended
<1> QED
  BY <1>1, <1>2, <1>3, <1>4, <1>5, <1>6, <1>7, <1>8, <1>9, <1>10, <1>11 DEF RunnerStep

(* The steps of a re-verifying thread keep the stop quiet.                 *)
LEMMA InnersQuiet ==
    ASSUME StopInv, NEW j \in Jobs, InnerStep(j) PROVE Quiet'
<1> [Next]_vars
  BY DEF Next
<1>1. UNCHANGED <<auth, job, runner, raised, over, stopper, returned, recorded, aborted>>
  BY DEF InnerStep, EnterTasks, InterruptPoint, Experiment, GuardRaises, FinishTasks, OnlyInner, history
<1>2. /\ inner[j] \in {"spawned", "inside"} /\ entered \subseteq entered'
      /\ \/ inner' = [inner EXCEPT ![j] = "inside"] /\ j \in entered'
         \/ inner' = inner
         \/ \E at \in {"finished", "stopped", "error"} : inner' = [inner EXCEPT ![j] = at]
  BY DEF InnerStep, EnterTasks, InterruptPoint, Experiment, GuardRaises, FinishTasks, LeaveTasks, history
<1>3. \A i \in Jobs : inner'[i] \in {"spawned", "inside"} => inner[i] \in {"spawned", "inside"}
  BY <1>2 DEF StopInv, IInv, TypeOK
<1>4. \A i \in Jobs : inner'[i] = "inside" => i \in entered'
  BY <1>2 DEF StopInv, IInv, TypeOK, ThreadsWatched
<1>5. ThreadsWatched' /\ LastWord'
  BY <1>1, <1>3, <1>4 DEF StopInv, ThreadsWatched, LastWord, Active, Interrupted
<1>6. HaltSound'
  BY <1>1, <1>3, HaltKept DEF Active
<1> QED
  BY <1>5, <1>6 DEF Quiet

(* A restart keeps the stop quiet: no thread is left.                      *)
LEMMA CrashQuiet == ASSUME StopInv, Crash PROVE Quiet'
<1> [Next]_vars
  BY DEF Next, Environment
<1>1. \A j \in Jobs : runner'[j] = "none" /\ inner'[j] = "none" /\ job'[j].status # "stopping"
  BY DEF Crash, StopInv, IInv, TypeOK, JobRecords
<1>2. UNCHANGED <<entered, returned, recorded, aborted>> /\ stopper'.at = "idle"
  BY DEF Crash, history, IdleStopper
<1>3. ThreadsWatched'
  BY <1>1 DEF ThreadsWatched, Active
<1>4. LastWord'
  BY <1>1, <1>2, JobsKeep DEF StopInv, IInv, JobsKept, LastWord
<1>5. HaltSound'
  <2>1. \A a \in Auths : Halted(a)' => auth'[a].status \notin {"absent", "active"}
    BY <1>2, ClosedStays DEF StopInv, HaltSound, Halted, Cancelling
  <2> QED
    BY <1>1, <2>1 DEF HaltSound, Active
<1> QED
  BY <1>3, <1>4, <1>5 DEF Quiet

(* Every step keeps the stop quiet.                                        *)
LEMMA QuietPreserved == ASSUME StopInv, [Next]_vars PROVE Quiet'
<1>1. CASE /\ UNCHANGED <<runner, inner, raised, over, entered, stopper, returned, recorded, aborted>>
           /\ UNCHANGED job
  BY <1>1, ElsewhereQuiet
<1>2. ASSUME NEW j \in Jobs, CheckCreates(j) \/ CheckRefused(j) PROVE Quiet'
  <2>1. \A i \in Jobs : job[i].status = "absent" \/ job'[i] = job[i]
    BY <1>2 DEF CheckCreates, CheckRefused, StopInv, IInv, TypeOK
  <2>2. job'[j].status # "stopping" \/ job' = job
    <3>1. \/ job' = job
          \/ job'[j] = [NoJob EXCEPT !.status = "queued", !.auth = Latest, !.snap = checker.snap]
          \/ job'[j] = [NoJob EXCEPT !.status = "failed", !.auth = Latest, !.snap = checker.snap, !.settled = TRUE]
      BY <1>2 DEF CheckCreates, CheckRefused, StopInv, IInv, TypeOK
    <3> QED
      BY <3>1 DEF NoJob
  <2>3. \A i \in Jobs \ {j} : job'[i] = job[i]
    BY <1>2 DEF CheckCreates, CheckRefused, StopInv, IInv, TypeOK
  <2> QED
    BY <1>2, <2>1, <2>2, <2>3, ElsewhereQuiet DEF CheckCreates, CheckRefused, threads, history
<1>3. ASSUME NEW j \in Jobs, GiveUpJob(j) PROVE Quiet'
  <2>1. /\ \A i \in Jobs \ {j} : job'[i] = job[i]
        /\ job[j].status = "stopping" /\ job'[j].status = "needs_recovery"
    <3>1. PICK usage \in 0..1 : job' = [job EXCEPT ![j] = Settle(job[j], "needs_recovery", usage)]
      BY <1>3 DEF GiveUpJob
    <3>2. job[j] \in JobRecords /\ "needs_recovery" \in JobStatuses
      BY DEF StopInv, IInv, TypeOK, JobStatuses, Ended
    <3> QED
      BY <1>3, <3>1, <3>2, SettleType DEF GiveUpJob, StopInv, IInv, TypeOK
  <2> QED
    BY <1>3, <2>1, ElsewhereQuiet DEF GiveUpJob, threads, history
<1>4. ASSUME NEW j \in Jobs, CancelJob(j) PROVE Quiet'
  BY <1>4, CancelsQuiet DEF CancelJob, history
<1>5. ASSUME NEW a \in Auths, StopAsked(a) PROVE Quiet'
  <2>1. stopper.at # "cancel" /\ stopper'.at # "cancel"
    BY <1>5 DEF StopAsked, IdleStopper
  <2>2. UNCHANGED <<auth, job, runner, inner, raised, over, entered, returned, recorded, aborted>>
    BY <1>5 DEF StopAsked, OnlyStopper, disk, threads, history
  <2>3. ThreadsWatched' /\ LastWord'
    BY <2>2 DEF StopInv, ThreadsWatched, LastWord, Active, Interrupted
  <2>4. HaltSound'
    BY <2>1, <2>2 DEF StopInv, HaltSound, Halted, Cancelling, Active, Interrupted, AuthOf
  <2> QED
    BY <2>3, <2>4 DEF Quiet
<1>6. ASSUME NEW j \in Jobs, RunOver(j) PROVE Quiet'
  <2>1. UNCHANGED <<auth, job, runner, inner, raised, stopper, entered, returned, recorded, aborted>>
        /\ over \subseteq over'
    BY <1>6 DEF RunOver, disk, history
  <2>2. ThreadsWatched' /\ LastWord'
    BY <2>1 DEF StopInv, ThreadsWatched, LastWord, Active, Interrupted
  <2>3. HaltSound'
    BY <2>1, HaltKept DEF Active
  <2> QED
    BY <2>2, <2>3 DEF Quiet
<1> QED
  BY <1>1, <1>2, <1>3, <1>4, <1>5, <1>6, StopsQuiet, RunnersQuiet, InnersQuiet, CrashQuiet
     DEF Next, Environment, CheckStep, Authorise, Lapse, EditSource, ChangeRequirement, CheckBlocked,
         CheckEnter, CheckTask, CheckSaves, vars, threads, history, disk

(* The strengthening holds in every state.                                 *)
THEOREM StopInvariance == Spec => []StopInv
<1>1. Init => StopInv
  BY InitIInv DEF Init, StopInv, ThreadsWatched, HaltSound, LastWord, Active, Halted, Cancelling,
                  IdleStopper, NoJob
<1>2. StopInv /\ [Next]_vars => StopInv'
  BY QuietPreserved, TypePreserved, BookPreserved, RunPreserved DEF StopInv, IInv, Quiet
<1> QED
  BY <1>1, <1>2, PTL DEF Spec

(* A stop is final: once it has returned no experiment starts under its    *)
(* authorization, not even in a thread its watchdog abandoned, and an      *)
(* interrupted job leaves an abort or a receipt, never both.               *)
THEOREM StopIsKept == Spec => StopHolds
<1>1. StopInv /\ [Next]_vars => [\A j \in Jobs, s \in Snapshots :
          <<j, s>> \in ran' \ ran => AuthOf(j) \notin returned]_vars
  <2> SUFFICES ASSUME StopInv, [Next]_vars, NEW j \in Jobs, NEW s \in Snapshots, <<j, s>> \in ran' \ ran
               PROVE  AuthOf(j) \notin returned
    OBVIOUS
  <2>1. PICK i \in Jobs : Experiment(i)
    BY DEF Next, Environment, CheckStep, StopStep, RunnerStep, InnerStep, Authorise, Lapse, StopAsked,
           EditSource, ChangeRequirement, CheckBlocked, CheckEnter, CancelJob, RunOver, Crash, CheckTask,
           CheckSaves, CheckCreates, CheckRefused, StopMarks, StopReturns, StopCancels, StopWaits,
           StartJob, EnterRunner, Identify, Compare, Begin, WatchSees, WatchJoins, LastCheck, Record,
           Return, Abort, EnterTasks, InterruptPoint, GuardRaises, FinishTasks, GiveUpJob, vars, history,
           OnlyStopper, OnlyRunner, OnlyInner
  <2>2. i = j /\ Active(j) /\ ~Interrupted(j)
    BY <2>1 DEF Experiment, Active
  <2>3. AuthOf(j) \in Auths
    BY DEF AuthOf, StopInv, IInv, TypeOK, JobRecords
  <2> QED
    BY <2>2, <2>3 DEF StopInv, HaltSound, Halted, Cancelling
<1>2. StopInv => AbortSuppressesReceipt
  BY DEF StopInv, LastWord, AbortSuppressesReceipt
<1> QED
  BY <1>1, <1>2, StopInvariance, PTL DEF Spec, StopHolds, StopIsFinal

=============================================================================
