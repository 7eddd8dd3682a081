# Verification of modou-agent

TLA+ models of the server of modou-agent (`src/modou`), the TLC
configurations that check them on small instances, and theorems about them
whose proofs TLAPS checks for every value of the constants. Line numbers are
those of the sources beside this directory; `PROJECT.json` maps every
definition to the lines it models, and lists the hazards of this code with the
properties that would show them going wrong.

Contents: [the system](#the-system), [the modules](#the-modules),
[how each module reads its code](#how-each-module-reads-its-code),
[what the runs check](#what-the-runs-check), [fairness](#fairness),
[where comments and code part](#where-comments-and-code-part),
[what is proved](#what-is-proved), [limits](#what-is-not-modelled-and-why),
[the plan](#plan).

## The system

modou-agent reviews a Python repository by experiment: it mutates the code at
chosen anchors, runs the tests, and reports which behaviours the tests pin
down. A FastAPI server owns the reviews, the long jobs and the tasks built on
them. Almost everything is a file: a record is a JSON document replaced
atomically, and a restart reconstructs the server from those documents.

| Component | State it keeps | Operations | What is hard | What makes it correct |
|---|---|---|---|---|
| Job service (`server/jobs.py`) | `job.json` per job, the shared budget ledger, `result.json`; in memory the queue, active locks, registered runners, worker threads, cancel events | create, register_runner, dispatch, run, finalize, cancel, restart scan | a dispatcher, one worker thread per job, request threads that cancel, crashes between two writes | serial writes per repository, no blind replay, a conserved budget, one job per dedupe key, a cancellation never turned into success, every stop resolved |
| Subprocess of a job (`jobs.py`, `run_subprocess_job`) | the process record, the cancel event, the process group | start, poll, terminate, cancel by record, recover | worker and canceller kill the same group; the record is written after the start and read after a crash; members of the group that do not obey | a command runs only as long as its job |
| Executor (`executor.py`) | process groups, one record per leader | run, time-out, termination, reaping, recovery of a record | process numbers are given again; a server dies between any two steps | the recovery kills only what the dead server started |
| Repository lease (`agent/lease.py`) | one lease file and a flock per repository | acquire, release, inspect, reclaim, cleanup | several servers, expiry against slow owners, liveness checks that may fail, unlocked inspection before removal | a live owner never loses the lease to another one, a stale one is not removed twice |
| Review manager (`server/control.py`) | `_runtimes`, `_live_id`, per review: plan, worker thread, cancel event, pending decision, action receipts | create, approve, revise, execute, cancel, decide, cleanup, startup recovery | worker, event loop and task rounds act on one review without a lock; crashes in the middle of a tool | the plan that runs is the approved one, for its source; the run ends and gives back what it holds; an interrupted review is aborted only if nothing is uncertain |
| Review record and journal (`agent/review.py`, `agent/events.py`) | `review_state.json`, hash-chained event files | transition, append, load | check and assignment are not atomic; journal and state are two files | a terminal review is silent; the journal never lags behind a terminal state |
| TaskService (`server/tasks.py`) | tasks, criteria, rounds, adoption plans | prepare, adopt, recover, follow-up review, experiments, rounds | files of a patch are written one by one while the user edits; rounds carry criteria to a new source | a success has evidence, an interrupted adoption is recoverable, what is adopted is what was planned |
| Auto adoption (`server/auto_adoption.py`) | grants, attempts, the journal's count of writes | reserve, settle, recover | a step fails or the server dies between reservation and write | limits of task, window and time hold |
| Delegation (`server/delegation.py`, `standing_authorization.py`) | authorisations with uses and rows | authorise, check, dispatch, stop | stop against an in-flight check, a crash between dispatch and save, two locks | uses are never under-counted, a stop is final and is answered |
| Annotations and re-verification (`control.py`, `server/reverification.py`) | comments, requests, one hash chain | comment, challenge, approve, reject, replay, settle | two records of one change; replays that disagree | a judgement rests on all reruns and is never promoted |
| Edit sessions and delivery (`server/edit_sessions.py`, `agent/repair.py`, `agent/delivery_ceremony.py`) | session record, private worktree, artifacts, approval | open, verify, deliver, abandon, harvest, approve, export | sessions of dead processes; one set of artifact files for several deliveries | a terminal session never changes, an export carries what was approved |
| Test proposals (`agent/test_proposal.py`, `agent/test_visa.py`) | proposals, visas, worktrees | propose, run, grade, record | a model that changes what it cites between rounds; flaky runs | a visa is earned on deletions nobody showed the model |
| Session, trials, workspaces (`agent/session.py`, `trial.py`, `workspace.py`, `engines/`) | a disposable worktree | baseline, drift, deletion, restore | an interrupted mutation | every trial starts clean |
| Evidence ledger (`ledger/`) | append-only records of trials | record, derive, validate | conclusions are made twice, on two paths | both paths agree before anything is published |
| Pure comparisons (`ddmin.py`, `candidate_intake.py`, `source_weakening.py`, `target_mapping.py`) | none | minimise, compare suites, map lines | boundary cases | 1-minimality, tests not weakened, lines not lost |
| Release, adapters, web front end | files and presentation | sequential pipelines | I/O | not modelled |

How they interact: HTTP routes (`server/app.py`) call the manager directly on
the event loop (the review routes are `async def` without an await inside the
call, so they are serialised) or the task, job and delegation services on a
thread pool. A task round calls `manager.create_v2` and `manager.approve` from
its pool thread (`tasks.py:1284`). Delegations and tasks create jobs; a job's
runner calls back into the service that registered it. The manager and the
tasks take the repository lease around everything that touches a repository.
Reviews, jobs and tasks share no lock; each has its own files.

## The modules

| Module | Models | Run |
|---|---|---|
| `JobService` | the job service of `jobs.py` | `jobs`, `job_live` |
| `JobProcess` | the subprocess of one job: worker, canceller, restart | `test_proposal`, `job_group` |
| `Executor` | `executor.py` against a kernel that reuses process numbers | `jobs` |
| `Commands` | `Executor` under names that the job modules leave free | `jobs` |
| `RepositoryLease` | `lease.py` and its users | `server` |
| `PlanApproval` | from a request to a running worker, `control.py` | `server` |
| `AutoAdoption` | `auto_adoption.py`, `_auto_confirm`, the budget of writes | `server` |
| `ReviewControl` | the run of one approved review, its store and journal | `live` |
| `ReviewLife` | abstract: what a review promises to whoever reads its record | refined by `ReviewControl` |
| `TaskRounds` | one evidence task, `tasks.py` | `task_rounds`, `task_stale` |
| `Allowance` | abstract: what a standing permission promises | refined by `Delegation` |
| `Delegation` | `delegation.py` with the jobs it dispatches | `delegation`, `live` |
| `Annotations` | comments and re-verifications of a finished review | `annotations` |
| `Delivery` | edit sessions, delivery, approval, export | `delivery` |
| `TestProposal` | `propose_test` and the visa | `test_proposal` |
| `Proposals` | `TestProposal` under names that other modules leave free | `test_proposal` |
| `EvidenceSession` | one analysis session, its trials, its ledger | `evidence` |
| `DeltaDebug` | `ddmin.py` as the session runs it | `evidence` |
| `RuleProtection` | the comparison that protects the tests | `evidence` |
| `TargetMapping` | where a line went | `evidence` |
| `Targets` | `TargetMapping` under names that other modules leave free | `evidence` |
| `JobServiceProofs`, `ReviewControlProofs`, `TaskRoundsProofs`, `DelegationProofs`, `DeliveryProofs` | theorems about the module they extend | |
| `JobProcessProofs` | theorems about `JobProcess` and `Executor` | |
| `JudgementProofs` | theorems about `RuleProtection`, `Annotations`, `TestProposal`, `DeltaDebug`, `EvidenceSession` and `TargetMapping` | |
| `ServerProofs` | theorems about `RepositoryLease`, `AutoAdoption` and `PlanApproval` | |
| `MCJobService`, `MCTaskRounds`, `MCDelegation`, `MCAnnotations`, `MCDelivery` | values of constants for TLC | |
| `MCJobs`, `MCLive`, `MCServer`, `MCEvidence`, `MCTestProposal` | several parts in one run | |

`MCJobs`, `MCLive`, `MCServer`, `MCEvidence` and `MCTestProposal` put modules side by side that share no
state. A variable `part`, chosen once, says which of them moves; the others
rest in their initial state. The states of such a run are those of its parts,
one after the other, not their product, and each property speaks of one part. In
`MCLive`, which states fairness, no step a fairness condition is about is enabled
in the initial state of the part that rests, so the condition holds there.

How the modules compose: `Delegation` implements `Allowance` and `ReviewControl`
implements `ReviewLife`, each under a refinement mapping. Modules of one
component meet at a narrow interface that each states from its side: `Delegation` takes a job as what `JobService` lets
happen to one (cancelled, given up, interrupted, overwritten by a worker that
read it earlier); `TaskRounds`, `PlanApproval` and `TestProposal` take the
lease as free or taken by somebody else, which is what `RepositoryLease` shows of
it; `TaskRounds` takes the follow-up review as created, refused, running or
ended, and the adoption by itself as one reservation, which is what
`AutoAdoption` details.

In each module the definitions whose comment begins with "Error:" are plausible
mistakes in the definition that follows them. They are not part of the
specification; replacing the right definition by the wrong one violates the
property `PROJECT.json` pairs them with, which shows that the property can see
such a mistake.

## How each module reads its code

A section the code runs under a lock is one action; what it does between two
such sections is a step of its own, and so is every write a crash may separate
from the next. Variables called history are read by no guard.

### JobService

A section the code runs under `self._lock` is one action; what it does between
two such sections is a step of its own. `rec[j]` is `job.json`, `ledger` the
budget file, `published` the set of `result.json`. `pending`, `activeLocks`,
`registered`, `worker`, `seen` (the record the worker read without the lock),
`event` and `canceller` are memory and vanish in a crash. `born`, `runs`,
`raced`, `refused` and `torn` are history no guard reads.

| Code | Actions |
|---|---|
| `create` | `Create`, `CreateRefused` |
| `register_runner` | `RegisterRunner` |
| `_dispatch_loop` | `Dispatch` |
| `_run_job`, `_execute` | `ReadRecord`, `Start`, `CancelBeforeRunner`, `EnterRunner`, `RunnerReturns`, `RunnerFails`, `RunnerObservesCancel`, `WriteResult`, `Complete`, `LeaveWorker` |
| `_finalize`, `_budget_settle`, `_mark_needs_recovery` | operators `Finalize`, `Settled`, `MarkNeedsRecovery` used by those actions |
| `cancel` | `CancelQueued`, `CancelRunning`, `SignalCancel`, `CancelSettles` |
| death of the server | `Crash`, and between two writes: `CrashAfterReserve`, `CrashBeforeRefusal`, `CrashInCancelQueued`, `CrashInSettlement` |
| `_recover_on_startup` | `Restart` |

Left out: phases, artifacts, the event log, the process records and the
termination of process groups (`JobProcess` and `Executor` have both), `create_budget`, the
validation of requests, and three branches the code cannot reach as it is
called (`runner is None` at 736-740, the preserved `stopping` at 713, a crash of
`_execute` before its first read at 685-688).

### JobProcess

One job from the first line of its runner, with the thread of one `cancel()`.
`leader` and `member` are the command and one process it forked into its group,
`other` says that the leader's number was given to somebody else, `record` is
`process.runtime.json` and whether `ps` gave it an identity, `worker` and
`canceller` are the two threads.

| Code | Actions |
|---|---|
| `run_subprocess_job` | `Refuse`, `Enter`, `Popen`, `WriteRecord`, `Communicated`, `Polled`, `Drained`, `ClearRecord`, `Settle` |
| `_graceful_terminate` | `Terminate`, `LeaderWaited`, `GraceEnds` |
| `cancel`, `_terminate_process_group` | `Cancel`, `SetEvent`, `Look`, `CancelKills`, `KillSeen`, `CancelSettles` |
| death of the server, `_recover_interrupted_jobs` | `Crash`, `Restart` |
| the kernel | `Fork`, `LeaderExits`, `MemberExits`, `MemberCloses`, `NumberTaken` |

Each process survives SIGTERM or does not; none survives SIGKILL. What a signal
does to a stranger that has the number by then is not followed: between the
identity check and the SIGKILL of the grace nothing is compared again.

### RepositoryLease

What the code does under the flock is one action. `inspect_review` reads without
it, so the maintenance paths (the startup reclaim and the operator's cleanup)
take three steps: `Inspect`, `Judge`, `RemoveCondemned`. An owner is a process
and its life number, as the code's owner id and process identity are new in
every life. The answer of `ps` and `kill` is never "dead" for a live owner and
may be "unknown" at any time. `Tick` moves the clock.

### ReviewControl and ReviewLife

A call of `_transition_store` is five steps: journal the intent (`Begin`),
publish the change first when it is terminal (`Say`), check the table (`Check`
or `Reject`), assign the snapshot (`Assign`), write the file (`Store`), publish
otherwise (`Say`). `call[t]` holds the transition of thread `t` in progress;
`at[t]` is where `t` continues. The file is written from the snapshot before or
after another thread assigned it, as `_write(self._snapshot)` reads it without a
lock.

| Code | Actions |
|---|---|
| `approve` | `Approve`, `AcquireLease`, `Launch` |
| `_execute`, `_execute_bound` | `BeginRun`, `AbortBeforeRun`, `Poll`, `Loop`, `NextAction`, `AwaitHuman`, `Close`, `Synthesize`, `Finish`, `Fail` |
| `_call_tool` | `StartTool`, `EndTool` |
| `cancel`, `decide`, `cleanup` | `Cancel`, `CancelEarly`, `CancelSignalled`, `CancelReturns`; `Decide`, `Answer`; `Cleanup`, `Sweep`, `Abort`, `Swept` |
| death of the server, `_recover_interrupted` | `Crash`, `Restart`, `Recover` |

`collect_test_scope` and `run_baseline` are one tool. `COMPLETE` stands for
`PARTIAL` too. The reasons of a quarantine other than an unmatched intent and an
unfinished receipt (temporary files, orphaned worktrees, processes or leases
whose owner is uncertain, a journal that does not verify) are one
nondeterministic choice at `Restart`. Lease expiry is in `RepositoryLease`; a
release is taken to succeed. `resume` is modelled only by the condition under
which it accepts a review (`Resumable`); the review it creates is a new one. `Approver` says who approves: the event loop
("operator") or the pool thread of a task round ("round").

`ReviewLife` is what a review promises to whoever reads its record: it runs
once; the record says `COMPLETE` only if the run's last tool call returned; a
verdict is final while the server lives unless a cancellation was asked for
during the run; and a server that starts again may doubt a verdict, but gives
none itself except `ABORTED`. The mapping (`Record`, `Phase`) reads the record
on disk, any status that is neither terminal nor `QUARANTINED` being open, the
cancel event and the action receipt. A review runs while its thread is alive
and the file names no verdict; it is settled once memory and disk agree on a
verdict and no cancellation that passed its check is still to be stored
(`Cancelling`), and unsettled between. That phase is there because the check in
`ReviewStore.transition` and the assignment are not under a lock: a
cancellation that was permitted while the review ran may be assigned after the
worker's verdict and replace it, in memory, on disk or both. After the first
death of the server the phase is `dead`, where only a recovery or a cleanup
writes. The worker's threads, the order of intent and change in the journal,
the lease and the live slot do not appear in `ReviewLife`.

### Executor

`procs` is the kernel's table of process numbers: a number is given again once
no process and no group has it. `runner[r]` is where a thread of
`run_subprocess` continues, `record[r]` the file with leader, identity and
group, `server` whether the server is up. `Spawn` and `WriteRecord` are two
steps, as are the signal and the wait for the killed group. `Fork`, `Exit` and
`Reap` are the kernel's; `Reap` takes any child that ended, as
`waitpid(-1)` does. The process identity has the resolution of the code's
`ps lstart`. Limits on memory and on the number of processes are choices; the
sandbox's command line and the measurement of resources are left out.

### PlanApproval

`reviews` is a review's snapshot, its three names of the source, its lease,
thread and place in the revision chain; `live` is `_live_id`, `leased` the owner
of the lease on disk, `at` where each caller continues and `job` what it holds.

| Code | Actions |
|---|---|
| `create`, `create_v2` | `CreateStep` (its parts under the manager's lock) |
| `approve` | `ApproveStep`, `HumanApproves`, `CompareSource` |
| `_execute` up to its first tool | `WorkerBegins`, `WorkerPrepares`, `WorkerEnds` |
| `revise_v2` | `Revise`, `Supersede`, `MakeRoom`, `LinkRevision` |
| `cancel` of a review that does not run | `Cancel`, `CancelAborts`, `CancelMakesRoom` |

### AutoAdoption

`attempts` is the ledger in `auto_adoption.py`, `journal` the times of the writes
the budget counts, all of them and those of the last `Hour`,
`op` the operation of the task service in progress, `clock` time in units.
`Reserve` writes the reservation before anything is written; `ConfirmRefused`,
`WriteFails` and `Crash` leave it there. `AskWrite` and `WriteJournaled` are the
two halves of the callers that ask the same budget beside the task service.
`note_candidate_generation` is called by nothing under `src/` and left out;
`register_grant` has no caller there either, but its grants are read, so
`RegisterGrant` stands for a user's.

### TaskRounds

`disk` is the task record, `mem` the copy the operation `op` works on, `source`
a content per file, `review` the follow-up reviews by their idempotency key.
An operation holds the task lock from its first to its last step, so one
operation runs at a time; the user's editor, the review manager, other holders
of the lease and the death of the server do not wait for it.

| Code | Actions |
|---|---|
| `select_disposition`, `_bind`, `_confirm_mapping`, `_prepare` | `Select`, `AcceptRisk`, `Bind`, `ConfirmMapping`, `Prepare`, `Prepared` |
| `_confirm` and the adoption file by file | `Confirm`, `AutoConfirm`, `ConfirmGuard`, `ConfirmMark`, `WriteFile`, `ApplyFails`, `TakeSnapshot`, `Adopt`, `Settle` |
| `_recover` | `Recover`, `RecoveredSave` |
| `_start_review`, `retry_review` | `Create`, `Remember`, `BindChild`, `Approve`, `Started`, `Retry` |
| `_open_round`, `_carry_criteria`, `create_requirement_version` | `OpenRound`, `ChangeRequirement` |
| `reverify_current`, `_run_experiment` | `Reverify`, `ReverifyNext`, `ReverifyInterrupted`, `ReverifyEnds`, `StartExperiment`, `EndExperiment` |

Contents are never reused, so a comparison of contents stands for the code's
digests. Another live review is a refusal at `ConfirmGuard`. The verdicts are
`supported` and `gap_remains`. A settlement is merged with its save. The list of
past rounds, `set_targets` and the queue of the verification pool are left out.
`_recover` compares the worktree and writes afterwards; `AdoptedAsPlanned`
therefore speaks of the direct path. A round that opens over a half-applied
adoption takes the torn worktree for the source (`tasks.py:608-615`, `649`);
`swept` records that it did.

### Delegation and Allowance

`dlock` is the delegation lock, held by a check (`checker`), a stop or a job's
identity check while it waits for the task lock. `runner[j]` is where the job's
runner continues, `inner[j]` the thread that re-verifies for it under the
watchdog. `entered`, `ran`, `recorded`, `aborted` and `returned` are history.

| Code | Actions |
|---|---|
| `create`, expiry | `Authorise`, `Lapse` |
| `check` | `CheckBlocked`, `CheckEnter`, `CheckTask`, `CheckCreates`, `CheckRefused`, `CheckSaves` |
| `stop` | `StopAsked`, `StopMarks`, `StopCancels`, `StopWaits`, `StopReturns` |
| `_runner`, `_reverify_watchdog` | `StartJob`, `EnterRunner`, `Identify`, `Compare`, `Begin`, `WatchSees`, `WatchJoins`, `LastCheck`, `Record`, `Return`, `Abort` |
| the re-verification inside | `EnterTasks`, `InterruptPoint`, `Experiment`, `GuardRaises`, `FinishTasks` |

`Allowance` is what a standing permission promises, whatever grants it: opened
once, booked within its limit while it is open, each booked use run at most
once. The mapping takes an authorisation as open while it is active, the jobs
of its rows as its booked uses, and the jobs whose re-verification began as
those that ran.

### Annotations

Writes are made under the manager's lock; `todo` is what the holder of the lock
has still to write, `torn` half a line in the chain. A crash leaves `todo`
undone. Comments: `CreateComment`, `ReplyComment`, `UpdateComment`,
`ReanchorComment`; listing, which marks as outdated what lost its anchor: `ListComments`,
`LookAtFile`, `MarkOutdated`, `ListDone`. Re-verifications:
`RequestReverification`, `ApproveReverification`, `RejectReverification`,
`RunBegins`, `CheckSource`, `Replay`, `Settle`. The chain is kept per subject.
`Experiments` are the claims whose experiment can be replayed, `Protected` the
claim a confirmed visa adds, which may be commented on but not replayed.
Idempotency keys, dispositions, comments bound to no claim and the annotations
package are left out.

### Delivery

A request that delivers or verifies holds the manager's lock only while it reads
or writes a session and works from its copy in between; approval and export
hold it throughout, but a delivery writes its artifacts without it, so both are
two steps. `Restart` gives the process a new random `repo_id`, after which it
delivers nothing for a review of the old one, and harvests the sessions of dead
processes as they are next touched. Expiry of the lease and reuse of process
numbers are in `RepositoryLease` and `Executor`.

### TestProposal

A call walks through `Begin`, `Acquire`, `Ask`, `isolated_worktree`, `RunEnds`,
`BaselineEnds`, `GenerationEnds`, `HoldoutEnds`, `Decide`, `Record`, `Remember`,
`Release`; `RunRaises` and `TouchedWhileInside` are the two ways out of the
worktree that raise. `Units` gives the deletable statements of a file, of which
every `Modulus`th `Slots` are shown to the model and the others held out. What a
run shows is a choice, so tests are as flaky as they like. The lease is
re-entrant for the threads of one review (`lease.py:153-160`).

### EvidenceSession

`phase` and `step` say where the session is, `tree` what the worktree looks
like (none, clean, cut or dirty), `ledger` what was observed of every trial, `units`
and `why` what the engines concluded. The drift engine is
`DriftScan`, `RemoveFile`, `FileRestored`, `Undrift`; the deletion engine
`InvalidNode`, `DeleteLines`, `LinesRestored`, `Confirm`, `SkipNode`,
`StopDeletion`; a restore that leaves something is `TrialDirty`, `ConfirmDirty`;
a trial that raises `TrialRaises`. `derive.py` is a second path from the records
alone (`Derived`), and `FinishRun` compares both as `finish_run` does. A test
run is a choice among what it can show; how the syntax tree is cut into nodes is
a constant, of which `SyntaxAssumption` says what `astnodes.build` gives: a
statement is within one file and its parts are within its lines. Unusable JUnit reports are one kind of unusable run. Handlers of
process exit are left out.

### DeltaDebug, RuleProtection, TargetMapping

`DeltaDebug` runs one trial a step: `FullSet`, `Initial`, `Subset`,
`Complements`, `CertifyFinal`, `CertifyRemoval`, `DirtyRestore`. Answers are
chosen when first asked for and then kept, unless the tests are flaky, so every
oracle over the atoms is met. Atoms are numbered in their frozen order, which
chunks and complements keep, so a tuple of atoms is a set of numbers, and an
atom's place in it is how many are not above it (`Place`). `CertificateExact` says that a result called
1-minimal is one by the recorded answers, computed from the definition of
1-minimality and not from the search.

`RuleProtection` is the comparison of two suites and two runs of them
(`Baseline`, `Candidate`). Its caller adds new test files and refuses repairs of
declared tests before it (`tasks.py:927-930`, `968-1070`), so the comparison of
sources is the second of two lines. The declared scope and the configuration
of a run, from which that caller takes nothing away, are left out, as is
the intake of manual candidates, which nothing under `src/` calls.

`TargetMapping` writes a diff line by line (`Write`), so every script git could
write is met, groups it into hunks as git does, and maps each line (`Refresh`,
`Confirm`). `LineNumbersHold` compares what the hunk headers yield with the
script itself. Git shows three lines around a change unless it is told
otherwise, and `run_git` does not tell it: the model takes any number but 0
(`MappingAssumption`). With 0 the header of a hunk that only adds counts no old
line and names the one before it, which `finalize` would take to be behind the
hunk. Nested functions, the mode without a patch, the similarity of
unequal lines and the size limits are left out.

## What the runs check

Sizes are distinct states; every passing run explores its whole state space.

| Run | Instance | Properties | Size |
|---|---|---|---|
| `jobs` | 2 jobs, a budget of 2 they do not fit together, 1 crash; 2 commands, 3 process numbers, 3 processes ever, 1 crash | `RunsOnce`, `LedgerConserved`, `OnlyRestartStrands`, `DedupeUnique`, `QueueConsistent`, `LockExclusion`, `NoLateSuccess`; `KillIsExact` | 2,117,578 |
| `job_live` | 2 jobs of kinds of both registrations that do not fit the budget together, 1 crash, fairness | `StoppingResolves`, `QueuedProgress` | 215,648 |
| `live` | review: 2 probes, 3 calls of cancel, decide or cleanup, 2 crashes; delegation: 1 job, 2 contents, 1 crash; fairness | `LeaseAgrees`, `ResumeSound`, `CancelNotIgnored`, `WorkerSilent`, `KeepsLife`, `ReviewSettles`; `StopAnswered` | 77,298 |
| `server` | lease: 2 servers, 2 reviews, 4 operations of which two share a key, clock to 3, 3 leases, 1 death; plans: 2 reviews, 1 edit, threads that do not start, a standing approval; adoption: 3 criteria of 2 tasks, 1 attempt in a window of 2, 2 grants, a budget of 2 writes and of 1 in an hour of 2, clock to 2, 1 crash | `Exclusion`; `RunIsSound`, `SupersededNeverBegins`; `LimitsHold` | 4,102,334 |
| `task_rounds` | 2 criteria, one that adopts a patch of two files and one that is measured, 2 new contents, 1 crash or new requirement | `AutoWritesOnce`, `TornIsRecoverable`, `SuccessHasEvidence`, `AdoptedAsPlanned` | 4,962,817 |
| `delegation` | 1 authorisation of one use, 2 jobs, 2 contents, 2 requirement versions, 1 crash | `StopHolds`, `KeepsBook` | 2,646,272 |
| `annotations` | 1 claim with an experiment and the protected claims a re-verification adds, 2 reruns, 2 comments, 2 requests, 2 revisions, 1 crash | `JudgementSound`, `RecordsAgree` | 3,692,343 |
| `delivery` | 2 requests, 2 patches, 2 sessions, 1 write allowed, 1 edit, 1 restart | `LedgerSound`, `ExportMatchesApproval`, `HarvestedStaysClosed` | 5,213,278 |
| `evidence` | session: 2 files of which one is new, 4 lines, nested nodes, 5 probes; ddmin: 4 atoms; rules: 2 test modules; mapping: 4 lines before and after | `VerdictsSound`, `WorktreeSound`; `CertificateExact`; `PassedStaysTested`; `MappingHolds` | 4,024,008 |
| `test_proposal` | one subprocess that forks once, 1 crash; 2 calls, 2 rounds, 2 or 3 deletions of which every third is shown, 1 upset | `LeaderAccountedFor`; `VisaSound`, `RepositoryKept` | 5,645,182 |

What they ask of the system that a test would hardly reach:

* Jobs: a queued job that is cancelled between its dispatch and its worker's
  first look, a cancellation at every point of a run and its settlement, a
  crash between any two writes. `LedgerConserved` and `DedupeUnique` exempt a job
  once its worker overwrote a terminal record (`raced`), and the ledger once the
  server died between two writes that belong together (`torn`).
  `KillIsExact`: the recovery kills no process of another command than its
  record names, and when a killed command is answered nothing of its group runs.
  `LeaderAccountedFor`: a command never outlives a completion, a cancellation or
  a limit of its job, and outlives a crash only if the restart says it could not
  tell, or never knew of it.
* Reviews: `ReviewSettles` joins that every approved run ends with lease and slot
  given back, and that a recovery ends terminal or quarantined. `KeepsLife` is the
  refinement of `ReviewLife`: whatever cancellations, answers, cleanups and
  deaths come between the steps of a transition, the record changes only as it
  promises.
* Plans: `RunIsSound` says a review that runs was approved for the source it
  names in all three places and holds the lease it runs under;
  `SupersededNeverBegins` that a plan a revision replaced does no work, also
  when the revision came between its approval and its first step.
* Adoption: `LimitsHold` joins the one attempt of a task and of a trigger, the
  window, wherever it is laid, the age of a grant, and the overrun of the
  budget, which is asked before and counted after: by one for each caller that
  asked at the same time, never more.
* Tasks: `AutoWritesOnce` over crashes in the middle of a write, recoveries and
  new requirement versions; `TornIsRecoverable` and `AdoptedAsPlanned` while the
  user edits between any two files; `SuccessHasEvidence` says that what is
  shown as supported was supported by a completed review or a passed experiment
  of that criterion, an experiment only for the worktree it ran on.
* Delegation: `KeepsBook` is the refinement of `Allowance`; `StopHolds` says no
  experiment begins once `stop()` returned, not even in a thread its
  watchdog left, and that a job that says it was aborted leaves no receipt.
* Annotations: a replay runs once and after its confirmation is on the chain,
  a flaky result is confirmed only by all reruns, no judgement is graded above
  the review, the record never says more than the chain.
* Delivery: a delivered session has its commit of the reviewed source; an export
  has the files that were approved, unless one replaced them while the package
  was written (the code reads and hashes them one after the other); a session
  of a process that is gone is closed for good.
* Evidence: `VerdictsSound` compares the two paths to a conclusion in every state
  in which the session could finish. `WorktreeSound` says a trial starts on the
  baseline and a worktree that is left is named as such.
* Proposals: `VisaSound` says that a record that calls its test effective has a
  visa of that candidate, earned on enough deletions of which the candidate
  failed one; and that the model was shown none of them, as long as it kept what
  it cites (see below). `RepositoryKept`: the worktree is removed unless the user
  edited meanwhile, and no other review works in the repository.

TLC counts how often every action is taken. In the runs over one module each is
taken; in `jobs`, `live`, `server`, `evidence` and `test_proposal` TLC sees one action per part, so the counts
of their conjuncts were read instead: every action of every part is taken. Two
branches inside of actions are not: a canceller that finds the worker gone and
the record still `stopping` (`jobs.py:983` and after; the worker's own finalisation comes
first), and a file without a statement that can be deleted.

Why the bounds are enough. A job property relates two jobs or one job and the
ledger. One crash separates two lives; a second one meets only states
the restart produces, which are initial states of the same kind, except in the
review's own recovery, where there are two. A lease conflict needs two owners,
re-entrance two operations with one key, and the third lease is the one issued
after a removal; the lifetimes are 1 and 2 so that a lease may expire while its
owner works. Two criteria of one task and one in another distinguish the quota
of a task from that of a trigger and that of the window. The patch of
`task_rounds` has two files because an interruption needs a file before and one
after it, and the user edits one of them and one beside them. Two
contents in `delegation` let the worktree move away and back; two jobs one that
uses the authorisation and one that comes after. Two requests in `delivery`
overlap in every order, two patches make a second delivery differ from the
first. Four atoms are the smallest set with a granularity step between halves
and single atoms, four lines allow two hunks that touch and two that do not.

`CHECK_DEADLOCK` is on in `job_live` and, for the review, in `live`, where `Quiet` marks the states
in which a system with nothing left to do may rest. In the other runs the
bounds on users, crashes and versions end every behaviour, so a state without a
successor means nothing there; that no thread waits for ever is what
`StopAnswered`, `ReviewSettles` and `StoppingResolves` say.

## Fairness

No request is ever assumed to come: clients, edits, crashes and approvals have
no fairness anywhere.

* `job_live`: the dispatcher, the workers and the cancelling threads are threads
  the operating system schedules, so each has weak fairness. A cancelling thread
  has its own deadline (`CancelSettles`), so a stop is resolved even if the
  runner never returns: the runner's steps are excluded from the fairness of its
  worker. `QueuedProgress` has as a premise that runners return. A stopped server
  is started again (`Restart`); without that nothing could be promised of an
  interrupted job.
* `live`, the review: a tool returns or reaches its own deadline and the wait for a human
  has a deadline, so the worker is fair throughout. The plan is approved on the
  event loop, as the HTTP route does.
* `live`, the delegation: weak fairness for a check and for the deadline of a
  cancellation (`GiveUpJob`). A stop, a job's runner and its inner thread wait
  for a lock others take again and again, and `threading.Lock` hands it to a
  waiter in the end, so these have strong fairness, one formula for each job.

## Where comments and code part

`task_stale` / `NothingInherited` checks what the docstring of `_carry_criteria`
says (`tasks.py:414`: "Nothing may inherit a success conclusion."). A criterion
adopted a patch and was confirmed by its follow-up review. The user edits the
source, a round maps the targets, one mapping needs a confirmation, and
confirming it (`tasks.py:838-844`) compares the new target with the bundle of
the old review and stores its outcome. `get()` then shows the criterion as
supported on a source no review or experiment saw. What does hold is
`SuccessHasEvidence`, in which the evidence may be of an older source.

`job_group` / `TerminatedGroupGone` checks what `_graceful_terminate` says
(`jobs.py:1082`: SIGTERM, grace, SIGKILL, "进程组，含后代", the process group with its
descendants). It waits for the leader alone and returns when that has ended
(`jobs.py:1091`), so a descendant that ignores SIGTERM is never sent SIGKILL. If
it closed its pipes, the job is reported cancelled or failed with its termination
confirmed; if it holds them, `communicate()` times out twice and a cancelled job
ends failed. `_terminate_process_group` looks at the leader in the same way.
`executor.py` sends SIGKILL to the group at once and keeps the promise
(`KillIsExact`). What holds for jobs is `LeaderAccountedFor`.

Further places where a comment or a test promises more than the code keeps were
met while modelling. The models show them; no run states the promise, because
each of the properties above already says what does hold.

| Where | What the model shows | What holds |
|---|---|---|
| `jobs.py:711`, `729` | a job cancelled after its dispatch and before its worker's first locked section is written back as running from the record read before, and settles twice | `LedgerConserved` and `DedupeUnique` with their exemptions, `RunsOnce` |
| `jobs.py:762-769` | a cancellation between the last test of the event and the write of `result.json` does not stop the success result | `NoLateSuccess` for the record |
| `jobs.py:378`, `669` | after a restart the queue follows the random job ids | `QueueConsistent` |
| `jobs.py:1142` | a process record that cannot be written ends the job and leaves its command running, with no record | `LeaderAccountedFor` with that exemption |
| `jobs.py:396-398` | a running job whose process the restart could not verify is reported interrupted with its termination confirmed, if no write traces are found | `LeaderAccountedFor`, by the outcome it records |
| `lease.py:250` | the operator's cleanup removes the lease of an operation of the same server that still works | `Exclusion` between owners |
| `control.py:1877-1909` | a cancellation that reaches CANCELLING between the worker's poll and its next transition ends FAILED | `CancelNotIgnored`, `ReviewSettles` |
| `review.py:217-223`, `control.py:1909` | a cancellation that was permitted while the review ran is assigned after the worker's verdict and takes it back | `KeepsLife`: then a cancellation was asked for |
| `tasks.py:1284`, `control.py:895` | a cancel that meets an approval on a round's thread leaves a worker that writes to a terminal review's journal (`Approver = "round"`) | `WorkerSilent` on the event loop |
| `control.py:1485`, `1535-1537` | a creation that fails because the repository's memory does not load leaves its draft in the live slot, where nobody works | `RunIsSound` |
| `control.py:1293-1298`, `1339-1366` | a revision ends the old draft before it creates the new one, so a refused creation leaves a draft superseded by nothing | `SupersededNeverBegins` |
| `auto_adoption.py:119`, `tasks.py:1204-1228` | a criterion keeps the id of its automatic attempt, so a later confirmation by a person settles that attempt as applied | `LimitsHold` |
| `delegation.py:411-438` | the content is compared once; an experiment may run on a later one | `KeepsBook` |
| `control.py:2187-2213`, `2503` | a listing marks as outdated what was open when it read the records, whatever became of it since | `RecordsAgree` |
| `control.py:2794`, `3245` | a delivery writes its session from the copy it read, over an abandonment in between | `LedgerSound`, `HarvestedStaysClosed` |
| `control.py:3346`, `3431-3432` | the artifacts belong to the review: what is approved for one session may be a delivery of another | `ExportMatchesApproval` |
| `control.py:3942`, `4072-4076` | deletions held out for one set of citations are shown once the model cites others | `VisaSound` while the citations stay |
| `repair.py:259-265` | the comparison with the checkout comes first in the `finally`; when it raises, the worktree stays | `RepositoryKept` with that exemption |
| `session.py:105-106`, `500` | probes of the delta debugging use up the budget and leave lines without a verdict, so verdicts depend on the strategy | `VerdictsSound` |
| `workspace.py:169-171` | a worktree is unregistered before it is known to be gone | `WorktreeSound`, which accepts a recorded residue |
| `target_mapping.py:654`, `tasks.py:784-788` | the lookup of a renamed file raises what nobody catches, where the mapping is said never to be a gate | `MappingHolds` |
| `executor.py:209-233` | `waitpid(-1)` takes the status of another command's child, which counts as exit code 0 | `KillIsExact` |
| `source_weakening.py:292-295` | removing all assertions outside of tests is not flagged | `PassedStaysTested` for tests |

## What is proved

TLAPS checks the following for every value of the constants that satisfies the
`ASSUME`s of the modules (finite sets of jobs, a strict name order, natural
numbers where numbers are meant, at least one request or review, a floor not
above the ceiling). No proof step is left open.

`JobServiceProofs`. The inductive invariant is

    IInv == TypeOK /\ JobsSound /\ QueueSound /\ DownSound /\ LocksTaken /\ LockExclusion

`LockExclusion` alone is not inductive: a dispatch keeps it only if every job
with a worker has its lock in `activeLocks` (`LocksTaken`), and that survives the
end of a worker only because the lock is held by one. `JobsSound` says what each
step of a worker implies of its record and its cancel event, `QueueSound` what is
in the queue, `DownSound` that a dead service has no queue, lock or thread. The
proof has one lemma per group of actions with the same footprint (`RecordStep`,
`WorkerMoves`, `EndsIInv`, `DiesIInv`, `QueueGrows`, `QueueShrinks`), then one
step per action. `TypeCorrect`, `WritesAreSerial` (`LockExclusion`),
`NoBlindReplay` (`RunsOnce`), `QueueAgrees` (`QueueConsistent`), `OneInFlight`
(`DedupeUnique`) and `ReservationsReturn` (`OnlyRestartStrands`) follow.
`CancellationWins` proves the action property `NoLateSuccess` from the life cycle
of one record (`LifeCycle`, `Moved`, `StepMoves`).

`BudgetIsConserved` (`LedgerConserved`) is about a sum over the jobs, which the
library's `MapThenSumSet` computes by a recursive function that takes the elements
of the set in an arbitrary order. Such a function exists (`SumsExist`), is unique
(`SumsUnique`) and gives the same sum whichever element is taken first
(`SumsAny`); each is proved by a least counterexample among the subsets of a
finite set (`LeastSet`, from the library's `WFMin`), which needs no induction
theorem with an operator parameter. `TotalChange` then says what a change at one
element does to a sum. The invariant is `BookInv`: the ledger balances (`Books`),
a waiting job is not settled and an unsettled one has used nothing, what a worker
has read of a job is not older than a cancellation it does not show, and a refused
job has failed (`JobBooked`). `OneBooked` and `SettledBooks` say what a
reservation and a settlement move; `AtLeastZero`, the `max(0, ...)` of the code,
never cuts anything off, as the job's own part is in the sum.

`JobProcessProofs`. `CommandIsAccountedFor` (`LeaderAccountedFor`). The state of a
job says nothing about its command unless the place of the worker is known:
`CommandByPlace` says that there is no command before `Popen` and none that runs
once the worker drained its pipes or waited for it, `NothingAbandoned` that a
worker never ends and leaves its job running or stopping. So a canceller, which
settles a job only when the worker is gone, never ends one itself, and what
remains is the restart, whose outcomes `RestartKeeps` goes through.

The same module proves `KillsAreExact` (`KillIsExact`) of the `Executor`, for any
number of threads, identifiers and deaths of the server. Its invariant
`ExecutorIInv` says of the processes that each is told from the others by its
birth and that a group, with the process whose identifier it has, is of one command
(`ProcessesSound`), of a record that its identity is of a process of the command it
names (`NoteSound`), and of a command that was killed that what runs on left its
group and is not its leader, so that nothing can fork into the group again
(`GroupKilled`). Most steps only take processes away; `FewerStep` is the
argument for them all, and `OneMore` the one for a process that starts under an
identifier that was used before. `NoteSound` speaks of the command the record names,
not of the thread's: when another thread took the leader's status, the identifier can
have a successor before the record is written, and the record is then that one's.

`ServerProofs`, the lease. The inductive invariant `IInv` adds to the type that a lease
on disk was issued in a life its process has reached (`FileDated`), that working
operations belong to a serving process (`WorkersServed`), and that a maintenance
thread which condemned a lease saw a dead owner and that the id it compares
still names that owner's lease (`MaintSound`). From it follow that an operation
its own process did not evict works under the lease on disk (`HolderKeepsLease`),
`MutualExclusion` (`Exclusion`) and `CeilingHolds`.

`DelegationProofs`, first part: `BookIsKept`, that `Delegation` implements
`Allowance`. The mapped step of a dispatch is `CheckSaves`; it books a use only
if the authorisation is open, below its limit, and the job is new. None of this
is visible in that action, whose guards were evaluated two steps before, so the
invariant says that while a check holds the lock its authorisation stays open,
keeps a use, and has no row of the content the check works on (`CheckSound`).
`Counted` says that rows never outnumber the uses counted, `RowsAgree` that a
row names a job of its authorisation, `NothingEarly` and `Numbered` that only
created authorisations have anything. The step that runs a use is `EnterTasks`:
it is a booked one because past its identity check a job is registered
(`RunnersBooked`), and it runs at most once because a job goes through its
runner once (`OneRunEach`), whatever restarts and overwritten cancellations do.
Every other action is a stutter or the closing of the authorisation.

`DelegationProofs`, second part: `StopIsKept` (`StopHolds`). That no experiment
begins after `stop()` returned is a statement about a thread that neither holds
a lock nor asks one at that moment. `StopInv` strengthens `IInv` by three parts:
an inner thread without its watchdog was interrupted, so that its next
interrupt point ends it (`ThreadsWatched`); all jobs of an authorisation whose
stop has returned, and those the stop in progress has passed, were interrupted
(`HaltSound`); an abort or a receipt is the last thing a job writes
(`LastWord`), from which the second half of `StopHolds` follows. `HaltSound`
is kept by a check only because it dispatches under the lock the stop takes
first, and because closing an authorisation is final (`ClosedStays`, from the
refinement).

`JudgementProofs`, the rule protection. `CleanVerdictIsSound` (`PassedStaysTested`) for any
modules, tests and suites: what the collected ids of two runs say
(`Collects`), that a skip mark is
added only where the comparison says so (`NoSkipAdded`), that a readable file in which nothing is flagged keeps
what its assertions check (`ReadableKeeps`), joined in `CleanIsSound`; the invariant
only carries over that a verdict still speaks of the suites it was reached from.

`JudgementProofs`, annotations. Everything is written under one lock, record by
record and event by event, and a death of the server leaves the rest undone; so
both invariants speak of `todo`, the list of what is still to be written.
`CommentsIInv` says that every record of a comment, on disk, in the hands of the
thread that lists the comments, or in `todo`, is a `Version` of its comment: it
supersedes what the comment supersedes, and its link leads to a comment that
exists and supersedes it. A replacement is the first write of a reanchoring and
the link comes after it (`Creates`, `Relinks`), so a death between them leaves a
replacement without a link and never a link without its replacement.
`RequestsIInv` says what each status of a re-verification's record means for the
chain, its revision and its reruns (`RequestSound`), what the place of its thread
says of the reports it holds (`RunnerSound`), and that every write of `todo` will
find what it needs (`WritesFit`): an approved record comes after the event that
confirms it, a settled one after the event with its outcome and revision
(`Before`), a revision no other record of the claim has is still new when it is
written (`Fresh`), and a thread goes on last. `todo` holds at most one record of a
re-verification (`OneRecord`), and the lock is why a new revision stays new. What
the strategies conclude from the reports is in `VerdictIsCertain` and
`JudgedNotAbove`. `JudgementsAreSound` (`JudgementSound`) follows from
`RequestsIInv`, `RecordsAlwaysAgree` (`RecordsAgree`) from both.

`JudgementProofs`, proposed tests. The visa is about what a model was not shown,
and it may be asked several times, with other references each time. `CallSound`
says that, as long as the references stay, all that was shown is among the
deletions for showing and all that the visa holds out is not, both of the
references cited now; and that an earned visa is that of the last candidate,
which is why no call goes on to a worktree or another question with one. The record
and the remembered answer are made from that (`RecordOfIsSound`), and
`VisasAreSound` (`VisaSound`) follows. For `RepositoryIsKept` (`RepositoryKept`)
`LeaseSound` says that a call that has the lease to itself runs under it and is the
only one at work: so nobody else's release can take it away and no other review
gets it; `TreesSound` says that until the user touches the checkout every worktree
was made of it as it is, so the assertion in `isolated_worktree` holds.

`ServerProofs`, automatic adoption. The proof of `LimitsAreKept` (`LimitsHold`) has three
invariants. `Ledger` says that the attempts are ordered in time, that a task
and a trigger have one each, and that every window holds at most `Limit` of
them, also one that ends in the future (`EveryWindow`): `WindowHolds` alone is
not inductive, as time moves on. A reservation keeps it because the window it
falls into was counted to its end at that time, and windows that end later hold
a part of it. `Granted` says that an attempt names a grant that existed and was
no older than its cap when the attempt was made; a registration cannot change
that, as grants are only appended and the file keeps the time of each.
`Budget` counts the journaled writes, all of them and those of the current hour,
together with the writers that asked and did not write yet (`Waiting`). A
writer asks only below the limits, so the sum exceeds each by at most the number
of writers; that every hour keeps its bound (`EveryHour`) follows as the clock
moves on, as an hour that ended gets no more writes.

`ServerProofs`, the approval of plans. A worker that runs has a plan drafted for the
source its review froze, although three readings of the source lie between and
only one pair is compared. The invariant `PlanIInv` says why that pair is enough:
the request of an open review names no later source than its draft, and that no
later one than the present (`RecordsSound`), so when the comparison finds the
present source to be the request's, so is the draft's. `ErrandsSound` carries this through the
approval: what the place of a caller says of its review, and that a review being
made belongs to the caller that holds the lock and to nobody else. `LeasesBorne`
says who bears the lease of a review approved once: the approval that took it,
alone, and then the worker it starts, until the worker gives it back.
`RunsAreSound` (`RunIsSound`) follows from both, `SupersededStaysIdle`
(`SupersededNeverBegins`) from the fact that a worker begins only while its
review is frozen, and a superseded review has a final status. The constants
need only be numbers and booleans.

`ReviewControlProofs`. The steps are of three kinds: a step inside
`_transition_store` (`CallStep`), a move of the worker or of a client that may
begin one (`WorkerMoves`, `ClientMoves`), and what the server does as a whole
(launch, crash, restart). `Common` holds whoever approves. Its part
`CutStaysSuspect` says that a review cut inside a tool or a transition keeps the
trace that shows it (a started receipt, an intent without its change) until the
recovery, and is never given the status of a clean restart; `ResumeIsSound`
(`ResumeSound`) follows. `CancelSeen` says that a cancellation accepted early
has set the event the worker still tests, and that no later call of the worker
completes the review; `CancelIsNotIgnored` follows. `LeaseInv` adds what needs
the event loop to be who approves: a client sweeps, aborts or recovers only
while no worker is alive (`Alone`), a worker between its launch and its end has
lease and slot (`Holding`), nobody holds the lease of a finished review
(`Released`), and a live worker finds a status that is not terminal (`Silent`).
`LeaseIsKept` (`LeaseAgrees`) and `WorkerFallsSilent` (`WorkerSilent`) follow
from both. They have `Approver = "operator"` as a premise because they fail
without it: a round that approves on its pool thread meets a cancellation of
the event loop, as the table above says of `tasks.py:1284`.

`ReviewKeepsLife` shows that `ReviewControl` implements `ReviewLife`, under the
same premise. Every step is mapped to one of `ReviewLife` or to a stutter
(`StepSimulated`), by the three kinds of steps: `WorkerMovesSimulated`,
`OperatorMovesSimulated`, and `WorkerCallSimulated` and `OperatorCallSimulated`
for what happens inside of a transition, where the two threads meet.
`IInv` does not say enough for that; `LifeInv`, an inductive invariant of its
own, adds what a call under way may be (`Targets`: only the worker completes, a
cancellation of the operator is the one call that may run beside it), that the
cancel event is set wherever a cancellation is seen (`AskedFor`), that the
receipt says completed from the last tool call on (`Receipts`), what memory and
disk hold before the worker starts (`Launching`) and while it lives (`Underway`:
beside the statuses of a run only the worker's own verdict, assigned and not yet
stored), and that a change the operator makes alone leaves memory and disk in
agreement (`Sole`). The step that costs most is the operator's write of a
cancellation: it stores what memory holds, which may be the worker's verdict,
so the operator may be who concludes the run.

`DeliveryProofs`. The inductive invariant has a part for each property. `Sealed`:
who holds the lock for an export has the fingerprints pinned to its session, and
the files still have them unless a delivery replaced one (`ExportIsApproved`).
`Compared`: a request past its comparison works on the reviewed source, or the
checkout was edited under it. `Counted`: as long as verifications come one after
another, the one in progress has room for its event. `Owned`: an active
session is of the running process, and so is every one a request works on, with
the owner in the copy it keeps. `Earned`: a session's history has the states it
went through, and a delivered one lists the outcome of a request that
committed. `LedgerIsSound` (`LedgerSound`) joins `Compared`, `Counted` and `Earned`. `HarvestIsFinal`
(`HarvestedStaysClosed`) is an action property: a request that still has a
copy of a session is of the same process by `Owned`, so none can write over a
session of another one.

`TaskRoundsProofs`. One fact about contents carries the four theorems:
`Unspent`, that the content of a plan that may still be written is recorded
nowhere else, in no snapshot, no adopted or tested source and no other plan. A
plan's content is fresh when the plan is made and later records take only what
the worktree holds, so a write, like an edit of the user, makes the worktree
differ from every source on record: no state of the worktree comes back. The
invariant

    IInv == TypeOK /\ SoundOnDisk /\ SoundInMemory /\ Placed /\ Automatic /\ Keyed

says of the task on disk and of the copy an operation holds what each criterion's
status implies of its plan, its child and the worktree (`Sound`), what the place
of the operation in progress adds to that (`Placed`), that an automatic
confirmation has written nothing before it writes, and that what it wrote keeps it
from writing again (`Automatic`), and that an unused key has no review and only a
complete review a verdict (`Keyed`). `AutoWritesOnlyOnce` (`AutoWritesOnce`)
and `InterruptedIsRecoverable` (`TornIsRecoverable`) are parts of it.
`SuccessIsEvidenced` (`SuccessHasEvidence`) follows a shown outcome back to its
review or experiment through the overlay `get()` computes. `AdoptionKeepsThePlan`
(`AdoptedAsPlanned`) is an action property: a file edited during the writing
differs from the plan for good, so the comparison before the status is written
sees it. The proofs assume of the constants that a spec's key is not one of
the two states of a key (`Specs \cap {"free", "inner"} = {}`).

`JudgementProofs`, delta debugging. The places of the atoms of a set are the
numbers from 1 to its size (`PlacesInOrder`, `AtomAt`, from the fact that an injection
between finite sets of one size is onto), so the finest partition has each atom
in a chunk of its own (`FinestChunks`). The invariant `DDIInv` says of steady tests
that what is blamed failed, that no complement tried in this round did
(`Harmless`), and that a search ends with one atom or after a whole round over the
finest partition, so that leaving out each single atom was tried
(`Shown`); the certificate is told the same again, as answers stay. Without
`Steady` only the form of the certificate is left, which is the first part of
`CertificateExact`.

`JudgementProofs`, the analysis session. `TreeInv` ties the state of the worktree to
the phase and the step, which is all that `WorktreesAreSound` (`WorktreeSound`)
needs. The verdicts need `EvidenceIInv`, of five parts. `Shape` says which fields
the ledger has. `ReasonsInv` says that the engines and the ledger's records give
the same reasons for lines without a verdict, and only for lines the coverage
says nothing about. `RecordsInv` ties every unit to the trial that showed it and every
trial that showed something to its unit, and every claim to its chain of reruns.
`SearchInv` is about the search: no deletion is tried twice
(`Once`), what was settled lies in files that were entered and off the lines
that are still open, and what waits in the queue lies apart from what was
settled and from what is being tried (`Searches`, `Tries`). Without `SearchInv`
a second trial of the same lines with another answer would leave the two
accounts apart.

`SelfChecksAlwaysPass` holds whatever the statements look like: when the session
may publish, `derive.py` finds in the records what the engines concluded, so
`finish_run` never turns away its own evidence. `VerdictsAreSound`
(`VerdictsSound`) adds that no line is both depended on and in a unit that
was shown to change nothing. That has a hypothesis, `StatementsApart`: statements
side by side share no line, unless they share all of theirs. `astnodes.candidates`
refuses roots with a `;` on their first or last line, which gives it for
roots (a line that begins with `#` inside of a string is not refused), but it
asks nothing of the parts of a root. In a block of

    x = 1; y = \
    f()

the first statement can be cut alone and shown to be without effect, and the
second, whose lines include the first's, depended on. With such nodes as
constants TLC finds `LoadBearingConfirmed` violated while `SelfChecksPass` and the
inductive invariant hold over all 5,867,493 states: `label.merge` and
`derive.py` rank the dependence above the absence of an effect, so the line is
reported as depended on by both. Nothing the repository documents is
contradicted, so this is a remark and not a finding.

`JudgementProofs`, the mapping of targets. `TargetsStay` (`MappingHolds`) for any
file, diff and context. That the line numbers hold (`NumbersHold`) is a statement
about hunks of any number and length, yet needs no induction over them: how many
lines of a file the diff has reached at a position (`Count`) is a cardinality,
so it splits anywhere (`CountSplit`), and a header is such a count at both ends
of its hunk (`HeaderIs`). The hunks are the largest runs of the positions shown
(`RunAround`, `RunsApart`), so a line lies in one hunk or in none (`HunkOfLine`).
Inside, its entry is found again by counting from the header (`MapsInHunk`).
Outside, what the hunks before it add, a sum `MapThenSumSet` takes in an arbitrary
order, has a closed form, the difference of two counts (`Gain`, `SumsOnce`: a
smallest set with another sum cannot exist); what no hunk shows was kept
(`NotShown`) and adds the same to both sides (`MapsBetween`). Context matters in
`HunkHasOld`: a hunk without an old line is the whole diff, as a line beside an
addition is shown. `MapInv` then only says that the script is one and that targets
stayed: a line the diff keeps is found at its place with its text
(`PlaceKeepsText`), and for any other the search takes a place on its own only
within the function (`SearchedStays`).

So every invariant and action property of the passing runs is a theorem. Only
model-checked: their four liveness properties (`StoppingResolves`,
`QueuedProgress`, `ReviewSettles`, `StopAnswered`), as fairness and `ENABLED` are
out of the prover's reach.

## What is not modelled and why

See the components of `PROJECT.json`. The HTTP routes are thin; the threads they
give each call are the processes of the models. Evaluation receipts, the run
root, the protocol's validation, the project registry and the scheduler are
pure functions or append-only records without anything to interleave.
Presentation, adapters to external services, file formats and model prompts
carry no concurrent state. The release pipeline is sequential and dominated by
file formats.

Inside the modelled components: phases, artifacts and the event log of a job;
the journal's own hash chain (a chain that does not verify is one outcome at a
restart); retention and export of a whole review, narration and
recommendations; parsing of proposals, of patches and of reports, each of
which is one choice among its outcomes; sizes that only cut off work.

In `ReviewControl` one review is modelled; the exclusion between two reviews is
the lease's, and the `_live_id` slot is a boolean. An answer is not tied to its
question, a failing release of the lease and a disk that refuses a write are
not modelled.

## Plan

What remains, in the order of importance:

1. An abstract job that `JobService` implements outside the races above.
2. A composition of `TaskRounds` with `ReviewControl` in place of the review's
   outcome, and of two tasks of one repository.

