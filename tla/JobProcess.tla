----------------------------- MODULE JobProcess -----------------------------
(***************************************************************************)
(* The subprocess of one job (server/jobs.py, run_subprocess_job): the     *)
(* worker's thread starts and watches it, the thread of a cancel() reads   *)
(* the process record and kills by it at the same time, and a server that  *)
(* starts again goes by the record alone.                                  *)
(*                                                                         *)
(* The command leads a process group of its own.  It may fork one that     *)
(* stays in the group, and that may close the pipes it got; each may or    *)
(* may not survive SIGTERM.  Once the leader was waited for and the group  *)
(* is empty, its number may be given to another process.                   *)
(***************************************************************************)
EXTENDS Naturals

CONSTANT MaxCrashes      \* bound: how often the server dies

VARIABLES
    leader,      \* the command: "none", "running", "zombie" or "waited"
    member,      \* the forked one: "none", "piped", "closed" or "gone"
    other,       \* another process has the number of the leader
    record,      \* process.runtime.json: "none", "named", or "unnamed" if ps did not answer
    status,      \* job.json
    outcome,     \* its process_record_outcome, "" before a restart
    event,       \* the cancel event of the job
    worker,      \* the worker: where it is, and why the command was stopped
    canceller,   \* where the thread of cancel() is
    up, crashes

kernel == <<leader, member, other>>
vars == <<kernel, record, status, outcome, event, worker, canceller, up, crashes>>

Init ==
    /\ leader = "none" /\ member = "none" /\ other = FALSE
    /\ record = "none" /\ status = "running" /\ outcome = "" /\ event = FALSE
    /\ worker = [at |-> "enter", why |-> "none"] /\ canceller = "idle"
    /\ up = TRUE /\ crashes = 0

MemberRuns == member \in {"piped", "closed"}
PipesClosed == leader # "running" /\ member # "piped"
WorkerAlive == worker.at # "ended"

-----------------------------------------------------------------------------
(* The processes.                                                          *)

Unmoved == UNCHANGED <<record, status, outcome, event, worker, canceller, up, crashes>>

Fork ==
    /\ leader = "running" /\ member = "none" /\ member' \in {"piped", "closed"}
    /\ UNCHANGED <<leader, other>> /\ Unmoved

LeaderExits ==
    /\ leader = "running" /\ leader' = IF up THEN "zombie" ELSE "waited"
    /\ UNCHANGED <<member, other>> /\ Unmoved

MemberExits == MemberRuns /\ member' = "gone" /\ UNCHANGED <<leader, other>> /\ Unmoved
MemberCloses == member = "piped" /\ member' = "closed" /\ UNCHANGED <<leader, other>> /\ Unmoved

NumberTaken ==
    /\ leader = "waited" /\ ~MemberRuns /\ other' = ~other
    /\ UNCHANGED <<leader, member>> /\ Unmoved

Wait == IF leader = "zombie" THEN "waited" ELSE leader

(* killpg: SIGTERM may be ignored, SIGKILL may not.  The processes of      *)
(* another group that has the number by then are not followed.             *)
Stopped(p, stops, dead) == IF stops THEN dead ELSE p
Signal(sure) ==
    /\ \E l, m \in (IF sure THEN {TRUE} ELSE BOOLEAN) :
          /\ leader' = Stopped(leader, l /\ leader = "running", "zombie")
          /\ member' = Stopped(member, m /\ MemberRuns, "gone")
    /\ UNCHANGED other

-----------------------------------------------------------------------------
(* run_subprocess_job, on the thread of the worker.                        *)

At(place) == up /\ worker.at = place
Goes(place, why) == worker' = [at |-> place, why |-> why]
Others == UNCHANGED <<outcome, canceller, up, crashes>>

(* _finalize: a job that is being stopped does not complete, and one that  *)
(* ended stays as it is.                                                   *)
Finalized(wanted) ==
    CASE status \notin {"running", "stopping"} -> status
      [] status = "stopping" /\ wanted = "completed" -> "cancelled"
      [] OTHER -> wanted

(* What was asked for is refused, the command cannot be started, or        *)
(* _phase_start finds a job that was given up.                             *)
Refuse ==
    /\ At("enter") \/ At("starting")
    /\ Goes("ended", "refused") /\ status' = Finalized("failed")
    /\ UNCHANGED <<kernel, record, event>> /\ Others

Enter ==
    /\ At("enter") /\ status \in {"running", "stopping"} /\ Goes("starting", "none")
    /\ UNCHANGED <<kernel, record, status, event>> /\ Others

Popen ==
    /\ At("starting") /\ Goes("spawned", "none") /\ leader' = "running"
    /\ UNCHANGED <<member, other, record, status, event>> /\ Others

(* A record that cannot be written ends the job: the command runs on.      *)
WriteRecord ==
    /\ At("spawned")
    /\ \/ Goes("polling", "none") /\ record' \in {"named", "unnamed"} /\ UNCHANGED status
       \/ Goes("ended", "unrecorded") /\ status' = Finalized("failed") /\ UNCHANGED record
    /\ UNCHANGED <<kernel, event>> /\ Others

(* communicate() returns, or 50 ms pass.                                   *)
Communicated ==
    /\ At("polling") /\ PipesClosed /\ leader' = Wait
    /\ IF event THEN Goes("stopping", "cancelled") ELSE Goes("clearing", "none")
    /\ UNCHANGED <<member, other, record, status, event>> /\ Others

Polled ==
    /\ At("polling") /\ ~PipesClosed
    /\ Goes("stopping", IF event THEN "cancelled" ELSE "limit")
    /\ UNCHANGED <<kernel, record, status, event>> /\ Others

(* _graceful_terminate: the group gets SIGTERM; if the leader does not end *)
(* in its grace, the group gets SIGKILL.                                   *)
Terminate ==
    /\ At("stopping") /\ Goes("grace", worker.why) /\ Signal(FALSE)
    /\ UNCHANGED <<record, status, event>> /\ Others

LeaderWaited ==
    /\ At("grace") /\ leader # "running" /\ Goes("draining", worker.why) /\ leader' = Wait
    /\ UNCHANGED <<member, other, record, status, event>> /\ Others

GraceEnds ==
    /\ At("grace") /\ leader = "running" /\ Signal(TRUE) /\ UNCHANGED worker
    /\ UNCHANGED <<record, status, event>> /\ Others

(* communicate() of what was stopped.  While one of the group holds the    *)
(* pipes it times out twice, and raises what is no JobCancelled; the       *)
(* process.kill() in between finds a leader that was waited for.           *)
Drained ==
    /\ At("draining")
    /\ \/ PipesClosed /\ Goes("clearing", worker.why)
       \/ ~PipesClosed /\ Goes("clearing", IF worker.why = "cancelled" THEN "raised kept" ELSE "raised")
    /\ UNCHANGED <<kernel, record, status, event>> /\ Others

(* The finally: the record of a cancelled command is left to the canceller.*)
ClearRecord ==
    /\ At("clearing") /\ Goes("finishing", worker.why)
    /\ record' = IF worker.why \in {"cancelled", "raised kept"} THEN record ELSE "none"
    /\ UNCHANGED <<kernel, status, event>> /\ Others

(* _execute settles the job by what the runner returned or raised.         *)
Settle ==
    /\ At("finishing") /\ Goes("ended", worker.why)
    /\ status' = Finalized(CASE worker.why = "none" -> IF event THEN "cancelled" ELSE "completed"
                             [] worker.why = "cancelled" -> "cancelled"
                             [] OTHER -> "failed")
    /\ UNCHANGED <<kernel, record, event>> /\ Others

-----------------------------------------------------------------------------
(* cancel(), with _terminate_process_group.                                *)

CancellerAt(place) == up /\ canceller = place
ThenCancels(place) == canceller' = place /\ UNCHANGED <<outcome, worker, up, crashes>>

Cancel ==
    /\ CancellerAt("idle") /\ status = "running" /\ status' = "stopping"
    /\ ThenCancels("signal") /\ UNCHANGED <<kernel, record, event>>

SetEvent ==
    /\ CancellerAt("signal") /\ event' = TRUE
    /\ ThenCancels("look") /\ UNCHANGED <<kernel, record, status>>

(* gone(): a zombie, or no process has the number.  ps may not answer.     *)
MayBeGone == leader = "zombie" \/ (leader = "waited" /\ ~other)
MayBeAlive == leader # "waited" \/ other

(* Without a record nothing is killed, nor with a foreign identity.        *)
Look ==
    /\ CancellerAt("look")
    /\ \/ record = "none" /\ ThenCancels("settle") /\ UNCHANGED record
       \/ record # "none" /\ MayBeGone /\ ThenCancels("settle") /\ record' = "none"
       \/ record = "named" /\ MayBeAlive /\ other /\ ThenCancels("settle") /\ UNCHANGED record
       \/ record # "none" /\ MayBeAlive /\ ThenCancels("kill") /\ UNCHANGED record
    /\ UNCHANGED <<kernel, status, event>>

CancelKills ==
    /\ \/ CancellerAt("kill") /\ Signal(FALSE) /\ ThenCancels("grace")
       \/ CancellerAt("grace") /\ Signal(TRUE) /\ ThenCancels("killed")
    /\ UNCHANGED <<record, status, event>>

KillSeen ==
    /\ \/ (CancellerAt("grace") \/ CancellerAt("killed")) /\ MayBeGone /\ record' = "none"
       \/ CancellerAt("killed") /\ MayBeAlive /\ UNCHANGED record
    /\ ThenCancels("settle") /\ UNCHANGED <<kernel, status, event>>

(* Error: a worker that did not record its process yet counts as gone.     *)
CancelSettlesByRecord ==
    /\ CancellerAt("settle")
    /\ status' = CASE status # "stopping" -> status
                   [] status = "stopping" /\ record # "none" -> "needs_recovery"
                   [] OTHER -> Finalized("cancelled")
    /\ ThenCancels("done") /\ UNCHANGED <<kernel, record, event>>

(* What it waited for, or its deadline, has come.                          *)
CancelSettles ==
    /\ CancellerAt("settle")
    /\ status' = CASE status # "stopping" -> status
                   [] status = "stopping" /\ (WorkerAlive \/ record # "none") -> "needs_recovery"
                   [] OTHER -> Finalized("cancelled")
    /\ ThenCancels("done") /\ UNCHANGED <<kernel, record, event>>

-----------------------------------------------------------------------------
(* The death of the server, and _recover_interrupted_jobs of the next one. *)

Crash ==
    /\ up /\ crashes < MaxCrashes /\ crashes' = crashes + 1 /\ up' = FALSE
    /\ worker' = IF WorkerAlive THEN [at |-> "ended", why |-> "died"] ELSE worker
    /\ canceller' = "done" /\ event' = FALSE
    /\ leader' = Wait
    /\ UNCHANGED <<member, other, record, status, outcome>>

(* recover_process_record.                                                 *)
Recovered(result) ==
    /\ outcome' = result
    /\ CASE result = "none" -> record = "none" /\ UNCHANGED <<kernel, record>>
         [] result = "stale_removed" ->
              /\ record # "none" /\ leader = "waited" /\ (~other \/ record = "named")
              /\ record' = "none" /\ UNCHANGED kernel
         [] result = "terminated" ->
              /\ record = "named" /\ leader = "running" /\ record' = "none"
              /\ leader' = "waited" /\ member' = Stopped(member, MemberRuns, "gone") /\ UNCHANGED other
         [] OTHER -> record # "none" /\ MayBeAlive /\ UNCHANGED <<kernel, record>>

Restart ==
    /\ ~up /\ up' = TRUE
    /\ IF status \in {"running", "stopping"}
       THEN /\ \E result \in {"none", "stale_removed", "terminated", "uncertain"} : Recovered(result)
            /\ \E traces \in BOOLEAN :
                  status' = IF status = "stopping" \/ traces THEN "needs_recovery" ELSE "interrupted"
       ELSE UNCHANGED <<kernel, record, status, outcome>>
    /\ UNCHANGED <<event, worker, canceller, crashes>>

Processes == Fork \/ LeaderExits \/ MemberExits \/ MemberCloses \/ NumberTaken
Runner ==
    \/ Refuse \/ Enter \/ Popen \/ WriteRecord \/ Communicated \/ Polled
    \/ Terminate \/ LeaderWaited \/ GraceEnds \/ Drained \/ ClearRecord \/ Settle
Canceller == Cancel \/ SetEvent \/ Look \/ CancelKills \/ KillSeen \/ CancelSettles

Next == Processes \/ Runner \/ Canceller \/ Crash \/ Restart
Spec == Init /\ [][Next]_vars

-----------------------------------------------------------------------------
(* The command runs only as long as the job does.  It may outlive a job    *)
(* that is reported as needs_recovery, and one whose server died when the  *)
(* next one found no record or could not tell (it says so in               *)
(* process_record_outcome), and one whose record could not be written; it  *)
(* never outlives a completion, a cancellation or a limit, however a       *)
(* canceller, a worker and the end of the command meet (jobs.py:965-1017,  *)
(* 1137-1175, 385-404).                                                    *)
LeaderAccountedFor ==
    leader = "running" =>
        \/ status \in {"running", "stopping"} \/ outcome \in {"none", "uncertain"}
        \/ status = "needs_recovery" /\ outcome = ""
        \/ worker.why = "unrecorded"

(* A worker that stopped its command stopped all of its group              *)
(* (_graceful_terminate: "process group, including descendants").  The     *)
(* code escalates by the leader alone: a descendant that ignores SIGTERM   *)
(* outlives a leader that does not.                                        *)
TerminatedGroupGone ==
    worker.at = "ended" /\ worker.why \in {"cancelled", "limit", "raised", "raised kept"}
        => ~MemberRuns
=============================================================================
