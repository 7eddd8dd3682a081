------------------------------ MODULE Executor ------------------------------
(***************************************************************************)
(* How the server runs the commands of a repository (modou/executor.py):   *)
(* threads run commands at the same time, each in a process group of its   *)
(* own with a record of its leader; a command that takes too long, or too  *)
(* much, is killed with its group; a server that starts again looks for    *)
(* what the last one left.                                                 *)
(*                                                                         *)
(* The kernel is modelled as far as the code uses it: a process identifier *)
(* is given again once no process and no group has it; a process that ends *)
(* is a zombie until its parent waits for it; the children of one that     *)
(* ended become the server's (it is a subreaper), or, while the server is  *)
(* down, are waited for at once; waitpid(-1) takes any child that ended,   *)
(* and the Popen whose child was taken reports status 0.  A process may    *)
(* fork one into its group or into a session of its own; each holds the    *)
(* pipes of its command.                                                   *)
(***************************************************************************)
EXTENDS Integers

CONSTANTS
    Runners,          \* the threads that run commands
    Pids,             \* bound: the process identifiers
    MaxBorn,          \* bound: processes ever started
    MaxCrashes        \* bound: crashes of the server

VARIABLES
    procs,        \* pid -> the process that has it, or None
    born,         \* processes started so far; also the identity of the last
    runner,       \* runner -> what it is doing
    record,       \* runner -> the process record on disk, and the command of the
                  \* process its identity names
    server,       \* "up" or "down"
    asking,       \* while it starts: the runners whose records it has not asked
    crashes,
    failed,       \* the commands whose leader did not end well
    stray         \* who killed a process that was not of its command

vars == <<procs, born, runner, record, server, asking, crashes, failed, stray>>

None == [born |-> 0, cmd |-> 0, group |-> 0, child |-> FALSE, state |-> "none", ok |-> FALSE]
Idle == [at |-> "idle", pid |-> 0, cmd |-> 0, code |-> "none"]
NoRecord == [pid |-> 0, identity |-> 0, cmd |-> 0]

Init ==
    /\ procs = [p \in Pids |-> None] /\ born = 0
    /\ runner = [r \in Runners |-> Idle]
    /\ record = [r \in Runners |-> NoRecord]
    /\ server = "up" /\ asking = {} /\ crashes = 0 /\ failed = {} /\ stray = {}

Free(p) == \A q \in Pids : procs[q].group # p /\ (q = p => procs[q] = None)
Running(p) == procs[p].state = "running"
GroupOf(g) == {p \in Pids : procs[p].group = g /\ Running(p)}
PipesClosed(r) == \A p \in Pids : Running(p) => procs[p].cmd # runner[r].cmd
At(r, place) == server = "up" /\ runner[r].at = place
Go(r, place) == runner' = [runner EXCEPT ![r].at = place]

(* What is left when processes end: their children are the server's now;   *)
(* of the server's children a zombie stays, of the others nothing.         *)
Leader(p) == procs[p].cmd = procs[p].born
Ended(dying, ok) ==
    [p \in Pids |->
        LET inherited == procs[p].child \/
                (server = "up" /\ \E q \in dying : procs[q].born = procs[p].cmd)
        IN  IF p \notin dying THEN [procs[p] EXCEPT !.child = inherited]
            ELSE IF inherited
                 THEN [procs[p] EXCEPT !.child = TRUE, !.state = "zombie", !.ok = ok]
                 ELSE None]
FailedBy(dying, ok) == {procs[p].cmd : p \in {q \in dying : Leader(q) /\ ~ok}}

-----------------------------------------------------------------------------
(* The processes of the repository.                                        *)

Fork(p, q, own) ==
    /\ Running(p) /\ Leader(p) /\ Free(q) /\ born < MaxBorn
    /\ born' = born + 1
    /\ procs' = [procs EXCEPT ![q] =
           [None EXCEPT !.born = born + 1, !.cmd = procs[p].cmd, !.state = "running",
                        !.group = IF own THEN q ELSE procs[p].group]]
    /\ UNCHANGED <<runner, record, server, asking, crashes, failed, stray>>

Exit(p, ok) ==
    /\ Running(p) /\ procs' = Ended({p}, ok) /\ failed' = failed \cup FailedBy({p}, ok)
    /\ UNCHANGED <<born, runner, record, server, asking, crashes, stray>>

-----------------------------------------------------------------------------
(* _run_with_process_group.                                                *)

Spawn(r, p) ==
    /\ At(r, "idle") /\ Free(p) /\ born < MaxBorn
    /\ born' = born + 1
    /\ procs' = [procs EXCEPT ![p] = [born |-> born + 1, cmd |-> born + 1, group |-> p,
                                      child |-> TRUE, state |-> "running", ok |-> FALSE]]
    /\ runner' = [runner EXCEPT ![r] = [at |-> "spawned", pid |-> p, cmd |-> born + 1,
                                        code |-> "none"]]
    /\ UNCHANGED <<record, server, asking, crashes, failed, stray>>

(* _write_process_record; the identity is empty when ps does not answer.   *)
WriteRecord(r, identity) ==
    /\ At(r, "spawned") /\ identity \in {0, procs[runner[r].pid].born}
    /\ record' = [record EXCEPT ![r] = [pid |-> runner[r].pid, identity |-> identity,
                                       cmd |-> procs[runner[r].pid].cmd]]
    /\ Go(r, "polling")
    /\ UNCHANGED <<procs, born, server, asking, crashes, failed, stray>>

(* killpg on the identifier of the leader, whoever has it now.             *)
Kill(g, cmd, who) ==
    /\ procs' = Ended(GroupOf(g), FALSE) /\ failed' = failed \cup FailedBy(GroupOf(g), FALSE)
    /\ stray' = IF \E p \in GroupOf(g) : procs[p].cmd # cmd THEN stray \cup {who} ELSE stray

(* Popen.poll and wait: the status of the child, or 0 where it is gone.    *)
IsZombie(r) == LET p == procs[runner[r].pid] IN p.born = runner[r].cmd /\ p.state = "zombie"
Waited(r) ==
    IF IsZombie(r) THEN [procs EXCEPT ![runner[r].pid] = None] ELSE procs
Code(r) == IF IsZombie(r) /\ ~procs[runner[r].pid].ok THEN "failed" ELSE "ok"
Done(r, code) == runner' = [runner EXCEPT ![r].at = "done", ![r].code = code]
ClearRecord(r) == record' = [record EXCEPT ![r] = NoRecord]

(* The pipes are closed and the leader has ended.                          *)
Finish(r) ==
    /\ At(r, "polling") /\ PipesClosed(r)
    /\ procs' = Waited(r) /\ Done(r, Code(r)) /\ ClearRecord(r)
    /\ UNCHANGED <<born, server, asking, crashes, failed, stray>>

(* terminate(): the time, the memory, the processes, the files or the      *)
(* output are beyond their limit.  A record that cannot be written has the *)
(* group killed too, but nothing is reaped or cleared.                     *)
Terminate(r) ==
    /\ At(r, "polling") /\ Go(r, "killed")
    /\ Kill(runner[r].pid, runner[r].cmd, "limit")
    /\ UNCHANGED <<born, record, server, asking, crashes>>

RecordFails(r) ==
    /\ At(r, "spawned") /\ Go(r, "abandoned")
    /\ Kill(runner[r].pid, runner[r].cmd, "limit")
    /\ UNCHANGED <<born, record, server, asking, crashes>>

WaitKilled(r) ==
    /\ \/ At(r, "killed") /\ Go(r, "reaping")
       \/ At(r, "abandoned") /\ Done(r, "error")
    /\ procs' = Waited(r)
    /\ UNCHANGED <<born, record, server, asking, crashes, failed, stray>>

(* _reap_linux_orphans: any child that has ended, then finish_output.      *)
Reap(r, p) ==
    /\ At(r, "reaping") /\ procs[p].state = "zombie" /\ procs[p].child
    /\ procs' = [procs EXCEPT ![p] = None]
    /\ UNCHANGED <<born, runner, record, server, asking, crashes, failed, stray>>

Drain(r) ==
    /\ At(r, "reaping") /\ PipesClosed(r)
    /\ Done(r, "limit") /\ ClearRecord(r)
    /\ UNCHANGED <<procs, born, server, asking, crashes, failed, stray>>

Answered(r) ==
    /\ At(r, "done") /\ runner' = [runner EXCEPT ![r] = Idle]
    /\ UNCHANGED <<procs, born, record, server, asking, crashes, failed, stray>>

-----------------------------------------------------------------------------
(* A crash of the server leaves its commands running; the next server asks *)
(* each record before it answers anybody.                                  *)

Crash ==
    /\ server = "up" /\ crashes < MaxCrashes /\ crashes' = crashes + 1
    /\ server' = "down" /\ runner' = [r \in Runners |-> Idle]
    /\ asking' = {r \in Runners : record[r] # NoRecord}
    /\ procs' = [p \in Pids |-> IF procs[p].state = "zombie" THEN None
                                ELSE [procs[p] EXCEPT !.child = FALSE]]
    /\ UNCHANGED <<born, record, failed, stray>>

(* recover_process_record.  ps may not answer, and a record without an     *)
(* identity says nothing: it is left where it is.                          *)
Found(r) == procs[record[r].pid]
MatchesNumber(r) == Found(r).state = "running"
Matches(r) == Found(r).born = record[r].identity

Asked(r) == asking' = asking \ {r}
Recover(r) ==
    /\ server = "down" /\ r \in asking /\ Asked(r)
    /\ \/ /\ Found(r) = None /\ ClearRecord(r) /\ UNCHANGED <<procs, failed, stray>>
       \/ /\ Found(r) # None /\ UNCHANGED <<record, procs, failed, stray>>
       \/ /\ Found(r) # None /\ record[r].identity # 0 /\ ClearRecord(r)
          /\ IF Matches(r) THEN Kill(record[r].pid, record[r].cmd, "recovery")
                           ELSE UNCHANGED <<procs, failed, stray>>
    /\ UNCHANGED <<born, runner, server, crashes>>

Start ==
    /\ server = "down" /\ asking = {} /\ server' = "up"
    /\ UNCHANGED <<procs, born, runner, record, crashes, failed, stray, asking>>

Next ==
    \/ \E p, q \in Pids, own \in BOOLEAN : Fork(p, q, own)
    \/ \E p \in Pids, ok \in BOOLEAN : Exit(p, ok)
    \/ \E r \in Runners, p \in Pids : Spawn(r, p) \/ Reap(r, p)
    \/ \E r \in Runners, identity \in 0..MaxBorn : WriteRecord(r, identity)
    \/ \E r \in Runners : Finish(r) \/ Terminate(r) \/ RecordFails(r) \/ WaitKilled(r) \/ Drain(r)
                          \/ Answered(r) \/ Recover(r)
    \/ Crash \/ Start

Spec == Init /\ [][Next]_vars

-----------------------------------------------------------------------------
(* No kill of the recovery reaches a process of another command than the   *)
(* record names, though identifiers are given again while the server is    *)
(* down: the identity decides (executor.py:128-133, 151-157).  That the    *)
(* record names the runner's own command is another matter: a leader that  *)
(* another runner reaped may have a successor before the record is made.   *)
RecoveryHitsOwn == "recovery" \notin stray

(* When the answer of a killed command is given, nothing of its group runs *)
(* any more, whatever it forked and whoever was reaped meanwhile           *)
(* (executor.py:194-202, 366-373).                                         *)
KilledGroupIsGone ==
    \A r \in Runners : runner[r].code \in {"limit", "error"} =>
        \A p \in Pids : Running(p) => procs[p].cmd # runner[r].cmd \/ procs[p].group # runner[r].pid

KillIsExact == RecoveryHitsOwn /\ KilledGroupIsGone
=============================================================================
