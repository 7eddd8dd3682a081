-------------------------- MODULE JobProcessProofs --------------------------
(* Proofs about JobProcess, for any number of deaths of the server, and    *)
(* about the Executor that runs the commands.                              *)
EXTENDS JobProcess, Commands, TLAPS, Integers

Places == {"enter", "starting", "spawned", "polling", "stopping", "grace", "draining",
           "clearing", "finishing", "ended"}
Whys == {"none", "refused", "unrecorded", "died", "cancelled", "limit", "raised", "raised kept"}

(* Every variable the argument needs stays in the set jobs.py gives it.    *)
TypeOK ==
    /\ leader \in {"none", "running", "zombie", "waited"}
    /\ status \in {"running", "stopping", "completed", "cancelled", "failed",
                   "needs_recovery", "interrupted"}
    /\ worker \in [at : Places, why : Whys]

(* A worker that lives is the one of a job nobody finalized.               *)
WorkingJob ==
    WorkerAlive => up /\ outcome = "" /\ status \in {"running", "stopping", "needs_recovery"}

(* A worker does not leave its job running or stopping, unless it dies     *)
(* with the server.                                                        *)
NothingAbandoned == up /\ ~WorkerAlive => status \notin {"running", "stopping"}

(* There is no command before Popen, and none that runs once its pipes     *)
(* were read to the end or it was waited for.                              *)
CommandByPlace ==
    /\ worker.at \in {"enter", "starting"} => leader = "none"
    /\ worker.at \in {"draining", "clearing", "finishing"} => leader # "running"

IInv == TypeOK /\ WorkingJob /\ NothingAbandoned /\ CommandByPlace /\ LeaderAccountedFor

(* A job begins accounted for.                                            *)
LEMMA Initially == Init => IInv
<1> SUFFICES ASSUME Init PROVE IInv
  OBVIOUS
<1>1. TypeOK BY DEF Init, TypeOK, Places, Whys
<1>2. WorkingJob BY DEF Init, WorkingJob
<1>3. NothingAbandoned BY DEF Init, NothingAbandoned, WorkerAlive
<1>4. CommandByPlace BY DEF Init, CommandByPlace
<1>5. LeaderAccountedFor BY DEF Init, LeaderAccountedFor
<1>6. QED BY <1>1, <1>2, <1>3, <1>4, <1>5 DEF IInv

(* _finalize answers with a status that is neither running nor stopping,   *)
(* and does not touch a job that was given up.                             *)
LEMMA FinalizedEnds ==
    ASSUME TypeOK, NEW wanted \in {"completed", "cancelled", "failed"}
    PROVE  /\ Finalized(wanted) \in {"completed", "cancelled", "failed", "needs_recovery", "interrupted"}
           /\ status = "needs_recovery" => Finalized(wanted) = "needs_recovery"
BY DEF TypeOK, Finalized

(* What the processes do leaves the job alone and starts no leader.        *)
LEMMA ProcessesKeep == ASSUME IInv, Processes PROVE IInv'
<1> USE DEF IInv, TypeOK, WorkingJob, NothingAbandoned, CommandByPlace, LeaderAccountedFor,
            WorkerAlive, Unmoved
<1>1. CASE Fork BY <1>1 DEF Fork
<1>2. CASE LeaderExits BY <1>2 DEF LeaderExits
<1>3. CASE MemberExits BY <1>3 DEF MemberExits
<1>4. CASE MemberCloses BY <1>4 DEF MemberCloses
<1>5. CASE NumberTaken BY <1>5 DEF NumberTaken
<1>6. QED BY <1>1, <1>2, <1>3, <1>4, <1>5 DEF Processes

(* A signal ends a leader that runs, or leaves it as it is.                *)
LEMMA SignalStartsNothing ==
    ASSUME TypeOK, NEW sure \in BOOLEAN, Signal(sure)
    PROVE  leader' = leader \/ (leader = "running" /\ leader' = "zombie")
BY DEF Signal, Stopped

(* The worker ends its job only after its command, or says why it cannot.  *)
LEMMA RunnerKeeps == ASSUME IInv, Runner PROVE IInv'
<1> USE DEF IInv, TypeOK, Places, Whys, WorkingJob, NothingAbandoned, CommandByPlace,
            LeaderAccountedFor, WorkerAlive, At, Goes, Others, kernel
<1>1. CASE Refuse BY <1>1, FinalizedEnds DEF Refuse
<1>2. CASE Enter BY <1>2 DEF Enter
<1>3. CASE Popen BY <1>3 DEF Popen
<1>4. CASE WriteRecord
  <2>1. UNCHANGED <<leader, outcome>> /\ up /\ up' /\ WorkerAlive
    BY <1>4 DEF WriteRecord
  <2>2. CASE Goes("polling", "none") /\ UNCHANGED status
    BY <2>1, <2>2
  <2>3. CASE Goes("ended", "unrecorded") /\ status' = Finalized("failed")
    BY <2>1, <2>3, FinalizedEnds
  <2>4. QED BY <1>4, <2>2, <2>3 DEF WriteRecord
<1>5. CASE Communicated
  <2>1. leader' # "running" /\ leader' \in {"none", "zombie", "waited"}
    BY <1>5 DEF Communicated, PipesClosed, Wait
  <2>2. UNCHANGED <<status, outcome>> /\ up /\ up'
    BY <1>5 DEF Communicated
  <2>3. PICK place \in {"stopping", "clearing"}, why \in {"cancelled", "none"} : Goes(place, why)
    BY <1>5 DEF Communicated
  <2>4. WorkerAlive
    BY <1>5 DEF Communicated
  <2>5. QED BY <2>1, <2>2, <2>3, <2>4
<1>6. CASE Polled BY <1>6 DEF Polled
<1>7. CASE Terminate BY <1>7, SignalStartsNothing DEF Terminate
<1>8. CASE LeaderWaited BY <1>8 DEF LeaderWaited, Wait
<1>9. CASE GraceEnds BY <1>9, SignalStartsNothing DEF GraceEnds
<1>10. CASE Drained
  <2>1. UNCHANGED <<leader, status, outcome>> /\ up /\ up' /\ leader # "running" /\ WorkerAlive
    BY <1>10 DEF Drained
  <2>2. PICK why \in {worker.why, "raised", "raised kept"} : Goes("clearing", why)
    BY <1>10 DEF Drained
  <2>3. QED BY <2>1, <2>2
<1>11. CASE ClearRecord BY <1>11 DEF ClearRecord
<1>12. CASE Settle
  <2>1. \E wanted \in {"completed", "cancelled", "failed"} : status' = Finalized(wanted)
    BY <1>12 DEF Settle
  <2>2. status' \in {"completed", "cancelled", "failed", "needs_recovery", "interrupted"}
    BY <2>1, FinalizedEnds
  <2>3. leader' = leader /\ leader # "running" /\ outcome' = outcome /\ up' = up
    BY <1>12 DEF Settle
  <2>4. worker' = [at |-> "ended", why |-> worker.why]
    BY <1>12 DEF Settle
  <2>5. QED BY <2>2, <2>3, <2>4
<1>13. QED
  BY <1>1, <1>2, <1>3, <1>4, <1>5, <1>6, <1>7, <1>8, <1>9, <1>10, <1>11, <1>12 DEF Runner

(* A canceller ends a job only when its worker has: then there is nothing  *)
(* left to end.                                                            *)
LEMMA CancellerKeeps == ASSUME IInv, Canceller PROVE IInv'
<1> USE DEF IInv, TypeOK, Places, Whys, WorkingJob, NothingAbandoned, CommandByPlace,
            LeaderAccountedFor, WorkerAlive, CancellerAt, ThenCancels, kernel
<1>1. CASE Cancel BY <1>1 DEF Cancel
<1>2. CASE SetEvent BY <1>2 DEF SetEvent
<1>3. CASE Look BY <1>3 DEF Look
<1>4. CASE CancelKills BY <1>4, SignalStartsNothing DEF CancelKills
<1>5. CASE KillSeen BY <1>5 DEF KillSeen
<1>6. CASE CancelSettles
  <2>1. status = "stopping" => WorkerAlive
    BY <1>6 DEF CancelSettles
  <2>2. status' = IF status = "stopping" THEN "needs_recovery" ELSE status
    BY <1>6, <2>1 DEF CancelSettles
  <2>3. UNCHANGED <<leader, outcome, worker, up>>
    BY <1>6 DEF CancelSettles
  <2>4. QED BY <2>1, <2>2, <2>3
<1>7. QED BY <1>1, <1>2, <1>3, <1>4, <1>5, <1>6 DEF Canceller

(* A death of the server leaves the job as it was, for the next one.       *)
LEMMA CrashKeeps == ASSUME IInv, Crash PROVE IInv'
BY DEF IInv, TypeOK, Places, Whys, WorkingJob, NothingAbandoned, CommandByPlace,
       LeaderAccountedFor, WorkerAlive, Crash, Wait

(* The next server finds no command that runs, or says it cannot tell.     *)
LEMMA RestartKeeps == ASSUME IInv, Restart PROVE IInv'
<1> USE DEF IInv, TypeOK, Places, Whys, WorkingJob, NothingAbandoned, CommandByPlace,
            LeaderAccountedFor, WorkerAlive
<1>1. ~WorkerAlive /\ worker' = worker /\ up' = TRUE
  BY DEF Restart
<1>2. CASE status \in {"running", "stopping"}
  <2>1. PICK result \in {"none", "stale_removed", "terminated", "uncertain"} : Recovered(result)
    BY <1>2 DEF Restart
  <2>2. status' \in {"needs_recovery", "interrupted"}
    BY <1>2 DEF Restart
  <2>3. outcome' = result
    BY <2>1 DEF Recovered
  <2>4. \/ result \in {"none", "uncertain"} /\ leader' = leader
        \/ leader' = "waited"
    BY <2>1 DEF Recovered, kernel
  <2>5. QED BY <1>1, <2>2, <2>3, <2>4
<1>3. CASE status \notin {"running", "stopping"}
  BY <1>1, <1>3 DEF Restart, kernel
<1>4. QED BY <1>2, <1>3

(* The invariant the accounting of the command rests on.                   *)
THEOREM Invariance == Spec => []IInv
<1>1. ASSUME IInv, [Next]_vars PROVE IInv'
  <2>1. CASE UNCHANGED vars
    BY <1>1, <2>1 DEF vars, kernel, IInv, TypeOK, WorkingJob, NothingAbandoned, CommandByPlace,
                      LeaderAccountedFor, WorkerAlive
  <2>2. QED
    BY <1>1, <2>1, ProcessesKeep, RunnerKeeps, CancellerKeeps, CrashKeeps, RestartKeeps DEF Next
<1>2. QED BY <1>1, Initially, PTL DEF Spec

(* A command runs only as long as its job does, or the record says that    *)
(* nobody knows, for any number of deaths of the server.                   *)
THEOREM CommandIsAccountedFor == Spec => []LeaderAccountedFor
<1>1. IInv => LeaderAccountedFor
  BY DEF IInv
<1>2. QED BY <1>1, Invariance, PTL

-----------------------------------------------------------------------------
(* The executor that runs the commands (Executor), for any number of       *)
(* threads, process identifiers, processes and deaths of the server.       *)

Process ==
    [born : Nat, cmd : Nat, group : Pids \cup {0}, child : BOOLEAN, state : {"none", "running", "zombie"},
     ok : BOOLEAN]
RunnerPlaces == {"idle", "spawned", "polling", "killed", "abandoned", "reaping", "done"}

(* Every variable keeps its type.                                          *)
ExecutorTypeOK ==
    /\ procs \in [Pids -> Process] /\ started \in Nat
    /\ runner \in [Runners -> [at : RunnerPlaces, pid : Pids \cup {0}, cmd : Nat,
                               code : {"none", "ok", "failed", "limit", "error"}]]
    /\ note \in [Runners -> [pid : Pids \cup {0}, identity : Nat, cmd : Nat]]

Present(p) == procs[p].born # 0

(* A process is told from the others by its number of birth; the leader of *)
(* a command leads a group; and a group is of one command.                 *)
Births ==
    \A p \in Pids : procs[p].born <= started /\ procs[p].cmd <= started /\ (X!Running(p) => Present(p))
Unique == \A p, q \in Pids : Present(p) /\ procs[p].born = procs[q].born => p = q
LeadersLead == \A p \in Pids : Present(p) /\ X!Leader(p) => procs[p].group = p
OneCommand ==
    \A p, q \in Pids : Present(p) /\ Present(q) /\ (procs[p].group = procs[q].group \/ procs[p].group = q)
        => procs[p].cmd = procs[q].cmd

ProcessesSound == Births /\ Unique /\ LeadersLead /\ OneCommand

(* An identity on record is that of a process of the command on record.    *)
NoteSound(r) ==
    note[r].identity # 0 =>
        /\ note[r].pid \in Pids /\ note[r].identity <= started
        /\ \A p \in Pids : procs[p].born = note[r].identity => procs[p].cmd = note[r].cmd

(* The leader of a runner's command is where it was started.               *)
LeaderKnown(r) ==
    runner[r].at # "idle" =>
        /\ runner[r].pid \in Pids /\ runner[r].cmd > 0 /\ runner[r].cmd <= started
        /\ \A p \in Pids : procs[p].born = runner[r].cmd => p = runner[r].pid /\ X!Leader(p)

(* What runs on of a killed command left its group, and cannot fork.       *)
GroupKilled(r) ==
    \A p \in Pids : X!Running(p) /\ procs[p].cmd = runner[r].cmd =>
        procs[p].group # runner[r].pid /\ ~X!Leader(p)
Killed(r) == runner[r].at \in {"killed", "abandoned", "reaping"} \/ runner[r].code \in {"limit", "error"}

(* The inductive invariant.                                                *)
ExecutorIInv ==
    /\ ExecutorTypeOK /\ ProcessesSound
    /\ \A r \in Runners :
          /\ NoteSound(r) /\ LeaderKnown(r) /\ (Killed(r) => GroupKilled(r))
          /\ runner[r].code # "none" => runner[r].at = "done"
    /\ X!RecoveryHitsOwn

(* A process identifier that nobody has.                                   *)
LEMMA NothingIsNone ==
    /\ X!None \in Process /\ X!None.born = 0 /\ X!None.cmd = 0 /\ X!None.group = 0
    /\ X!None.state = "none"
  BY DEF X!None, Process

(* Processes that end keep their numbers or are gone.                      *)
LEMMA EndedKeeps ==
    ASSUME ExecutorTypeOK, NEW dying \in SUBSET Pids, NEW ok \in BOOLEAN
    PROVE  LET after == X!Ended(dying, ok) IN
           /\ after \in [Pids -> Process]
           /\ \A p \in Pids :
                 /\ \/ after[p] = X!None
                    \/ /\ after[p].born = procs[p].born /\ after[p].cmd = procs[p].cmd
                       /\ after[p].group = procs[p].group
                       /\ after[p].state = "running" => procs[p].state = "running"
                 /\ p \in dying => after[p].state # "running"
<1> DEFINE after == X!Ended(dying, ok)
<1>1. ASSUME NEW p \in Pids
      PROVE  /\ after[p] \in Process
             /\ \/ after[p] = X!None
                \/ /\ after[p].born = procs[p].born /\ after[p].cmd = procs[p].cmd
                   /\ after[p].group = procs[p].group
                   /\ after[p].state = "running" => procs[p].state = "running"
             /\ p \in dying => after[p].state # "running"
  <2> DEFINE inherited == procs[p].child \/
                 (server = "up" /\ \E q \in dying : procs[q].born = procs[p].cmd)
             old == procs[p]
  <2>1. after[p] = IF p \notin dying THEN [old EXCEPT !.child = inherited]
                   ELSE IF inherited THEN [old EXCEPT !.child = TRUE, !.state = "zombie", !.ok = ok]
                   ELSE X!None
    BY DEF X!Ended
  <2>2. old \in Process
    BY DEF ExecutorTypeOK
  <2>3. inherited \in BOOLEAN
    <3>1. procs[p].child \in BOOLEAN
      BY <2>2 DEF Process
    <3> QED  BY <3>1, Zenon
  <2> HIDE DEF inherited, old, after
  <2>4. [old EXCEPT !.child = inherited] \in Process
    BY <2>2, <2>3 DEF Process
  <2>5. /\ [old EXCEPT !.child = inherited].born = old.born
        /\ [old EXCEPT !.child = inherited].cmd = old.cmd
        /\ [old EXCEPT !.child = inherited].group = old.group
        /\ [old EXCEPT !.child = inherited].state = old.state
    BY <2>2 DEF Process
  <2> DEFINE b == [old EXCEPT !.child = TRUE]  d == [b EXCEPT !.state = "zombie"]  z == [d EXCEPT !.ok = ok]
  <2>6. b \in Process /\ b.born = old.born /\ b.cmd = old.cmd /\ b.group = old.group
    BY <2>2 DEF Process
  <2>7. z = [old EXCEPT !.child = TRUE, !.state = "zombie", !.ok = ok]
    OBVIOUS
  <2> HIDE DEF b
  <2>8. d \in Process /\ d.born = old.born /\ d.cmd = old.cmd /\ d.group = old.group /\ d.state = "zombie"
    BY <2>6 DEF Process
  <2> HIDE DEF d
  <2>9. z \in Process /\ z.born = old.born /\ z.cmd = old.cmd /\ z.group = old.group /\ z.state = "zombie"
    BY <2>8 DEF Process
  <2> HIDE DEF z
  <2> QED  BY <2>1, <2>4, <2>5, <2>7, <2>9, NothingIsNone DEF old
<1>2. after \in [Pids -> Process]
  <2>1. after = [p \in Pids |-> after[p]]
    BY DEF X!Ended
  <2> HIDE DEF after
  <2> QED  BY <1>1, <2>1
<1> QED  BY <1>1, <1>2

(* No process starts and none changes its numbers.                         *)
Fewer ==
    /\ started' = started
    /\ \A p \in Pids :
          \/ procs'[p] = X!None
          \/ /\ procs'[p].born = procs[p].born /\ procs'[p].cmd = procs[p].cmd
             /\ procs'[p].group = procs[p].group
             /\ procs'[p].state = "running" => procs[p].state = "running"

(* Fewer processes are as sound.                                           *)
LEMMA FewerSound ==
    ASSUME ExecutorIInv, Fewer PROVE ProcessesSound'
<1>1. \A p \in Pids : Present(p)' =>
         /\ Present(p) /\ procs'[p].born = procs[p].born /\ procs'[p].cmd = procs[p].cmd
         /\ procs'[p].group = procs[p].group
  BY NothingIsNone DEF Fewer, Present
<1>2. ASSUME NEW p \in Pids, procs'[p].state = "running" PROVE Present(p)'
  BY <1>2, NothingIsNone DEF Fewer, Present, ExecutorIInv, ProcessesSound, Births, X!Running
<1>3. \A p \in Pids : procs'[p].born <= started' /\ procs'[p].cmd <= started'
  BY NothingIsNone DEF Fewer, ExecutorIInv, ExecutorTypeOK, ProcessesSound, Births
<1>4. Births'
  BY <1>2, <1>3 DEF Births, X!Running
<1>5. Unique'
  BY <1>1 DEF Unique, Present, ExecutorIInv, ProcessesSound
<1>6. LeadersLead'
  BY <1>1 DEF LeadersLead, X!Leader, ExecutorIInv, ProcessesSound
<1>7. OneCommand'
  BY <1>1 DEF OneCommand, ExecutorIInv, ProcessesSound
<1> QED  BY <1>4, <1>5, <1>6, <1>7 DEF ProcessesSound

(* What is said of a thread and of its record stays true of fewer.         *)
LEMMA ThreadStays ==
    ASSUME ExecutorIInv, Fewer, NEW r \in Runners
    PROVE  /\ note'[r] = note[r] => NoteSound(r)'
           /\ /\ runner'[r].at # "idle" => runner[r].at # "idle"
              /\ runner'[r].pid = runner[r].pid /\ runner'[r].cmd = runner[r].cmd
              => LeaderKnown(r)' /\ (GroupKilled(r) => GroupKilled(r)')
<1>1. \A p \in Pids : procs'[p].born # 0 =>
         procs'[p].born = procs[p].born /\ procs'[p].cmd = procs[p].cmd /\ procs'[p].group = procs[p].group
  BY NothingIsNone DEF Fewer
<1>2. \A p \in Pids : procs'[p].state = "running" =>
         /\ procs[p].state = "running" /\ procs'[p].born = procs[p].born /\ procs'[p].cmd = procs[p].cmd
         /\ procs'[p].group = procs[p].group
  BY NothingIsNone DEF Fewer
<1>3. ASSUME note'[r] = note[r] PROVE NoteSound(r)'
  BY <1>1, <1>3 DEF NoteSound, ExecutorIInv, Fewer
<1>4. ASSUME runner'[r].at # "idle" => runner[r].at # "idle",
             runner'[r].pid = runner[r].pid, runner'[r].cmd = runner[r].cmd
      PROVE  LeaderKnown(r)' /\ (GroupKilled(r) => GroupKilled(r)')
  <2>1. LeaderKnown(r)'
    BY <1>1, <1>4 DEF LeaderKnown, X!Leader, ExecutorIInv, Fewer
  <2>2. GroupKilled(r) => GroupKilled(r)'
    BY <1>2, <1>4 DEF GroupKilled, X!Leader, X!Running
  <2> QED  BY <2>1, <2>2
<1> QED  BY <1>3, <1>4

(* A step after which there are fewer keeps the invariant, if its threads  *)
(* go on with their commands or are idle and its records are sound.        *)
LEMMA FewerStep ==
    ASSUME ExecutorIInv, Fewer, ExecutorTypeOK', X!RecoveryHitsOwn',
           \A r \in Runners :
              /\ note'[r] = note[r] \/ NoteSound(r)'
              /\ \/ runner'[r] = X!Idle
                 \/ /\ runner'[r].at # "idle" => runner[r].at # "idle"
                    /\ runner'[r].pid = runner[r].pid /\ runner'[r].cmd = runner[r].cmd
                    /\ Killed(r)' => Killed(r) \/ GroupKilled(r)'
                    /\ runner'[r].code # "none" => runner'[r].at = "done"
    PROVE  ExecutorIInv'
<1>1. ProcessesSound'
  BY FewerSound
<1>2. ASSUME NEW r \in Runners
      PROVE  /\ NoteSound(r)' /\ LeaderKnown(r)' /\ (Killed(r)' => GroupKilled(r)')
             /\ runner'[r].code # "none" => runner'[r].at = "done"
  <2>1. NoteSound(r)'
    BY ThreadStays
  <2>2. CASE runner'[r] = X!Idle
    <3>1. runner'[r].at = "idle" /\ runner'[r].code = "none"
      BY <2>2 DEF X!Idle
    <3> QED  BY <2>1, <3>1 DEF LeaderKnown, Killed
  <2>3. CASE ~(runner'[r] = X!Idle)
    <3>1. /\ runner'[r].at # "idle" => runner[r].at # "idle"
          /\ runner'[r].pid = runner[r].pid /\ runner'[r].cmd = runner[r].cmd
          /\ Killed(r)' => Killed(r) \/ GroupKilled(r)'
          /\ runner'[r].code # "none" => runner'[r].at = "done"
      BY <2>3
    <3>2. LeaderKnown(r)' /\ (GroupKilled(r) => GroupKilled(r)')
      BY <3>1, ThreadStays
    <3>3. Killed(r) => GroupKilled(r)
      BY DEF ExecutorIInv
    <3> QED  BY <2>1, <3>1, <3>2, <3>3
  <2> QED  BY <2>2, <2>3
<1> QED  BY <1>1, <1>2 DEF ExecutorIInv

(* The ways in which there are fewer: none changes, one is gone, some end. *)
LEMMA SameIsFewer ==
    ASSUME UNCHANGED <<procs, started>> PROVE Fewer
  BY DEF Fewer

(* One identifier is free again.                                           *)
LEMMA WithoutIsFewer ==
    ASSUME ExecutorTypeOK, UNCHANGED started, NEW p, procs' = procs \/ procs' = [procs EXCEPT ![p] = X!None]
    PROVE  Fewer /\ procs' \in [Pids -> Process]
<1>1. procs \in [Pids -> Process]
  BY DEF ExecutorTypeOK
<1>2. procs' \in [Pids -> Process]
  BY <1>1, NothingIsNone
<1>3. \A q \in Pids : procs'[q] = procs[q] \/ procs'[q] = X!None
  BY <1>1
<1> QED  BY <1>2, <1>3 DEF Fewer

(* Some processes end.                                                     *)
LEMMA EndedIsFewer ==
    ASSUME ExecutorTypeOK, UNCHANGED started, NEW dying \in SUBSET Pids, NEW ok \in BOOLEAN,
           procs' = X!Ended(dying, ok)
    PROVE  Fewer /\ procs' \in [Pids -> Process] /\ \A p \in dying : procs'[p].state # "running"
  BY EndedKeeps DEF Fewer

(* A process ends by itself.                                               *)
LEMMA ExitStep ==
    ASSUME ExecutorIInv, NEW p \in Pids, NEW ok \in BOOLEAN, X!Exit(p, ok) PROVE ExecutorIInv'
<1>1. procs' = X!Ended({p}, ok) /\ UNCHANGED <<started, runner, note, stray>>
  BY DEF X!Exit
<1>2. Fewer /\ procs' \in [Pids -> Process]
  BY <1>1, EndedIsFewer DEF ExecutorIInv
<1>3. ExecutorTypeOK' /\ X!RecoveryHitsOwn'
  BY <1>1, <1>2 DEF ExecutorIInv, ExecutorTypeOK, X!RecoveryHitsOwn
<1>4. \A r \in Runners : (Killed(r)' <=> Killed(r)) /\ (runner'[r].code # "none" => runner'[r].at = "done")
  BY <1>1 DEF Killed, ExecutorIInv
<1> QED  BY <1>1, <1>2, <1>3, <1>4, FewerStep

(* A thread moves on, and processes are gone.                              *)
LEMMA ThreadMoves ==
    ASSUME ExecutorIInv, NEW r \in Runners, Fewer, procs' \in [Pids -> Process],
           runner[r].at # "idle",
           NEW at \in RunnerPlaces, NEW code \in {"none", "ok", "failed", "limit", "error"},
           runner' = [runner EXCEPT ![r] = [at |-> at, pid |-> runner[r].pid, cmd |-> runner[r].cmd,
                                            code |-> code]],
           code # "none" => at = "done",
           at \in {"killed", "abandoned", "reaping"} \/ code \in {"limit", "error"} => Killed(r) \/ GroupKilled(r)',
           \A q \in Runners : note'[q] = note[q] \/ NoteSound(q)',
           note' \in [Runners -> [pid : Pids \cup {0}, identity : Nat, cmd : Nat]], X!RecoveryHitsOwn'
    PROVE  ExecutorIInv'
<1>1. runner \in [Runners -> [at : RunnerPlaces, pid : Pids \cup {0}, cmd : Nat,
                              code : {"none", "ok", "failed", "limit", "error"}]]
  BY DEF ExecutorIInv, ExecutorTypeOK
<1>2. PICK pid \in Pids \cup {0}, cmd \in Nat : pid = runner[r].pid /\ cmd = runner[r].cmd
  BY <1>1
<1>3. PICK now : now = [at |-> at, pid |-> pid, cmd |-> cmd, code |-> code]
  OBVIOUS
<1>4. /\ now \in [at : RunnerPlaces, pid : Pids \cup {0}, cmd : Nat,
                  code : {"none", "ok", "failed", "limit", "error"}]
      /\ now.at = at /\ now.pid = pid /\ now.cmd = cmd /\ now.code = code
  BY <1>3
<1>5. runner' = [runner EXCEPT ![r] = now]
  BY <1>2, <1>3
<1>6. ExecutorTypeOK'
  BY <1>1, <1>4, <1>5 DEF ExecutorIInv, ExecutorTypeOK, Fewer
<1>7. ASSUME NEW q \in Runners
      PROVE  /\ runner'[q].at # "idle" => runner[q].at # "idle"
             /\ runner'[q].pid = runner[q].pid /\ runner'[q].cmd = runner[q].cmd
             /\ Killed(q)' => Killed(q) \/ GroupKilled(q)'
             /\ runner'[q].code # "none" => runner'[q].at = "done"
  <2>1. CASE q = r
    <3>1. runner'[r] = now
      BY <1>1, <1>5
    <3> QED  BY <1>2, <1>4, <2>1, <3>1 DEF Killed
  <2>2. CASE q # r
    <3>1. runner'[q] = runner[q]
      BY <1>1, <1>5, <2>2
    <3> QED  BY <3>1 DEF Killed, ExecutorIInv
  <2> QED  BY <2>1, <2>2
<1> QED  BY <1>6, <1>7, FewerStep

(* What is written of a runner, as the record it becomes.                  *)
LEMMA WithAt ==
    ASSUME NEW A, NEW P, NEW C, NEW S, NEW old \in [at : A, pid : P, cmd : C, code : S], NEW at
    PROVE  [old EXCEPT !.at = at] = [at |-> at, pid |-> old.pid, cmd |-> old.cmd, code |-> old.code]
  BY SMT

(* The same of the code.                                                   *)
LEMMA WithCode ==
    ASSUME NEW A, NEW P, NEW C, NEW S, NEW old \in [at : A, pid : P, cmd : C, code : S], NEW code
    PROVE  [old EXCEPT !.code = code] = [at |-> old.at, pid |-> old.pid, cmd |-> old.cmd, code |-> code]
  BY SMT

(* A thread that goes on keeps its command.                                *)
LEMMA GoIs ==
    ASSUME ExecutorIInv, NEW r \in Runners, NEW at, runner[r].at # "done", X!Go(r, at)
    PROVE  runner' = [runner EXCEPT ![r] = [at |-> at, pid |-> runner[r].pid, cmd |-> runner[r].cmd,
                                            code |-> "none"]]
<1>1. runner[r] \in [at : RunnerPlaces, pid : Pids \cup {0}, cmd : Nat,
                     code : {"none", "ok", "failed", "limit", "error"}]
  BY DEF ExecutorIInv, ExecutorTypeOK
<1>2. runner[r].code = "none"
  BY DEF ExecutorIInv
<1>3. PICK old : old = runner[r]
  OBVIOUS
<1>4. [old EXCEPT !.at = at] = [at |-> at, pid |-> old.pid, cmd |-> old.cmd, code |-> old.code]
  BY <1>1, <1>3, WithAt
<1>5. runner' = [runner EXCEPT ![r] = [old EXCEPT !.at = at]]
  BY <1>3 DEF X!Go
<1> QED  BY <1>2, <1>3, <1>4, <1>5

(* So does one that is done.                                               *)
LEMMA DoneIs ==
    ASSUME ExecutorIInv, NEW r \in Runners, NEW code, X!Done(r, code)
    PROVE  runner' = [runner EXCEPT ![r] = [at |-> "done", pid |-> runner[r].pid, cmd |-> runner[r].cmd,
                                            code |-> code]]
<1>1. /\ runner[r] \in [at : RunnerPlaces, pid : Pids \cup {0}, cmd : Nat,
                        code : {"none", "ok", "failed", "limit", "error"}]
      /\ runner \in [Runners -> [at : RunnerPlaces, pid : Pids \cup {0}, cmd : Nat,
                                 code : {"none", "ok", "failed", "limit", "error"}]]
  BY DEF ExecutorIInv, ExecutorTypeOK
<1>2. PICK old : old = runner[r]
  OBVIOUS
<1>3. PICK new : new = [old EXCEPT !.at = "done"]
  OBVIOUS
<1>4. new = [at |-> "done", pid |-> old.pid, cmd |-> old.cmd, code |-> old.code]
  BY <1>1, <1>2, <1>3, WithAt
<1>5. new \in [at : {"done"}, pid : Pids \cup {0}, cmd : Nat, code : {"none", "ok", "failed", "limit", "error"}]
  BY <1>1, <1>2, <1>4
<1>6. [new EXCEPT !.code = code] = [at |-> new.at, pid |-> new.pid, cmd |-> new.cmd, code |-> code]
  BY <1>5, WithCode
<1>7. [new EXCEPT !.code = code] = [at |-> "done", pid |-> old.pid, cmd |-> old.cmd, code |-> code]
  BY <1>4, <1>6
<1>8. runner' = [runner EXCEPT ![r] = [new EXCEPT !.code = code]]
  BY <1>1, <1>2, <1>3 DEF X!Done
<1> QED  BY <1>2, <1>7, <1>8

(* A record that was cleared says nothing.                                 *)
LEMMA ClearedIsSound ==
    ASSUME ExecutorIInv, NEW r \in Runners, X!ClearRecord(r)
    PROVE  /\ note' \in [Runners -> [pid : Pids \cup {0}, identity : Nat, cmd : Nat]]
           /\ \A q \in Runners : note'[q] = note[q] \/ NoteSound(q)'
<1>1. X!NoRecord \in [pid : Pids \cup {0}, identity : Nat, cmd : Nat] /\ X!NoRecord.identity = 0
  BY DEF X!NoRecord
<1>2. note' = [note EXCEPT ![r] = X!NoRecord] /\ note \in [Runners -> [pid : Pids \cup {0}, identity : Nat, cmd : Nat]]
  BY DEF X!ClearRecord, ExecutorIInv, ExecutorTypeOK
<1> QED  BY <1>1, <1>2 DEF NoteSound

(* A child that was waited for is gone.                                    *)
LEMMA WaitedIsFewer ==
    ASSUME ExecutorIInv, NEW r \in Runners, procs' = X!Waited(r), UNCHANGED started
    PROVE  Fewer /\ procs' \in [Pids -> Process]
<1>1. PICK pid : pid = runner[r].pid
  OBVIOUS
<1>2. procs' = procs \/ procs' = [procs EXCEPT ![pid] = X!None]
  BY <1>1 DEF X!Waited
<1> QED  BY <1>2, WithoutIsFewer DEF ExecutorIInv

(* The group of a runner's leader, killed: what runs on of its command is  *)
(* elsewhere, and its leader is gone.                                      *)
LEMMA KillIsComplete ==
    ASSUME ExecutorIInv, NEW r \in Runners, runner[r].at # "idle", UNCHANGED started,
           procs' = X!Ended(X!GroupOf(runner[r].pid), FALSE),
           runner'[r].pid = runner[r].pid, runner'[r].cmd = runner[r].cmd
    PROVE  Fewer /\ procs' \in [Pids -> Process] /\ GroupKilled(r)'
<1>1. PICK dying \in SUBSET Pids : dying = X!GroupOf(runner[r].pid)
  BY DEF X!GroupOf
<1>2. Fewer /\ procs' \in [Pids -> Process] /\ \A p \in dying : procs'[p].state # "running"
  BY <1>1, EndedIsFewer DEF ExecutorIInv
<1>3. ASSUME NEW p \in Pids, procs'[p].state = "running", procs'[p].cmd = runner[r].cmd
      PROVE  procs'[p].group # runner[r].pid /\ procs'[p].cmd # procs'[p].born
  <2>1. /\ procs[p].state = "running" /\ procs'[p].born = procs[p].born /\ procs'[p].cmd = procs[p].cmd
        /\ procs'[p].group = procs[p].group
    BY <1>2, <1>3, NothingIsNone DEF Fewer
  <2>2. procs[p].group # runner[r].pid
    BY <1>1, <1>2, <1>3, <2>1 DEF X!GroupOf, X!Running
  <2>3. Present(p)
    BY <2>1 DEF ExecutorIInv, ProcessesSound, Births, X!Running
  <2>4. procs[p].cmd # procs[p].born
    <3> SUFFICES ASSUME procs[p].cmd = procs[p].born PROVE FALSE
      OBVIOUS
    <3>1. p = runner[r].pid
      BY <1>3, <2>1 DEF ExecutorIInv, LeaderKnown
    <3>2. procs[p].group = p
      BY <2>3 DEF ExecutorIInv, ProcessesSound, LeadersLead, X!Leader
    <3> QED  BY <2>2, <3>1, <3>2
  <2> QED  BY <2>1, <2>2, <2>4
<1>4. GroupKilled(r)'
  BY <1>3 DEF GroupKilled, X!Leader, X!Running
<1> QED  BY <1>2, <1>4

(* A limit is not the recovery.                                            *)
LEMMA LimitIsNoStray ==
    ASSUME ExecutorIInv, NEW g, NEW cmd, X!Kill(g, cmd, "limit")
    PROVE  X!RecoveryHitsOwn' /\ procs' = X!Ended(X!GroupOf(g), FALSE)
  BY DEF X!Kill, X!RecoveryHitsOwn, ExecutorIInv

(* A command that ended is answered.                                       *)
LEMMA FinishStep ==
    ASSUME ExecutorIInv, NEW r \in Runners, X!Finish(r) PROVE ExecutorIInv'
<1>1. Fewer /\ procs' \in [Pids -> Process]
  BY WaitedIsFewer DEF X!Finish
<1>2. PICK code \in {"ok", "failed"} : code = X!Code(r)
  BY DEF X!Code
<1>3. runner' = [runner EXCEPT ![r] = [at |-> "done", pid |-> runner[r].pid, cmd |-> runner[r].cmd,
                                       code |-> code]]
  BY <1>2, DoneIs DEF X!Finish
<1>4. /\ note' \in [Runners -> [pid : Pids \cup {0}, identity : Nat, cmd : Nat]]
      /\ \A q \in Runners : note'[q] = note[q] \/ NoteSound(q)'
  BY ClearedIsSound DEF X!Finish
<1>5. runner[r].at # "idle" /\ X!RecoveryHitsOwn'
  BY DEF X!Finish, X!At, X!RecoveryHitsOwn, ExecutorIInv
<1> QED  BY <1>1, <1>2, <1>3, <1>4, <1>5, ThreadMoves DEF RunnerPlaces

(* A command beyond a limit, or without a record, is killed.               *)
LEMMA KillStep ==
    ASSUME ExecutorIInv, NEW r \in Runners, X!Terminate(r) \/ X!RecordFails(r) PROVE ExecutorIInv'
<1>1. /\ runner[r].at \in {"polling", "spawned"} /\ UNCHANGED <<started, note>>
      /\ X!Kill(runner[r].pid, runner[r].cmd, "limit")
  BY DEF X!Terminate, X!RecordFails, X!At
<1>2. PICK at \in {"killed", "abandoned"} : X!Go(r, at)
  BY DEF X!Terminate, X!RecordFails
<1>3. runner' = [runner EXCEPT ![r] = [at |-> at, pid |-> runner[r].pid, cmd |-> runner[r].cmd,
                                       code |-> "none"]]
  BY <1>1, <1>2, GoIs
<1>4. runner'[r].pid = runner[r].pid /\ runner'[r].cmd = runner[r].cmd
  BY <1>3 DEF ExecutorIInv, ExecutorTypeOK
<1>5. X!RecoveryHitsOwn' /\ procs' = X!Ended(X!GroupOf(runner[r].pid), FALSE)
  BY <1>1, LimitIsNoStray
<1>6. Fewer /\ procs' \in [Pids -> Process] /\ GroupKilled(r)'
  BY <1>1, <1>4, <1>5, KillIsComplete
<1>7. note' \in [Runners -> [pid : Pids \cup {0}, identity : Nat, cmd : Nat]] /\ \A q \in Runners : note'[q] = note[q]
  BY <1>1 DEF ExecutorIInv, ExecutorTypeOK
<1> QED  BY <1>1, <1>3, <1>5, <1>6, <1>7, ThreadMoves DEF RunnerPlaces

(* The leader that was killed is waited for.                               *)
LEMMA WaitKilledStep ==
    ASSUME ExecutorIInv, NEW r \in Runners, X!WaitKilled(r) PROVE ExecutorIInv'
<1>1. Fewer /\ procs' \in [Pids -> Process]
  BY WaitedIsFewer DEF X!WaitKilled
<1>2. /\ runner[r].at \in {"killed", "abandoned"} /\ X!RecoveryHitsOwn'
      /\ note' \in [Runners -> [pid : Pids \cup {0}, identity : Nat, cmd : Nat]]
      /\ \A q \in Runners : note'[q] = note[q]
  BY DEF X!WaitKilled, X!At, X!RecoveryHitsOwn, ExecutorIInv, ExecutorTypeOK
<1>3. Killed(r)
  BY <1>2 DEF Killed
<1>4. CASE X!Go(r, "reaping")
  <2>1. runner' = [runner EXCEPT ![r] = [at |-> "reaping", pid |-> runner[r].pid, cmd |-> runner[r].cmd,
                                         code |-> "none"]]
    BY <1>2, <1>4, GoIs
  <2> QED  BY <1>1, <1>2, <1>3, <2>1, ThreadMoves DEF RunnerPlaces
<1>5. CASE X!Done(r, "error")
  <2>1. runner' = [runner EXCEPT ![r] = [at |-> "done", pid |-> runner[r].pid, cmd |-> runner[r].cmd,
                                         code |-> "error"]]
    BY <1>5, DoneIs
  <2> QED  BY <1>1, <1>2, <1>3, <2>1, ThreadMoves DEF RunnerPlaces
<1> QED  BY <1>4, <1>5 DEF X!WaitKilled

(* The pipes of a command that was killed are closed.                      *)
LEMMA DrainStep ==
    ASSUME ExecutorIInv, NEW r \in Runners, X!Drain(r) PROVE ExecutorIInv'
<1>1. Fewer /\ procs' \in [Pids -> Process]
  BY SameIsFewer DEF X!Drain, ExecutorIInv, ExecutorTypeOK
<1>2. /\ runner[r].at = "reaping" /\ X!RecoveryHitsOwn'
      /\ X!Done(r, "limit") /\ X!ClearRecord(r)
  BY DEF X!Drain, X!At, X!RecoveryHitsOwn, ExecutorIInv
<1>3. runner' = [runner EXCEPT ![r] = [at |-> "done", pid |-> runner[r].pid, cmd |-> runner[r].cmd,
                                       code |-> "limit"]]
  BY <1>2, DoneIs
<1>4. /\ note' \in [Runners -> [pid : Pids \cup {0}, identity : Nat, cmd : Nat]]
      /\ \A q \in Runners : note'[q] = note[q] \/ NoteSound(q)'
  BY <1>2, ClearedIsSound
<1>5. Killed(r)
  BY <1>2 DEF Killed
<1> QED  BY <1>1, <1>2, <1>3, <1>4, <1>5, ThreadMoves DEF RunnerPlaces

(* A step that leaves every thread and every record.                       *)
LEMMA ThreadsKeep ==
    ASSUME ExecutorIInv, Fewer, procs' \in [Pids -> Process], UNCHANGED <<runner, note, stray>>
    PROVE  ExecutorIInv'
<1>1. ExecutorTypeOK' /\ X!RecoveryHitsOwn'
  BY DEF ExecutorIInv, ExecutorTypeOK, X!RecoveryHitsOwn, Fewer
<1>2. \A r \in Runners : (Killed(r)' <=> Killed(r)) /\ (runner'[r].code # "none" => runner'[r].at = "done")
  BY DEF Killed, ExecutorIInv
<1> QED  BY <1>1, <1>2, FewerStep

(* A thread takes any child that ended.                                    *)
LEMMA ReapStep ==
    ASSUME ExecutorIInv, NEW r \in Runners, NEW p \in Pids, X!Reap(r, p) PROVE ExecutorIInv'
<1>1. Fewer /\ procs' \in [Pids -> Process]
  BY WithoutIsFewer DEF X!Reap, ExecutorIInv
<1> QED  BY <1>1, ThreadsKeep DEF X!Reap

(* The next server is up.                                                  *)
LEMMA StartStep == ASSUME ExecutorIInv, X!Start PROVE ExecutorIInv'
<1>1. Fewer /\ procs' \in [Pids -> Process]
  BY SameIsFewer DEF X!Start, ExecutorIInv, ExecutorTypeOK
<1> QED  BY <1>1, ThreadsKeep DEF X!Start

(* A thread that does nothing.                                             *)
LEMMA IdleIsARunner ==
    X!Idle \in [at : RunnerPlaces, pid : Pids \cup {0}, cmd : Nat, code : {"none", "ok", "failed", "limit", "error"}]
  BY DEF X!Idle, RunnerPlaces

(* A thread is free for another command.                                   *)
LEMMA AnsweredStep ==
    ASSUME ExecutorIInv, NEW r \in Runners, X!Answered(r) PROVE ExecutorIInv'
<1>1. Fewer /\ UNCHANGED <<procs, started, note, stray>> /\ runner' = [runner EXCEPT ![r] = X!Idle]
  BY SameIsFewer DEF X!Answered
<1>2. ExecutorTypeOK' /\ X!RecoveryHitsOwn'
  BY <1>1, IdleIsARunner DEF ExecutorIInv, ExecutorTypeOK, X!RecoveryHitsOwn
<1>3. \A q \in Runners : runner'[q] = X!Idle \/ runner'[q] = runner[q]
  BY <1>1 DEF ExecutorIInv, ExecutorTypeOK
<1>4. ASSUME NEW q \in Runners, runner'[q] = runner[q]
      PROVE  (Killed(q)' <=> Killed(q)) /\ (runner'[q].code # "none" => runner'[q].at = "done")
  BY <1>4 DEF Killed, ExecutorIInv
<1> QED  BY <1>1, <1>2, <1>3, <1>4, FewerStep

(* The record of a leader just started, or of whoever has its identifier.  *)
LEMMA WriteRecordStep ==
    ASSUME ExecutorIInv, NEW r \in Runners, NEW identity \in Nat, X!WriteRecord(r, identity)
    PROVE  ExecutorIInv'
<1>1. /\ runner[r].at = "spawned" /\ UNCHANGED <<procs, started, stray>> /\ X!Go(r, "polling")
      /\ identity \in {0, procs[runner[r].pid].born}
  BY DEF X!WriteRecord, X!At
<1>2. Fewer /\ procs' \in [Pids -> Process] /\ X!RecoveryHitsOwn'
  BY <1>1, SameIsFewer DEF ExecutorIInv, ExecutorTypeOK, X!RecoveryHitsOwn
<1>3. runner' = [runner EXCEPT ![r] = [at |-> "polling", pid |-> runner[r].pid, cmd |-> runner[r].cmd,
                                       code |-> "none"]]
  BY <1>1, GoIs
<1>4. PICK pid \in Pids : pid = runner[r].pid
  BY <1>1 DEF ExecutorIInv, LeaderKnown
<1>5. procs[pid] \in Process /\ procs[pid].born <= started
  BY DEF ExecutorIInv, ExecutorTypeOK, ProcessesSound, Births
<1>6. PICK cmd \in Nat : cmd = procs[pid].cmd
  BY <1>5 DEF Process
<1>7. PICK new : new = [pid |-> pid, identity |-> identity, cmd |-> cmd]
  OBVIOUS
<1>8. note' = [note EXCEPT ![r] = new] /\ new \in [pid : Pids \cup {0}, identity : Nat, cmd : Nat]
  BY <1>4, <1>6, <1>7 DEF X!WriteRecord
<1>9. /\ note' \in [Runners -> [pid : Pids \cup {0}, identity : Nat, cmd : Nat]] /\ note'[r] = new
      /\ \A q \in Runners : q # r => note'[q] = note[q]
  BY <1>8 DEF ExecutorIInv, ExecutorTypeOK
<1>10. NoteSound(r)'
  <2>1. new.pid = pid /\ new.identity = identity /\ new.cmd = cmd
    BY <1>7
  <2>2. ASSUME identity # 0
        PROVE  /\ identity <= started
               /\ \A p \in Pids : procs[p].born = identity => procs[p].cmd = cmd
    <3>1. identity = procs[pid].born /\ Present(pid)
      BY <1>1, <1>4, <2>2 DEF Present
    <3>2. \A p \in Pids : procs[p].born = identity => p = pid
      BY <3>1 DEF ExecutorIInv, ProcessesSound, Unique
    <3> QED  BY <1>5, <1>6, <3>1, <3>2
  <2> QED  BY <1>1, <1>9, <2>1, <2>2 DEF NoteSound
<1>11. \A q \in Runners : note'[q] = note[q] \/ NoteSound(q)'
  BY <1>9, <1>10
<1> QED  BY <1>1, <1>2, <1>3, <1>9, <1>11, ThreadMoves DEF RunnerPlaces

(* A death of the server leaves what runs to nobody.                       *)
LEMMA CrashStep == ASSUME ExecutorIInv, X!Crash PROVE ExecutorIInv'
<1>1. /\ runner' = [r \in Runners |-> X!Idle] /\ UNCHANGED <<started, note, stray>>
      /\ procs' = [p \in Pids |-> IF procs[p].state = "zombie" THEN X!None
                                  ELSE [procs[p] EXCEPT !.child = FALSE]]
  BY DEF X!Crash
<1>2. ASSUME NEW p \in Pids
      PROVE  /\ procs'[p] \in Process
             /\ \/ procs'[p] = X!None
                \/ /\ procs'[p].born = procs[p].born /\ procs'[p].cmd = procs[p].cmd
                   /\ procs'[p].group = procs[p].group
                   /\ procs'[p].state = "running" => procs[p].state = "running"
  <2>1. PICK old \in Process : old = procs[p]
    BY DEF ExecutorIInv, ExecutorTypeOK
  <2>2. PICK new : new = [old EXCEPT !.child = FALSE]
    OBVIOUS
  <2>3. /\ new \in Process /\ new.born = old.born /\ new.cmd = old.cmd /\ new.group = old.group
        /\ new.state = old.state
    BY <2>1, <2>2 DEF Process
  <2>4. procs'[p] = X!None \/ procs'[p] = new
    BY <1>1, <2>1, <2>2
  <2> QED  BY <2>1, <2>3, <2>4, NothingIsNone
<1>3. procs' \in [Pids -> Process]
  BY <1>1, <1>2
<1>4. Fewer
  BY <1>1, <1>2 DEF Fewer
<1>5. ExecutorTypeOK' /\ X!RecoveryHitsOwn'
  BY <1>1, <1>3, IdleIsARunner DEF ExecutorIInv, ExecutorTypeOK, X!RecoveryHitsOwn
<1>6. \A r \in Runners : runner'[r] = X!Idle
  BY <1>1
<1> QED  BY <1>1, <1>4, <1>5, <1>6, FewerStep

(* The process that has the identity on record leads only processes of the *)
(* command on record.                                                      *)
LEMMA RecoveryIsExact ==
    ASSUME ExecutorIInv, NEW r \in Runners, note[r].identity # 0, X!Matches(r),
           X!Kill(note[r].pid, note[r].cmd, "recovery")
    PROVE  UNCHANGED stray
<1>1. PICK pid \in Pids : pid = note[r].pid
  BY DEF ExecutorIInv, NoteSound
<1>2. procs[pid].born = note[r].identity /\ procs[pid].cmd = note[r].cmd
  BY <1>1 DEF X!Matches, X!Found, ExecutorIInv, NoteSound
<1>3. \A p \in X!GroupOf(pid) : procs[p].cmd = note[r].cmd
  <2> TAKE p \in X!GroupOf(pid)
  <2>1. p \in Pids /\ procs[p].group = pid /\ Present(p) /\ Present(pid)
    BY <1>2 DEF X!GroupOf, ExecutorIInv, ProcessesSound, Births, Present
  <2> QED  BY <1>2, <2>1 DEF ExecutorIInv, ProcessesSound, OneCommand
<1> QED  BY <1>1, <1>3 DEF X!Kill

(* A record is asked, and cleared or left.                                 *)
LEMMA RecoverStep ==
    ASSUME ExecutorIInv, NEW r \in Runners, X!Recover(r) PROVE ExecutorIInv'
<1>1. UNCHANGED <<started, runner>>
  BY DEF X!Recover
<1>2. /\ note' \in [Runners -> [pid : Pids \cup {0}, identity : Nat, cmd : Nat]]
      /\ \A q \in Runners : note'[q] = note[q] \/ NoteSound(q)'
  <2>1. X!ClearRecord(r) \/ note' = note
    BY DEF X!Recover
  <2>2. CASE note' = note
    BY <2>2 DEF ExecutorIInv, ExecutorTypeOK
  <2> QED  BY <2>1, <2>2, ClearedIsSound
<1>3. Fewer /\ procs' \in [Pids -> Process] /\ UNCHANGED stray
  <2>1. CASE UNCHANGED <<procs, stray>>
    BY <1>1, <2>1, SameIsFewer DEF ExecutorIInv, ExecutorTypeOK
  <2>2. CASE note[r].identity # 0 /\ X!Matches(r) /\ X!Kill(note[r].pid, note[r].cmd, "recovery")
    <3>1. PICK dying \in SUBSET Pids : dying = X!GroupOf(note[r].pid)
      BY DEF X!GroupOf
    <3>2. procs' = X!Ended(dying, FALSE)
      BY <2>2, <3>1 DEF X!Kill
    <3> QED  BY <1>1, <2>2, <3>2, EndedIsFewer, RecoveryIsExact DEF ExecutorIInv
  <2> QED  BY <2>1, <2>2 DEF X!Recover
<1>4. ExecutorTypeOK' /\ X!RecoveryHitsOwn'
  BY <1>1, <1>2, <1>3 DEF ExecutorIInv, ExecutorTypeOK, X!RecoveryHitsOwn, Fewer
<1>5. \A q \in Runners : (Killed(q)' <=> Killed(q)) /\ (runner'[q].code # "none" => runner'[q].at = "done")
  BY <1>1 DEF Killed, ExecutorIInv
<1> QED  BY <1>1, <1>2, <1>3, <1>4, <1>5, FewerStep

(* A process starts under an identifier that nobody has: the leader of a   *)
(* new command, or the child of one that runs.                             *)
LEMMA OneMore ==
    ASSUME ExecutorIInv, NEW q \in Pids, NEW new \in Process, X!Free(q),
           procs' = [procs EXCEPT ![q] = new], started' = started + 1, new.born = started + 1,
           \/ new.cmd = started + 1 /\ new.group = q
           \/ \E p \in Pids : /\ X!Running(p) /\ X!Leader(p) /\ new.cmd = procs[p].cmd
                              /\ new.group \in {q, procs[p].group}
    PROVE  /\ ProcessesSound'
           /\ \A r \in Runners :
                 /\ note'[r] = note[r] => NoteSound(r)'
                 /\ runner'[r] = runner[r] => LeaderKnown(r)' /\ (Killed(r)' => GroupKilled(r)')
<1>1. procs \in [Pids -> Process] /\ started \in Nat
  BY DEF ExecutorIInv, ExecutorTypeOK
<1>2. procs'[q] = new /\ \A p \in Pids : p # q => procs'[p] = procs[p]
  BY <1>1
<1>3. \A p \in Pids : procs[p].group # q /\ procs[p].born <= started /\ procs[p].cmd <= started
                      /\ procs[p].born \in Nat /\ procs[p].cmd \in Nat
  BY <1>1 DEF X!Free, ExecutorIInv, ProcessesSound, Births, Process
<1>4. new.cmd <= started \/ (new.cmd = started + 1 /\ new.group = q)
  <2>1. CASE \E p \in Pids : new.cmd = procs[p].cmd
    <3>1. PICK p \in Pids : new.cmd = procs[p].cmd
      BY <2>1
    <3>2. procs[p].cmd <= started
      BY <1>3
    <3> QED  BY <3>1, <3>2
  <2> QED  BY <2>1
<1>5. Births'
  <2>1. \A p \in Pids : procs'[p].born <= started' /\ procs'[p].cmd <= started'
    BY <1>1, <1>2, <1>3, <1>4 DEF Process
  <2>2. \A p \in Pids : X!Running(p)' => Present(p)'
    BY <1>1, <1>2 DEF X!Running, Present, ExecutorIInv, ProcessesSound, Births
  <2> QED  BY <2>1, <2>2 DEF Births
<1>6. Unique'
  BY <1>1, <1>2, <1>3 DEF Unique, Present, ExecutorIInv, ProcessesSound
<1>7. LeadersLead'
  <2>1. procs'[q].cmd = procs'[q].born => procs'[q].group = q
    BY <1>1, <1>2, <1>4 DEF Process
  <2> QED  BY <1>2, <2>1 DEF LeadersLead, Present, X!Leader, ExecutorIInv, ProcessesSound
<1>8. OneCommand'
  <2>1. ASSUME NEW p \in Pids, p # q, procs[p].born # 0,
               procs[p].group = new.group \/ procs[p].group = q \/ new.group = p
        PROVE  procs[p].cmd = new.cmd
    <3>1. new.group # q
      BY <1>3, <2>1
    <3>2. PICK s \in Pids : /\ X!Running(s) /\ X!Leader(s) /\ new.cmd = procs[s].cmd
                            /\ new.group = procs[s].group
      BY <3>1
    <3>3. Present(s)
      BY <3>2 DEF ExecutorIInv, ProcessesSound, Births
    <3> QED  BY <1>3, <2>1, <3>2, <3>3 DEF ExecutorIInv, ProcessesSound, OneCommand, Present
  <2>2. ASSUME NEW p \in Pids, NEW s \in Pids, Present(p)', Present(s)',
               procs'[p].group = procs'[s].group \/ procs'[p].group = s
        PROVE  procs'[p].cmd = procs'[s].cmd
    <3>1. CASE p # q /\ s # q
      BY <1>2, <2>2, <3>1 DEF ExecutorIInv, ProcessesSound, OneCommand, Present
    <3>2. CASE p = q /\ s # q
      BY <1>2, <2>1, <2>2, <3>2 DEF Present
    <3>3. CASE p # q /\ s = q
      BY <1>2, <2>1, <2>2, <3>3 DEF Present
    <3> QED  BY <3>1, <3>2, <3>3
  <2> QED  BY <2>2 DEF OneCommand
<1>9. ASSUME NEW r \in Runners, note'[r] = note[r] PROVE NoteSound(r)'
  <2>1. NoteSound(r) /\ note[r].identity \in Nat
    BY DEF ExecutorIInv, ExecutorTypeOK
  <2> QED  BY <1>1, <1>2, <1>9, <2>1 DEF NoteSound
<1>10. ASSUME NEW r \in Runners, runner'[r] = runner[r]
       PROVE  LeaderKnown(r)' /\ (Killed(r)' => GroupKilled(r)')
  <2>1. LeaderKnown(r) /\ (Killed(r) => GroupKilled(r)) /\ (Killed(r)' <=> Killed(r)) /\ runner[r].cmd \in Nat
    BY <1>10 DEF ExecutorIInv, ExecutorTypeOK, Killed
  <2>2. LeaderKnown(r)'
    BY <1>1, <1>2, <1>10, <2>1 DEF LeaderKnown, X!Leader
  <2>3. Killed(r) => runner[r].at # "idle"
    BY DEF ExecutorIInv, Killed
  <2>4. ASSUME Killed(r) PROVE GroupKilled(r)'
    <3>1. new.cmd # runner[r].cmd
      <4>1. runner[r].cmd <= started
        BY <2>1, <2>3, <2>4 DEF LeaderKnown
      <4> QED  BY <1>1, <2>1, <2>4, <4>1 DEF GroupKilled
    <3> QED  BY <1>2, <1>10, <2>1, <2>4, <3>1 DEF GroupKilled, X!Running, X!Leader
  <2> QED  BY <2>1, <2>2, <2>4
<1> QED  BY <1>5, <1>6, <1>7, <1>8, <1>9, <1>10 DEF ProcessesSound

(* A leader forks.                                                         *)
LEMMA ForkStep ==
    ASSUME ExecutorIInv, NEW p \in Pids, NEW q \in Pids, NEW own \in BOOLEAN, X!Fork(p, q, own)
    PROVE  ExecutorIInv'
<1>1. /\ X!Running(p) /\ X!Leader(p) /\ X!Free(q) /\ started' = started + 1
      /\ UNCHANGED <<runner, note, stray>>
  BY DEF X!Fork
<1>2. PICK cmd \in Nat, group \in Pids \cup {0} :
         cmd = procs[p].cmd /\ group = (IF own THEN q ELSE procs[p].group)
  <2>1. procs[p].cmd \in Nat /\ procs[p].group \in Pids \cup {0}
    BY DEF ExecutorIInv, ExecutorTypeOK, Process
  <2> QED  BY <2>1
<1>3. PICK new : new = [born |-> started + 1, cmd |-> cmd, group |-> group, child |-> FALSE,
                        state |-> "running", ok |-> FALSE]
  OBVIOUS
<1>4. /\ new \in Process /\ new.born = started + 1 /\ new.cmd = procs[p].cmd
      /\ new.group \in {q, procs[p].group}
  BY <1>2, <1>3 DEF Process, ExecutorIInv, ExecutorTypeOK
<1>5. procs' = [procs EXCEPT ![q] = new]
  <2>1. PICK a : a = [X!None EXCEPT !.born = started + 1]
    OBVIOUS
  <2>2. PICK b : b = [a EXCEPT !.cmd = cmd]
    OBVIOUS
  <2>3. PICK d : d = [b EXCEPT !.state = "running"]
    OBVIOUS
  <2>4. PICK e : e = [d EXCEPT !.group = group]
    OBVIOUS
  <2>5. a = [born |-> started + 1, cmd |-> 0, group |-> 0, child |-> FALSE, state |-> "none", ok |-> FALSE]
    BY <2>1 DEF X!None
  <2>6. b = [born |-> started + 1, cmd |-> cmd, group |-> 0, child |-> FALSE, state |-> "none", ok |-> FALSE]
    BY <2>2, <2>5
  <2>7. d = [born |-> started + 1, cmd |-> cmd, group |-> 0, child |-> FALSE, state |-> "running", ok |-> FALSE]
    BY <2>3, <2>6
  <2>8. e = [born |-> started + 1, cmd |-> cmd, group |-> group, child |-> FALSE, state |-> "running", ok |-> FALSE]
    BY <2>4, <2>7
  <2>9. procs' = [procs EXCEPT ![q] = e]
    BY <1>2, <2>1, <2>2, <2>3, <2>4 DEF X!Fork
  <2> QED  BY <1>3, <2>8, <2>9
<1>6. /\ ProcessesSound'
      /\ \A r \in Runners : NoteSound(r)' /\ LeaderKnown(r)' /\ (Killed(r)' => GroupKilled(r)')
  BY <1>1, <1>4, <1>5, OneMore
<1>7. /\ ExecutorTypeOK' /\ X!RecoveryHitsOwn'
      /\ \A r \in Runners : runner'[r].code # "none" => runner'[r].at = "done"
  BY <1>1, <1>4, <1>5 DEF ExecutorIInv, ExecutorTypeOK, X!RecoveryHitsOwn
<1> QED  BY <1>6, <1>7 DEF ExecutorIInv

(* A thread starts a command.                                              *)
LEMMA SpawnStep ==
    ASSUME ExecutorIInv, NEW r \in Runners, NEW p \in Pids, X!Spawn(r, p) PROVE ExecutorIInv'
<1>1. X!Free(p) /\ started' = started + 1 /\ UNCHANGED <<note, stray>>
  BY DEF X!Spawn
<1>2. started \in Nat /\ started + 1 \in Nat /\ procs \in [Pids -> Process]
  BY DEF ExecutorIInv, ExecutorTypeOK
<1>3. PICK new : new = [born |-> started + 1, cmd |-> started + 1, group |-> p, child |-> TRUE,
                        state |-> "running", ok |-> FALSE]
  OBVIOUS
<1>4. new \in Process /\ new.born = started + 1 /\ new.cmd = started + 1 /\ new.group = p
  BY <1>2, <1>3 DEF Process
<1>5. procs' = [procs EXCEPT ![p] = new]
  BY <1>3 DEF X!Spawn
<1>6. PICK now : now = [at |-> "spawned", pid |-> p, cmd |-> started + 1, code |-> "none"]
  OBVIOUS
<1>7. /\ runner' = [runner EXCEPT ![r] = now]
      /\ now \in [at : RunnerPlaces, pid : Pids \cup {0}, cmd : Nat,
                  code : {"none", "ok", "failed", "limit", "error"}]
      /\ now.at = "spawned" /\ now.pid = p /\ now.cmd = started + 1 /\ now.code = "none"
  BY <1>2, <1>6 DEF X!Spawn, RunnerPlaces
<1>8. runner'[r] = now /\ \A q \in Runners : q # r => runner'[q] = runner[q]
  BY <1>7 DEF ExecutorIInv, ExecutorTypeOK
<1>9. /\ ProcessesSound'
      /\ \A q \in Runners :
            /\ NoteSound(q)'
            /\ runner'[q] = runner[q] => LeaderKnown(q)' /\ (Killed(q)' => GroupKilled(q)')
  BY <1>1, <1>4, <1>5, OneMore
<1>10. LeaderKnown(r)' /\ ~Killed(r)'
  <2>1. procs'[p] = new /\ \A s \in Pids : s # p => procs'[s] = procs[s]
    BY <1>2, <1>5
  <2>2. \A s \in Pids : procs[s].born <= started /\ procs[s].born \in Nat
    BY <1>2 DEF ExecutorIInv, ProcessesSound, Births, Process
  <2>3. ASSUME NEW s \in Pids, procs'[s].born = started + 1
        PROVE  s = p /\ procs'[s].cmd = procs'[s].born
    BY <1>2, <1>4, <2>1, <2>2, <2>3
  <2> QED  BY <1>1, <1>2, <1>7, <1>8, <2>3 DEF LeaderKnown, X!Leader, Killed
<1>11. ExecutorTypeOK' /\ X!RecoveryHitsOwn'
  BY <1>1, <1>2, <1>4, <1>5, <1>7 DEF ExecutorIInv, ExecutorTypeOK, X!RecoveryHitsOwn
<1>12. \A q \in Runners : runner'[q].code # "none" => runner'[q].at = "done"
  BY <1>7, <1>8 DEF ExecutorIInv
<1> QED  BY <1>8, <1>9, <1>10, <1>11, <1>12 DEF ExecutorIInv

(* Nothing runs at first.                                                  *)
LEMMA ExecutorBegins == X!Init => ExecutorIInv
<1> SUFFICES ASSUME X!Init PROVE ExecutorIInv
  OBVIOUS
<1>1. /\ procs = [p \in Pids |-> X!None] /\ started = 0 /\ runner = [r \in Runners |-> X!Idle]
      /\ note = [r \in Runners |-> X!NoRecord] /\ stray = {}
  BY DEF X!Init
<1>2. X!NoRecord \in [pid : Pids \cup {0}, identity : Nat, cmd : Nat] /\ X!NoRecord.identity = 0
  BY DEF X!NoRecord
<1>3. X!Idle.at = "idle" /\ X!Idle.code = "none"
  BY DEF X!Idle
<1>4. ExecutorTypeOK
  BY <1>1, <1>2, NothingIsNone, IdleIsARunner DEF ExecutorTypeOK
<1>5. ProcessesSound
  BY <1>1, NothingIsNone DEF ProcessesSound, Births, Unique, LeadersLead, OneCommand, Present, X!Running
<1>6. \A r \in Runners : /\ NoteSound(r) /\ LeaderKnown(r) /\ (Killed(r) => GroupKilled(r))
                         /\ runner[r].code # "none" => runner[r].at = "done"
  BY <1>1, <1>2, <1>3 DEF NoteSound, LeaderKnown, Killed
<1> QED  BY <1>1, <1>4, <1>5, <1>6 DEF ExecutorIInv, X!RecoveryHitsOwn

(* What the identifiers, the records and the threads agree on.             *)
THEOREM ExecutorIInvHolds == X!Spec => []ExecutorIInv
<1>1. ASSUME ExecutorIInv, [X!Next]_X!vars PROVE ExecutorIInv'
  <2>1. CASE UNCHANGED X!vars
    <3>1. Fewer /\ procs' \in [Pids -> Process] /\ UNCHANGED <<runner, note, stray>>
      BY <1>1, <2>1, SameIsFewer DEF X!vars, ExecutorIInv, ExecutorTypeOK
    <3> QED  BY <1>1, <3>1, ThreadsKeep
  <2>2. ASSUME NEW p \in Pids, NEW q \in Pids, NEW own \in BOOLEAN, X!Fork(p, q, own) PROVE ExecutorIInv'
    BY <1>1, <2>2, ForkStep
  <2>3. ASSUME NEW p \in Pids, NEW ok \in BOOLEAN, X!Exit(p, ok) PROVE ExecutorIInv'
    BY <1>1, <2>3, ExitStep
  <2>4. ASSUME NEW r \in Runners, NEW p \in Pids, X!Spawn(r, p) \/ X!Reap(r, p) PROVE ExecutorIInv'
    BY <1>1, <2>4, SpawnStep, ReapStep
  <2>5. ASSUME NEW r \in Runners, NEW identity \in 0..MaxBorn, X!WriteRecord(r, identity) PROVE ExecutorIInv'
    <3>1. identity \in Nat
      BY <2>5
    <3> QED  BY <1>1, <2>5, <3>1, WriteRecordStep
  <2>6. ASSUME NEW r \in Runners,
               X!Finish(r) \/ X!Terminate(r) \/ X!RecordFails(r) \/ X!WaitKilled(r) \/ X!Drain(r)
               \/ X!Answered(r) \/ X!Recover(r)
        PROVE  ExecutorIInv'
    BY <1>1, <2>6, FinishStep, KillStep, WaitKilledStep, DrainStep, AnsweredStep, RecoverStep
  <2> QED  BY <1>1, <2>1, <2>2, <2>3, <2>4, <2>5, <2>6, CrashStep, StartStep DEF X!Next
<1> QED  BY <1>1, ExecutorBegins, PTL DEF X!Spec

(* The recovery kills no process of another command than its record names, *)
(* and of the group of a command killed nothing runs when its answer is    *)
(* given, for any number of threads, identifiers, processes and deaths.    *)
THEOREM KillsAreExact == X!Spec => []KillIsExact
<1>1. ASSUME ExecutorIInv PROVE KillIsExact
  <2>1. X!RecoveryHitsOwn
    BY <1>1 DEF ExecutorIInv
  <2>2. ASSUME NEW r \in Runners, runner[r].code \in {"limit", "error"}, NEW p \in Pids, X!Running(p)
        PROVE  procs[p].cmd # runner[r].cmd \/ procs[p].group # runner[r].pid
    BY <1>1, <2>2 DEF ExecutorIInv, Killed, GroupKilled
  <2> QED  BY <2>1, <2>2 DEF KillIsExact, X!KillIsExact, X!KilledGroupIsGone
<1> QED  BY <1>1, ExecutorIInvHolds, PTL
=============================================================================
