-------------------------- MODULE JobServiceProofs --------------------------
(* The job service keeps its promises for every set of jobs, kinds, locks, *)
(* budgets and number of restarts: proofs about JobService.                *)
EXTENDS JobService, FiniteSetTheorems, SequenceTheorems, TLAPS

-----------------------------------------------------------------------------
(* Lemmas about the operators the model is built from.                     *)

(* Taking the i-th element out of a sequence shifts the later ones.        *)
LEMMA WithoutProperties ==
    ASSUME NEW S, NEW s \in Seq(S), NEW i \in DOMAIN s
    PROVE  /\ Without(s, i) \in Seq(S)
           /\ Len(Without(s, i)) = Len(s) - 1
           /\ \A k \in 1..(Len(s) - 1) : Without(s, i)[k] = IF k < i THEN s[k] ELSE s[k + 1]
<1> DEFINE front == SubSeq(s, 1, i - 1)
           back == SubSeq(s, i + 1, Len(s))
<1>1. i \in 1..Len(s) /\ Len(s) \in Nat
  OBVIOUS
<1>2. \A k \in 1..Len(s) : s[k] \in S
  OBVIOUS
<1>3. /\ front \in Seq(S) /\ Len(front) = i - 1
      /\ \A k \in 1..(i - 1) : front[k] = s[k]
  <2>1. \A k \in 1..(i - 1) : s[k] \in S
    BY <1>1, <1>2
  <2> QED
    BY <1>1, <2>1, SubSeqProperties, Z3
<1>4. /\ back \in Seq(S) /\ Len(back) = Len(s) - i
      /\ \A k \in 1..(Len(s) - i) : back[k] = s[i + k]
  <2>1. \A k \in (i + 1)..Len(s) : s[k] \in S
    BY <1>1, <1>2
  <2> QED
    BY <1>1, <2>1, SubSeqProperties, Z3
<1> HIDE DEF front, back
<1>5. /\ front \o back \in Seq(S)
      /\ Len(front \o back) = Len(front) + Len(back)
      /\ \A k \in 1..(Len(front) + Len(back)) :
            (front \o back)[k] = IF k <= Len(front) THEN front[k] ELSE back[k - Len(front)]
  BY <1>3, <1>4, ConcatProperties
<1>6. Len(front) + Len(back) = Len(s) - 1
  BY <1>1, <1>3, <1>4
<1>7. ASSUME NEW k \in 1..(Len(s) - 1)
      PROVE  (front \o back)[k] = IF k < i THEN s[k] ELSE s[k + 1]
  <2>1. CASE k < i
    BY <1>1, <1>3, <1>5, <1>6, <2>1
  <2>2. CASE ~(k < i)
    <3>1. (front \o back)[k] = back[k - Len(front)]
      BY <1>1, <1>3, <1>5, <1>6, <2>2
    <3>2. k - Len(front) \in 1..(Len(s) - i) /\ i + (k - Len(front)) = k + 1
      BY <1>1, <1>3, <2>2
    <3>3. back[k - Len(front)] = s[i + (k - Len(front))]
      BY <1>4, <3>2
    <3> QED
      BY <2>2, <3>1, <3>2, <3>3
  <2> QED
    BY <2>1, <2>2
<1> QED
  BY <1>5, <1>6, <1>7 DEF Without, front, back

(* A listing of some jobs in name order is a sequence of them without      *)
(* repetition.                                                             *)
LEMMA SortedIdsProperties ==
    ASSUME NEW S \in SUBSET Jobs, NEW s \in SortedIds(S)
    PROVE  /\ s \in Seq(S)
           /\ \A a, b \in DOMAIN s : s[a] = s[b] => a = b
<1>1. Cardinality(S) \in Nat
  BY JobsAssumption, FS_Subset, FS_CardinalityType
<1>2. s \in [1..Cardinality(S) -> S]
  BY DEF SortedIds
<1>3. s \in Seq(S)
  BY <1>1, <1>2
<1>4. \A a, b \in DOMAIN s : a < b => s[a] # s[b]
  BY <1>2, JobsAssumption DEF SortedIds
<1>5. \A a, b \in DOMAIN s : a \in Int /\ b \in Int
  BY <1>1, <1>2
<1> QED
  BY <1>3, <1>4, <1>5

(* Settling a record keeps its shape, its request and its other fields.    *)
LEMMA ClosedRecord ==
    ASSUME NEW r \in Records, NEW status \in Statuses, NEW usage \in 0..MaxUsage
    PROVE  /\ Closed(r, status, usage) \in Records
           /\ Closed(r, status, usage).status = status
           /\ Closed(r, status, usage).req = r.req
           /\ Closed(r, status, usage).deferred = r.deferred
           /\ r.req.estimate = 0 \/ Closed(r, status, usage).settled
  BY DEF Closed, Records

(* An absent job's record is a record.                                     *)
LEMMA BlankRecord == Blank \in Records /\ Blank.status = "absent" /\ ~Blank.deferred
  BY RequestsAssumption, BoundsAssumption DEF Blank, Records, Statuses

(* A new job's record has the status and the request it was given.         *)
LEMMA NewRecordShape ==
    ASSUME NEW r \in Requests, NEW status \in Statuses
    PROVE  /\ NewRecord(r, status) \in Records
           /\ NewRecord(r, status).status = status
           /\ NewRecord(r, status).req = r
           /\ ~NewRecord(r, status).deferred
           /\ ~NewRecord(r, status).settled
  BY BlankRecord DEF NewRecord, Blank, Records

(* Editing one field of a record leaves the others and gives a record.     *)
LEMMA RecordEdits ==
    ASSUME NEW r \in Records
    PROVE  /\ \A status \in Statuses : [r EXCEPT !.status = status] \in Records
           /\ \A b \in BOOLEAN : [r EXCEPT !.deferred = b] \in Records
           /\ [r EXCEPT !.cancelRequested = TRUE] \in Records
           /\ [r EXCEPT !.cancelRequested = TRUE].req = r.req
           /\ [r EXCEPT !.cancelRequested = TRUE].status = r.status
           /\ [r EXCEPT !.status = "stopping", !.cancelRequested = TRUE] \in Records
  BY DEF Records, Statuses

(* A reservation leaves a pair of amounts in the ledger.                   *)
LEMMA ReservedLedger ==
    ASSUME TypeOK, NEW r \in Requests
    PROVE  Reserved(r.estimate) \in [reserved : Nat, settled : Nat]
<1>1. ledger \in [reserved : Nat, settled : Nat] /\ r.estimate \in Nat
  BY RequestsAssumption DEF TypeOK
<1> QED
  BY <1>1 DEF Reserved

(* What a settlement leaves in the ledger is a pair of amounts.            *)
LEMMA SettledLedger ==
    ASSUME TypeOK, NEW j \in Jobs, NEW usage \in 0..MaxUsage
    PROVE  Settled(j, usage) \in [reserved : Nat, settled : Nat]
<1>1. Estimate(j) \in Nat
  BY RequestsAssumption DEF TypeOK, Records, Estimate
<1> QED
  BY <1>1, BoundsAssumption DEF TypeOK, Settled, AtLeastZero

(* _finalize closes a job that had not ended, and nothing else: it keeps   *)
(* the other jobs, the request, and settles what was reserved.             *)
LEMMA FinalizeShape ==
    ASSUME TypeOK, NEW j \in Jobs, NEW r \in Records, r.req = rec[j].req,
           NEW wanted \in {"completed", "failed", "cancelled"}, NEW usage \in 0..MaxUsage,
           FinalizeFrom(r, j, wanted, usage)
    PROVE  /\ rec' \in [Jobs -> Records] /\ ledger' \in [reserved : Nat, settled : Nat]
           /\ \A k \in Jobs \ {j} : rec'[k] = rec[k]
           /\ rec'[j].req = rec[j].req
           /\ r.status \notin {"queued", "running", "stopping"} => rec' = rec
           /\ r.status \in {"queued", "running", "stopping"} =>
                  /\ rec'[j].status = Outcome(r.status, wanted)
                  /\ rec'[j].status \in {"completed", "failed", "cancelled"}
                  /\ rec'[j].req.estimate = 0 \/ rec'[j].settled
<1>1. Outcome(r.status, wanted) \in {"completed", "failed", "cancelled"}
  BY DEF Outcome
<1>2. CASE r.status \in {"queued", "running", "stopping"}
  <2>1. Outcome(r.status, wanted) \in Statuses
    BY <1>1 DEF Statuses, TerminalStatuses
  <2>2. /\ rec' = [rec EXCEPT ![j] = Closed(r, Outcome(r.status, wanted), usage)]
        /\ ledger' = Settled(j, usage)
    BY <1>2 DEF FinalizeFrom
  <2>3. rec \in [Jobs -> Records]
    BY DEF TypeOK
  <2> QED
    BY <1>1, <1>2, <2>1, <2>2, <2>3, ClosedRecord, SettledLedger
<1>3. CASE r.status \notin {"queued", "running", "stopping"}
  BY <1>3 DEF FinalizeFrom, TypeOK
<1> QED
  BY <1>2, <1>3

(* _mark_needs_recovery settles the job and changes no other.              *)
LEMMA MarkShape ==
    ASSUME TypeOK, NEW j \in Jobs, NEW usage \in 0..MaxUsage, MarkNeedsRecovery(j, usage)
    PROVE  /\ rec' \in [Jobs -> Records] /\ ledger' \in [reserved : Nat, settled : Nat]
           /\ \A k \in Jobs \ {j} : rec'[k] = rec[k]
           /\ rec'[j].req = rec[j].req /\ rec'[j].status = "needs_recovery"
           /\ rec'[j].req.estimate = 0 \/ rec'[j].settled
<1>1. /\ rec' = [rec EXCEPT ![j] = Closed(rec[j], "needs_recovery", usage)]
      /\ ledger' = Settled(j, usage)
  BY DEF MarkNeedsRecovery, TypeOK
<1>2. rec \in [Jobs -> Records] /\ "needs_recovery" \in Statuses
  BY DEF TypeOK, Statuses, TerminalStatuses
<1> QED
  BY <1>1, <1>2, ClosedRecord, SettledLedger

-----------------------------------------------------------------------------
(* Types.                                                                  *)

(* The first state is of the right type.                                   *)
LEMMA InitTypeOK == Init => TypeOK
<1> SUFFICES ASSUME Init PROVE TypeOK
  OBVIOUS
<1>1. ledger \in [reserved : Nat, settled : Nat] /\ pending \in Seq(Jobs)
  BY DEF Init
<1>2. /\ rec \in [Jobs -> Records] /\ seen \in [Jobs -> Records]
      /\ worker \in [Jobs -> WorkerSteps]
      /\ event \in [Jobs -> {"absent", "clear", "set"}]
      /\ canceller \in [Jobs -> {"idle", "signal", "await"}]
      /\ born \in [Jobs -> Nat] /\ runs \in [Jobs -> Nat]
  BY BlankRecord DEF Init, WorkerSteps
<1>3. up \in BOOLEAN /\ torn \in BOOLEAN
  BY Zenon DEF Init
<1>4. /\ published \subseteq Jobs /\ raced \subseteq Jobs /\ refused \subseteq Jobs
      /\ activeLocks = {} /\ registered \subseteq CtorKinds \cup LateKinds
  BY DEF Init
<1>5. crashes \in 0..MaxCrashes
  BY BoundsAssumption DEF Init
<1> QED
  BY <1>1, <1>2, <1>3, <1>4, <1>5 DEF TypeOK

(* The part of the type invariant a step of one worker or canceller that   *)
(* ends a job can disturb.                                                 *)
LEMMA EndsType ==
    ASSUME TypeOK, NEW j \in Jobs, NEW usage \in 0..MaxUsage,
           NEW wanted \in {"completed", "failed", "cancelled"}, Ends(j, wanted, usage)
    PROVE  TypeOK'
<1>1. rec[j] \in Records /\ FinalizeFrom(rec[j], j, wanted, usage)
  BY DEF TypeOK, Ends, Finalize
<1>2. rec' \in [Jobs -> Records] /\ ledger' \in [reserved : Nat, settled : Nat]
  BY <1>1, FinalizeShape
<1> QED
  BY <1>2 DEF Ends, GoTo, TypeOK, WorkerSteps, queue, history

(* A dying process leaves memory in its first state.                       *)
LEMMA DiesType ==
    ASSUME TypeOK, Dies,
           rec' \in [Jobs -> Records], ledger' \in [reserved : Nat, settled : Nat],
           refused' \subseteq Jobs, torn' \in BOOLEAN, born' \in [Jobs -> Nat]
    PROVE  TypeOK'
<1>1. pending' \in Seq(Jobs) /\ crashes' \in 0..MaxCrashes
  BY BoundsAssumption DEF Dies, TypeOK
<1> QED
  BY <1>1, BlankRecord DEF Dies, TypeOK, WorkerSteps

(* Every action keeps the types.                                           *)
LEMMA TypePreserved == ASSUME TypeOK, [Next]_vars PROVE TypeOK'
<1> USE DEF disk, threads, queue, history
<1>1. ASSUME NEW j \in Jobs, NEW r \in Requests, Create(j, r) PROVE TypeOK'
  <2>1. rec' \in [Jobs -> Records]
    BY <1>1, NewRecordShape DEF Create, TypeOK, Statuses
  <2>2. ledger' \in [reserved : Nat, settled : Nat]
    BY <1>1, ReservedLedger DEF Create
  <2>3. CreatedSoFar + 1 \in Nat
    BY JobsAssumption, FS_Subset, FS_CardinalityType DEF CreatedSoFar
  <2>4. pending' \in Seq(Jobs)
    BY <1>1, AppendProperties DEF Create, TypeOK
  <2> QED
    BY <1>1, <2>1, <2>2, <2>3, <2>4 DEF Create, TypeOK
<1>2. ASSUME NEW j \in Jobs, NEW r \in Requests, CreateRefused(j, r) PROVE TypeOK'
  <2>1. rec' \in [Jobs -> Records]
    BY <1>2, NewRecordShape DEF CreateRefused, TypeOK, Statuses, TerminalStatuses
  <2>2. CreatedSoFar + 1 \in Nat
    BY JobsAssumption, FS_Subset, FS_CardinalityType DEF CreatedSoFar
  <2> QED
    BY <1>2, <2>1, <2>2 DEF CreateRefused, TypeOK
<1>3. ASSUME NEW k \in LateKinds, RegisterRunner(k) PROVE TypeOK'
  <2> DEFINE waiting == {j \in Jobs : rec[j].req.kind = k /\ Status(j) = "queued" /\ rec[j].deferred}
  <2>1. PICK s \in SortedIds(waiting) : pending' = pending \o s
    BY <1>3 DEF RegisterRunner
  <2>2. s \in Seq(Jobs)
    BY <2>1, SortedIdsProperties
  <2>3. pending' \in Seq(Jobs)
    BY <2>1, <2>2, ConcatProperties DEF TypeOK
  <2>4. \A j \in Jobs : [rec[j] EXCEPT !.deferred = FALSE] \in Records
    BY RecordEdits DEF TypeOK
  <2>5. rec' \in [Jobs -> Records]
    BY <1>3, <2>4 DEF RegisterRunner, TypeOK
  <2> QED
    BY <1>3, <2>3, <2>5 DEF RegisterRunner, TypeOK
<1>4. CASE Dispatch
  <2>1. PICK i \in DOMAIN pending :
          /\ pending' = Without(pending, i)
          /\ activeLocks' = activeLocks \cup ({LockOf(pending[i])} \ {NoLock})
          /\ worker' = [worker EXCEPT ![pending[i]] = "spawned"]
    BY <1>4 DEF Dispatch
  <2>2. pending \in Seq(Jobs) /\ pending[i] \in Jobs
    BY <2>1 DEF TypeOK
  <2>3. pending' \in Seq(Jobs)
    BY <2>1, <2>2, WithoutProperties
  <2>4. LockOf(pending[i]) \in {r.lock : r \in Requests}
    BY <2>2 DEF LockOf, TypeOK, Records
  <2>5. worker' \in [Jobs -> WorkerSteps] /\ activeLocks' \subseteq {r.lock : r \in Requests}
    BY <2>1, <2>2, <2>4 DEF TypeOK, WorkerSteps
  <2> QED
    BY <1>4, <2>3, <2>5 DEF Dispatch, TypeOK
<1>5. ASSUME NEW j \in Jobs, ReadRecord(j) PROVE TypeOK'
  BY <1>5 DEF ReadRecord, At, GoTo, TypeOK, WorkerSteps
<1>6. ASSUME NEW j \in Jobs, Start(j) PROVE TypeOK'
  <2>0. seen[j] \in Records /\ "running" \in Statuses
    BY DEF TypeOK, Statuses
  <2>1. rec' \in [Jobs -> Records]
    BY <1>6, <2>0, RecordEdits DEF Start, TypeOK
  <2>2. seen' \in [Jobs -> Records] /\ event' \in [Jobs -> {"absent", "clear", "set"}]
    BY <1>6, BlankRecord DEF Start, TypeOK
  <2> QED
    BY <1>6, <2>1, <2>2 DEF Start, At, GoTo, TypeOK, WorkerSteps
<1>7. ASSUME NEW j \in Jobs, CancelBeforeRunner(j) PROVE TypeOK'
  BY <1>7, BoundsAssumption, EndsType DEF CancelBeforeRunner
<1>8. ASSUME NEW j \in Jobs, EnterRunner(j) PROVE TypeOK'
  BY <1>8 DEF EnterRunner, At, GoTo, TypeOK, WorkerSteps
<1>9. ASSUME NEW j \in Jobs, RunnerReturns(j) PROVE TypeOK'
  BY <1>9 DEF RunnerReturns, At, GoTo, TypeOK, WorkerSteps
<1>10. ASSUME NEW j \in Jobs, NEW usage \in 0..MaxUsage,
              RunnerReturnsLate(j, usage) \/ RunnerObservesCancel(j, usage)
       PROVE  TypeOK'
  BY <1>10, EndsType DEF RunnerReturnsLate, RunnerObservesCancel
<1>11. ASSUME NEW j \in Jobs, NEW usage \in 0..MaxUsage, RunnerFails(j, usage) PROVE TypeOK'
  BY <1>11, EndsType DEF RunnerFails
<1>12. ASSUME NEW j \in Jobs, WriteResult(j) PROVE TypeOK'
  BY <1>12 DEF WriteResult, At, GoTo, TypeOK, WorkerSteps
<1>13. ASSUME NEW j \in Jobs, NEW usage \in 0..MaxUsage, Complete(j, usage) PROVE TypeOK'
  BY <1>13, EndsType DEF Complete
<1>14. ASSUME NEW j \in Jobs, LeaveWorker(j) PROVE TypeOK'
  BY <1>14 DEF LeaveWorker, At, GoTo, TypeOK, WorkerSteps
<1>15. ASSUME NEW j \in Jobs, CancelQueued(j) PROVE TypeOK'
  <2> DEFINE r == [rec[j] EXCEPT !.cancelRequested = TRUE]
  <2>1. r \in Records /\ r.req = rec[j].req /\ 0 \in 0..MaxUsage
    <3>1. rec[j] \in Records
      BY DEF TypeOK
    <3>2. r \in Records /\ r.req = rec[j].req
      BY <3>1, RecordEdits, Zenon
    <3> QED
      BY <3>2, BoundsAssumption
  <2>2. FinalizeFrom(r, j, "cancelled", 0)
    BY <1>15 DEF CancelQueued
  <2>3. rec' \in [Jobs -> Records] /\ ledger' \in [reserved : Nat, settled : Nat]
    BY <2>1, <2>2, FinalizeShape
  <2>4. pending' \in Seq(Jobs)
    BY <1>15, WithoutProperties DEF CancelQueued, TypeOK
  <2> QED
    BY <1>15, <2>3, <2>4 DEF CancelQueued, TypeOK
<1>16. ASSUME NEW j \in Jobs, CancelRunning(j) PROVE TypeOK'
  <2>1. rec' \in [Jobs -> Records]
    BY <1>16, RecordEdits DEF CancelRunning, TypeOK
  <2> QED
    BY <1>16, <2>1 DEF CancelRunning, TypeOK
<1>17. ASSUME NEW j \in Jobs, SignalCancel(j) PROVE TypeOK'
  BY <1>17 DEF SignalCancel, TypeOK
<1>18. ASSUME NEW j \in Jobs, NEW usage \in 0..MaxUsage, CancelSettles(j, usage) PROVE TypeOK'
  <2>1. rec[j] \in Records
    BY DEF TypeOK
  <2>2. rec' \in [Jobs -> Records] /\ ledger' \in [reserved : Nat, settled : Nat]
    BY <1>18, <2>1, MarkShape, FinalizeShape DEF CancelSettles, Finalize, TypeOK
  <2> QED
    BY <1>18, <2>2 DEF CancelSettles, TypeOK
<1>19. CASE Crashes
  <2>1. CreatedSoFar + 1 \in Nat
    BY JobsAssumption, FS_Subset, FS_CardinalityType DEF CreatedSoFar
  <2>2. CASE Crash
    BY <2>2, DiesType DEF Crash, TypeOK
  <2>3. ASSUME NEW j \in Jobs, NEW r \in Requests, CrashAfterReserve(j, r) PROVE TypeOK'
    <3>1. ledger' \in [reserved : Nat, settled : Nat]
      BY <2>3, ReservedLedger DEF CrashAfterReserve
    <3> QED
      BY <2>3, <3>1, DiesType DEF CrashAfterReserve, TypeOK
  <2>4. ASSUME NEW j \in Jobs, NEW r \in Requests, CrashBeforeRefusal(j, r) PROVE TypeOK'
    <3>1. rec' \in [Jobs -> Records]
      BY <2>4, NewRecordShape DEF CrashBeforeRefusal, TypeOK, Statuses
    <3> QED
      BY <2>1, <2>4, <3>1, DiesType DEF CrashBeforeRefusal, TypeOK
  <2>5. ASSUME NEW j \in Jobs, CrashInCancelQueued(j) PROVE TypeOK'
    <3>1. rec' \in [Jobs -> Records]
      BY <2>5, RecordEdits DEF CrashInCancelQueued, TypeOK
    <3>2. Settled(j, 0) \in [reserved : Nat, settled : Nat] /\ torn \in BOOLEAN
      BY BoundsAssumption, SettledLedger DEF TypeOK
    <3>3. ledger' \in [reserved : Nat, settled : Nat] /\ torn' \in BOOLEAN
      BY <2>5, <3>2 DEF CrashInCancelQueued, TypeOK
    <3> QED
      BY <2>5, <3>1, <3>3, DiesType DEF CrashInCancelQueued, TypeOK
  <2>6. ASSUME NEW j \in Jobs, NEW usage \in 0..MaxUsage, CrashInSettlement(j, usage) PROVE TypeOK'
    <3>1. ledger' \in [reserved : Nat, settled : Nat] /\ torn' \in BOOLEAN
      BY <2>6, SettledLedger DEF CrashInSettlement
    <3> QED
      BY <2>6, <3>1, DiesType DEF CrashInSettlement, TypeOK
  <2> QED
    BY <1>19, <2>2, <2>3, <2>4, <2>5, <2>6 DEF Crashes
<1>20. CASE Restart
  <2>1. \A j \in Jobs, status \in Statuses : [rec[j] EXCEPT !.status = status] \in Records
    BY RecordEdits DEF TypeOK
  <2>2. \A j \in Jobs : [rec[j] EXCEPT !.deferred = TRUE] \in Records
    BY RecordEdits DEF TypeOK
  <2>3. {"needs_recovery", "interrupted"} \subseteq Statuses
    BY DEF Statuses, TerminalStatuses
  <2>4. rec' \in [Jobs -> Records]
    BY <1>20, <2>1, <2>2, <2>3 DEF Restart, TypeOK
  <2>5. pending' \in Seq(Jobs)
    BY <1>20, SortedIdsProperties DEF Restart
  <2> QED
    BY <1>20, <2>4, <2>5 DEF Restart, TypeOK
<1>21. CASE Quiet \/ UNCHANGED vars
  BY <1>21 DEF Quiet, vars, TypeOK
<1> QED
  BY <1>1, <1>2, <1>3, <1>4, <1>5, <1>6, <1>7, <1>8, <1>9, <1>10, <1>11, <1>12, <1>13, <1>14,
     <1>15, <1>16, <1>17, <1>18, <1>19, <1>20, <1>21
     DEF Next, Client, RunnerStep, WorkerStep, CancellerStep

-----------------------------------------------------------------------------
(* The inductive invariant.                                                *)

(* What the record, the worker and the copy the worker read say of one job *)
(* agree: a job that a worker has not started yet is queued or was         *)
(* cancelled and its copy is of the same request; one that was started is  *)
(* running, stopping or given up; a deferred one waits for its runner.     *)
JobSound(j) ==
    /\ worker[j] \in {"spawned", "read"} => Status(j) \in {"queued", "cancelled"} /\ runs[j] = 0
    /\ worker[j] = "read" =>
           seen[j].req = rec[j].req /\ seen[j].status \in {"queued", "cancelled"}
    /\ worker[j] \in {"started", "runner", "checked", "published"} =>
           Status(j) \in {"running", "stopping", "needs_recovery"}
    /\ worker[j] = "started" => runs[j] = 0
    /\ worker[j] = "done" => Status(j) \in TerminalStatuses
    /\ Status(j) = "queued" /\ rec[j].deferred =>
           worker[j] = "none" /\ rec[j].req.kind \notin CtorKinds
    /\ Status(j) \in {"absent", "queued"} => runs[j] = 0
    /\ runs[j] <= 1

JobsSound == \A j \in Jobs : JobSound(j)

(* Jobs in the queue are queued on disk, without a worker, and there once. *)
Waits(j) == Status(j) = "queued" /\ worker[j] = "none" /\ ~rec[j].deferred
QueueSound ==
    /\ \A i \in DOMAIN pending : Waits(pending[i])
    /\ \A i, k \in DOMAIN pending : pending[i] = pending[k] => i = k

(* A service that is down has crashed and has no thread.                   *)
DownSound == ~up => crashes > 0 /\ \A j \in Jobs : worker[j] = "none"

(* A worker's lock is taken.                                               *)
LocksTaken ==
    \A j \in Jobs : worker[j] # "none" /\ LockOf(j) # NoLock => LockOf(j) \in activeLocks

IInv == TypeOK /\ JobsSound /\ QueueSound /\ DownSound /\ LocksTaken /\ LockExclusion

(* The first state satisfies it.                                           *)
LEMMA InitIInv == Init => IInv
<1> SUFFICES ASSUME Init PROVE IInv
  OBVIOUS
<1>1. TypeOK
  BY InitTypeOK
<1>2. JobsSound
  BY BlankRecord DEF Init, JobsSound, JobSound, Status
<1>3. QueueSound
  BY DEF Init, QueueSound
<1>4. DownSound /\ LocksTaken /\ LockExclusion
  BY DEF Init, DownSound, LocksTaken, LockExclusion
<1> QED
  BY <1>1, <1>2, <1>3, <1>4 DEF IInv

(* A step that touches one job's record and no thread, lock or queue entry *)
(* keeps the invariant when that job stays sound and is not in the queue.  *)
LEMMA RecordStep ==
    ASSUME IInv, TypeOK', NEW j \in Jobs,
           \A k \in Jobs \ {j} : rec'[k] = rec[k],
           rec'[j].req = rec[j].req,
           UNCHANGED <<up, crashes, queue, worker, seen, runs>>,
           JobSound(j)', j \notin Pending
    PROVE  IInv'
<1> USE DEF IInv, queue
<1>1. JobsSound'
  BY DEF JobsSound, JobSound, Status
<1>2. QueueSound'
  <2>1. \A i \in DOMAIN pending : pending[i] \in Jobs \ {j}
    BY DEF Pending, TypeOK
  <2>2. pending' = pending /\ worker' = worker
    OBVIOUS
  <2> QED
    BY <2>1, <2>2 DEF QueueSound, Waits, Status
<1>3. DownSound' /\ LocksTaken' /\ LockExclusion'
  BY DEF DownSound, LocksTaken, LockExclusion, LockOf
<1> QED
  BY <1>1, <1>2, <1>3

(* A worker moves from one of its steps to another, its job stays sound.   *)
LEMMA WorkerMoves ==
    ASSUME IInv, TypeOK', NEW j \in Jobs, NEW step \in WorkerSteps \ {"none"},
           worker[j] # "none", GoTo(j, step),
           \A k \in Jobs \ {j} : rec'[k] = rec[k] /\ seen'[k] = seen[k] /\ runs'[k] = runs[k],
           rec'[j].req = rec[j].req,
           UNCHANGED <<up, crashes, queue>>,
           JobSound(j)'
    PROVE  IInv'
<1> USE DEF IInv, queue
<1>1. /\ worker'[j] = step /\ step # "none"
      /\ \A k \in Jobs \ {j} : worker'[k] = worker[k]
  BY DEF GoTo, TypeOK
<1>2. JobsSound'
  BY <1>1 DEF JobsSound, JobSound, Status
<1>3. QueueSound'
  <2>1. \A i \in DOMAIN pending : pending[i] \in Jobs \ {j}
    BY DEF QueueSound, Waits, TypeOK
  <2>2. pending' = pending
    OBVIOUS
  <2> QED
    BY <1>1, <2>1, <2>2 DEF QueueSound, Waits, Status
<1>4. DownSound' /\ LocksTaken' /\ LockExclusion'
  BY <1>1 DEF DownSound, LocksTaken, LockExclusion, LockOf
<1> QED
  BY <1>2, <1>3, <1>4

(* A worker that finalises its job leaves it ended and sound.              *)
LEMMA EndsIInv ==
    ASSUME IInv, TypeOK', NEW j \in Jobs, NEW usage \in 0..MaxUsage,
           NEW wanted \in {"completed", "failed", "cancelled"},
           worker[j] \in {"started", "runner", "checked", "published"},
           Ends(j, wanted, usage)
    PROVE  IInv'
<1>1. rec[j] \in Records /\ FinalizeFrom(rec[j], j, wanted, usage)
  BY DEF IInv, TypeOK, Ends, Finalize
<1>2. Status(j) \in {"running", "stopping", "needs_recovery"}
  BY DEF IInv, JobsSound, JobSound
<1>3. /\ \A k \in Jobs \ {j} : rec'[k] = rec[k]
      /\ rec'[j].req = rec[j].req
      /\ Status(j)' \in TerminalStatuses
  BY <1>1, <1>2, FinalizeShape DEF IInv, Status, TerminalStatuses
<1>4. worker'[j] = "done" /\ runs'[j] <= 1
  BY DEF Ends, GoTo, IInv, TypeOK, JobsSound, JobSound, history
<1>5. JobSound(j)'
  BY <1>3, <1>4 DEF JobSound, TerminalStatuses
<1> QED
  BY <1>3, <1>5, WorkerMoves DEF Ends, history, WorkerSteps

(* A dying process keeps the invariant if what is absent, queued or        *)
(* deferred afterwards was so before.                                      *)
LEMMA DiesIInv ==
    ASSUME IInv, TypeOK', Dies,
           \A j \in Jobs : Status(j)' \in {"absent", "queued"} => Status(j) \in {"absent", "queued"},
           \A j \in Jobs : Status(j)' = "queued" /\ rec'[j].deferred =>
               Status(j) = "queued" /\ rec[j].deferred /\ rec'[j].req = rec[j].req
    PROVE  IInv'
<1>1. JobsSound'
  BY DEF IInv, JobsSound, JobSound, Dies
<1>2. QueueSound'
  BY DEF Dies, QueueSound
<1>3. DownSound' /\ LocksTaken' /\ LockExclusion'
  BY BoundsAssumption DEF Dies, DownSound, LocksTaken, LockExclusion, IInv, TypeOK
<1> QED
  BY <1>1, <1>2, <1>3 DEF IInv

(* The queue after an append of jobs that wait and are not in it.          *)
LEMMA QueueGrows ==
    ASSUME TypeOK, QueueSound, NEW s \in Seq(Jobs), pending' = pending \o s,
           \A i, k \in DOMAIN s : s[i] = s[k] => i = k,
           \A i \in DOMAIN s : s[i] \notin Pending /\ Waits(s[i])',
           \A j \in Jobs : Waits(j) => Waits(j)'
    PROVE  QueueSound'
<1>1. pending \in Seq(Jobs)
  BY DEF TypeOK
<1>2. /\ pending' \in Seq(Jobs) /\ Len(pending') = Len(pending) + Len(s)
      /\ \A i \in 1..(Len(pending) + Len(s)) :
            pending'[i] = IF i <= Len(pending) THEN pending[i] ELSE s[i - Len(pending)]
  BY <1>1, ConcatProperties
<1>3. ASSUME NEW i \in DOMAIN pending'
      PROVE  \/ i \in DOMAIN pending /\ pending'[i] = pending[i]
             \/ i - Len(pending) \in DOMAIN s /\ pending'[i] = s[i - Len(pending)]
  BY <1>1, <1>2
<1>4. \A i \in DOMAIN pending' : i \in Int /\ Len(pending) \in Int
  BY <1>1, <1>2
<1>5. \A i \in DOMAIN pending : pending[i] \in Jobs /\ pending[i] \in Pending
  BY <1>1 DEF Pending
<1>6. \A j \in Jobs : (\E i \in DOMAIN pending' : pending'[i] = j) => Waits(j)'
  BY <1>3, <1>5 DEF QueueSound
<1>7. \A i \in DOMAIN pending' : pending'[i] \in Jobs
  BY <1>2
<1>8. \A i, k \in DOMAIN pending' : pending'[i] = pending'[k] => i = k
  BY <1>3, <1>4, <1>5 DEF QueueSound
<1> QED
  BY <1>6, <1>7, <1>8 DEF QueueSound

(* The queue after one entry is taken out: the others still wait.          *)
LEMMA QueueShrinks ==
    ASSUME TypeOK, QueueSound, NEW i \in DOMAIN pending, pending' = Without(pending, i),
           \A j \in Jobs \ {pending[i]} : Waits(j) => Waits(j)'
    PROVE  QueueSound'
<1>1. pending \in Seq(Jobs) /\ i \in 1..Len(pending) /\ Len(pending) \in Nat
  BY DEF TypeOK
<1>2. /\ pending' \in Seq(Jobs) /\ Len(pending') = Len(pending) - 1
      /\ \A k \in 1..(Len(pending) - 1) :
            pending'[k] = IF k < i THEN pending[k] ELSE pending[k + 1]
  BY <1>1, WithoutProperties
<1> DEFINE From(k) == IF k < i THEN k ELSE k + 1
<1>3. \A k \in DOMAIN pending' :
        k \in Int /\ From(k) \in DOMAIN pending /\ From(k) # i /\ pending'[k] = pending[From(k)]
  BY <1>1, <1>2
<1>4. \A k, m \in Int : From(k) = From(m) => k = m
  BY <1>1
<1> HIDE DEF From
<1>5. \A k, m \in DOMAIN pending' : pending'[k] = pending'[m] => k = m
  BY <1>3, <1>4 DEF QueueSound
<1>6. ASSUME NEW j \in Jobs, NEW k \in DOMAIN pending', pending'[k] = j
      PROVE  j # pending[i] /\ Waits(j)
  BY <1>3, <1>6 DEF QueueSound
<1>7. \A k \in DOMAIN pending' : pending'[k] \in Jobs
  BY <1>2
<1>8. \A j \in Jobs : (\E k \in DOMAIN pending' : pending'[k] = j) => Waits(j)'
  BY <1>6
<1> QED
  BY <1>5, <1>7, <1>8 DEF QueueSound

(* A job that does not exist has no worker and is not in the queue.        *)
LEMMA AbsentIsFresh ==
    ASSUME IInv, NEW j \in Jobs, Status(j) = "absent"
    PROVE  worker[j] = "none" /\ j \notin Pending /\ runs[j] = 0
<1>1. worker[j] \in WorkerSteps /\ JobSound(j)
  BY DEF IInv, TypeOK, JobsSound
<1>2. worker[j] = "none" /\ runs[j] = 0
  BY <1>1 DEF JobSound, WorkerSteps, TerminalStatuses
<1> QED
  BY <1>2 DEF IInv, QueueSound, Waits, Pending

(* Every step keeps the invariant.                                         *)
LEMMA IInvPreserved == ASSUME IInv, [Next]_vars PROVE IInv'
<1> USE DEF disk, threads, queue, history
<1>0. TypeOK /\ TypeOK' /\ JobsSound /\ QueueSound /\ DownSound /\ LocksTaken /\ LockExclusion
  BY TypePreserved DEF IInv
<1>1. ASSUME NEW j \in Jobs, NEW r \in Requests, Create(j, r) PROVE IInv'
  <2>1. /\ \A k \in Jobs \ {j} : rec'[k] = rec[k]
        /\ rec'[j].status = "queued" /\ ~rec'[j].deferred
        /\ worker[j] = "none" /\ runs[j] = 0 /\ j \notin Pending
    BY <1>0, <1>1, NewRecordShape, AbsentIsFresh DEF Create, Admissible, TypeOK, Statuses
  <2>2. JobsSound'
    BY <1>0, <1>1, <2>1 DEF Create, JobsSound, JobSound, Status
  <2>3. QueueSound'
    <3>1. /\ pending' = pending \o <<j>> /\ <<j>> \in Seq(Jobs)
          /\ DOMAIN <<j>> = {1} /\ <<j>>[1] = j
      BY <1>0, <1>1, AppendIsConcat DEF Create, TypeOK
    <3>2. Waits(j)' /\ \A k \in Jobs : Waits(k) => Waits(k)'
      BY <1>0, <1>1, <2>1 DEF Create, Waits, Status
    <3>3. \A i \in DOMAIN <<j>> : <<j>>[i] \notin Pending /\ Waits(<<j>>[i])'
      BY <2>1, <3>1, <3>2
    <3>4. \A i, k \in DOMAIN <<j>> : <<j>>[i] = <<j>>[k] => i = k
      BY <3>1
    <3> HIDE DEF queue
    <3> QED
      BY <1>0, <3>1, <3>2, <3>3, <3>4, QueueGrows
  <2>4. DownSound' /\ LocksTaken' /\ LockExclusion'
    BY <1>0, <1>1, <2>1 DEF Create, Admissible, DownSound, LocksTaken, LockExclusion, LockOf
  <2> QED
    BY <1>0, <2>2, <2>3, <2>4 DEF IInv
<1>2. ASSUME NEW j \in Jobs, NEW r \in Requests, CreateRefused(j, r) PROVE IInv'
  <2>1. /\ \A k \in Jobs \ {j} : rec'[k] = rec[k]
        /\ rec'[j].status = "failed"
        /\ worker[j] = "none" /\ runs[j] = 0 /\ j \notin Pending
    BY <1>0, <1>2, NewRecordShape, AbsentIsFresh
       DEF CreateRefused, Admissible, TypeOK, Statuses, TerminalStatuses
  <2>2. JobsSound'
    BY <1>0, <1>2, <2>1 DEF CreateRefused, JobsSound, JobSound, Status
  <2>3. QueueSound'
    <3>1. \A i \in DOMAIN pending : pending[i] \in Jobs \ {j}
      BY <1>0, <2>1 DEF Pending, TypeOK
    <3> QED
      BY <1>0, <1>2, <2>1, <3>1 DEF CreateRefused, QueueSound, Waits, Status
  <2>4. DownSound' /\ LocksTaken' /\ LockExclusion'
    BY <1>0, <1>2, <2>1 DEF CreateRefused, Admissible, DownSound, LocksTaken, LockExclusion, LockOf
  <2> QED
    BY <1>0, <2>2, <2>3, <2>4 DEF IInv
<1>3. ASSUME NEW k \in LateKinds, RegisterRunner(k) PROVE IInv'
  <2> DEFINE waiting == {j \in Jobs : rec[j].req.kind = k /\ Status(j) = "queued" /\ rec[j].deferred}
  <2>1. PICK s \in SortedIds(waiting) : pending' = pending \o s
    BY <1>3 DEF RegisterRunner
  <2>2. /\ \A j \in Jobs \ waiting : rec'[j] = rec[j]
        /\ \A j \in waiting : rec'[j] = [rec[j] EXCEPT !.deferred = FALSE]
    BY <1>3 DEF RegisterRunner
  <2>3. \A j \in Jobs : Status(j)' = Status(j) /\ rec'[j].req = rec[j].req
                        /\ (rec'[j].deferred => rec[j].deferred)
    BY <1>0, <2>2 DEF Status, TypeOK, Records
  <2>4. \A j \in waiting : Waits(j)' /\ j \notin Pending
    BY <1>0, <1>3, <2>2, <2>3
       DEF RegisterRunner, Waits, JobsSound, JobSound, QueueSound, Pending, TypeOK, Records
  <2>5. \A j \in Jobs : Waits(j) => Waits(j)'
    BY <1>3, <2>3 DEF RegisterRunner, Waits
  <2>6. s \in Seq(waiting) /\ \A i, m \in DOMAIN s : s[i] = s[m] => i = m
    BY <2>1, SortedIdsProperties
  <2>7. s \in Seq(Jobs) /\ \A i \in DOMAIN s : s[i] \in waiting
    BY <2>6
  <2>8. QueueSound'
    BY <1>0, <2>1, <2>4, <2>5, <2>6, <2>7, QueueGrows
  <2>9. JobsSound' /\ DownSound' /\ LocksTaken' /\ LockExclusion'
    BY <1>0, <1>3, <2>3
       DEF RegisterRunner, JobsSound, JobSound, DownSound, LocksTaken, LockExclusion, LockOf
  <2> QED
    BY <1>0, <2>8, <2>9 DEF IInv
<1>4. CASE Dispatch
  <2>1. PICK i \in DOMAIN pending :
          /\ LockFree(pending[i])
          /\ pending' = Without(pending, i)
          /\ activeLocks' = activeLocks \cup ({LockOf(pending[i])} \ {NoLock})
          /\ worker' = [worker EXCEPT ![pending[i]] = "spawned"]
    BY <1>4 DEF Dispatch
  <2> DEFINE j == pending[i]
  <2>2. j \in Jobs /\ Waits(j)
    BY <1>0, <2>1 DEF TypeOK, QueueSound
  <2>3. /\ worker'[j] = "spawned" /\ \A k \in Jobs \ {j} : worker'[k] = worker[k]
        /\ UNCHANGED <<rec, runs, seen, up, crashes>>
    BY <1>0, <1>4, <2>1, <2>2 DEF Dispatch, TypeOK
  <2>4. QueueSound'
    <3>1. \A k \in Jobs \ {j} : Waits(k) => Waits(k)'
      BY <2>3 DEF Waits, Status
    <3> QED
      BY <1>0, <2>1, <3>1, QueueShrinks
  <2> HIDE DEF j
  <2>5. JobsSound'
    BY <1>0, <2>2, <2>3 DEF JobsSound, JobSound, Status, Waits
  <2>6. DownSound'
    BY <1>0, <1>4, <2>3 DEF Dispatch, DownSound
  <2>7. LocksTaken' /\ LockExclusion'
    BY <1>0, <2>1, <2>2, <2>3 DEF j, LockFree, LocksTaken, LockExclusion, LockOf
  <2> QED
    BY <1>0, <2>4, <2>5, <2>6, <2>7 DEF IInv
<1>5. ASSUME NEW j \in Jobs, ReadRecord(j) PROVE IInv'
  <2>1. JobSound(j)'
    BY <1>0, <1>5 DEF ReadRecord, At, GoTo, JobsSound, JobSound, Status, TypeOK
  <2> QED
    BY <1>0, <1>5, <2>1, WorkerMoves DEF ReadRecord, At, IInv, TypeOK, WorkerSteps
<1>6. ASSUME NEW j \in Jobs, Start(j) PROVE IInv'
  <2>1. /\ seen[j].req = rec[j].req /\ seen[j].status \in {"queued", "cancelled"} /\ runs[j] = 0
        /\ seen[j] \in Records
    BY <1>0, <1>6 DEF Start, At, JobsSound, JobSound, TypeOK
  <2>2. rec'[j] = [seen[j] EXCEPT !.status = "running"]
    BY <1>0, <1>6, <2>1 DEF Start, TypeOK
  <2>3. rec'[j].status = "running" /\ rec'[j].req = rec[j].req
    BY <2>1, <2>2 DEF Records
  <2>4. JobSound(j)'
    BY <1>0, <1>6, <2>1, <2>3 DEF Start, GoTo, JobSound, Status, TypeOK
  <2> QED
    BY <1>0, <1>6, <2>3, <2>4, WorkerMoves DEF Start, At, IInv, TypeOK, WorkerSteps
<1>7. ASSUME NEW j \in Jobs, CancelBeforeRunner(j) PROVE IInv'
  BY <1>0, <1>7, BoundsAssumption, EndsIInv DEF CancelBeforeRunner, At
<1>8. ASSUME NEW j \in Jobs, EnterRunner(j) PROVE IInv'
  <2>1. JobSound(j)'
    BY <1>0, <1>8 DEF EnterRunner, At, GoTo, JobsSound, JobSound, Status, TypeOK
  <2> QED
    BY <1>0, <1>8, <2>1, WorkerMoves DEF EnterRunner, At, IInv, TypeOK, WorkerSteps
<1>9. ASSUME NEW j \in Jobs, RunnerReturns(j) \/ WriteResult(j) PROVE IInv'
  <2>1. JobSound(j)'
    BY <1>0, <1>9 DEF RunnerReturns, WriteResult, At, GoTo, JobsSound, JobSound, Status, TypeOK
  <2> QED
    BY <1>0, <1>9, <2>1, WorkerMoves DEF RunnerReturns, WriteResult, At, IInv, TypeOK, WorkerSteps
<1>10. ASSUME NEW j \in Jobs, NEW usage \in 0..MaxUsage,
              RunnerReturnsLate(j, usage) \/ RunnerObservesCancel(j, usage)
       PROVE  IInv'
  BY <1>0, <1>10, EndsIInv DEF RunnerReturnsLate, RunnerObservesCancel, At
<1>11. ASSUME NEW j \in Jobs, NEW usage \in 0..MaxUsage, RunnerFails(j, usage) PROVE IInv'
  BY <1>0, <1>11, EndsIInv DEF RunnerFails
<1>12. ASSUME NEW j \in Jobs, NEW usage \in 0..MaxUsage, Complete(j, usage) PROVE IInv'
  BY <1>0, <1>12, EndsIInv DEF Complete, At
<1>13. ASSUME NEW j \in Jobs, LeaveWorker(j) PROVE IInv'
  <2>1. /\ worker[j] = "done" /\ worker'[j] = "none"
        /\ \A k \in Jobs \ {j} : worker'[k] = worker[k]
        /\ UNCHANGED <<rec, seen, runs, pending, up, crashes>>
        /\ activeLocks' = activeLocks \ {LockOf(j)}
    BY <1>0, <1>13 DEF LeaveWorker, At, GoTo, TypeOK
  <2>2. JobsSound'
    BY <1>0, <2>1 DEF JobsSound, JobSound, Status, TerminalStatuses
  <2>3. QueueSound'
    BY <1>0, <2>1 DEF QueueSound, Waits, Status, TypeOK
  <2>4. DownSound' /\ LocksTaken' /\ LockExclusion'
    BY <1>0, <2>1 DEF DownSound, LocksTaken, LockExclusion, LockOf
  <2> QED
    BY <1>0, <2>2, <2>3, <2>4 DEF IInv
<1>14. ASSUME NEW j \in Jobs, CancelQueued(j) PROVE IInv'
  <2> DEFINE r == [rec[j] EXCEPT !.cancelRequested = TRUE]
  <2>1. r \in Records /\ r.req = rec[j].req /\ r.status = "queued" /\ 0 \in 0..MaxUsage
    <3>1. rec[j] \in Records /\ rec[j].status = "queued"
      BY <1>0, <1>14 DEF TypeOK, CancelQueued, Status
    <3>2. r \in Records /\ r.req = rec[j].req /\ r.status = rec[j].status
      BY <3>1, RecordEdits, Zenon
    <3> QED
      BY <3>1, <3>2, BoundsAssumption
  <2> HIDE DEF r
  <2>2. FinalizeFrom(r, j, "cancelled", 0)
    BY <1>14 DEF CancelQueued, r
  <2>3. /\ \A k \in Jobs \ {j} : rec'[k] = rec[k]
        /\ rec'[j].req = rec[j].req /\ rec'[j].status = "cancelled"
    BY <1>0, <2>1, <2>2, FinalizeShape DEF Outcome
  <2>4. UNCHANGED <<worker, seen, runs, up, crashes, activeLocks>>
    BY <1>14 DEF CancelQueued
  <2>5. QueueSound'
    <3>1. \A k \in Jobs \ {j} : Waits(k) => Waits(k)'
      BY <2>3, <2>4 DEF Waits, Status
    <3>2. CASE j \in Pending
      <4>1. PICK i \in DOMAIN pending : pending[i] = j /\ pending' = Without(pending, i)
        BY <1>14, <3>2 DEF CancelQueued
      <4> QED
        BY <1>0, <3>1, <4>1, QueueShrinks
    <3>3. CASE j \notin Pending
      <4>1. \A i \in DOMAIN pending : pending[i] \in Jobs \ {j}
        BY <1>0, <3>3 DEF Pending, TypeOK
      <4>2. pending' = pending
        BY <1>14, <3>3 DEF CancelQueued
      <4> QED
        BY <1>0, <3>1, <4>1, <4>2 DEF QueueSound
    <3> QED
      BY <3>2, <3>3
  <2>6. JobsSound'
    BY <1>0, <1>14, <2>3, <2>4 DEF CancelQueued, JobsSound, JobSound, Status, TerminalStatuses
  <2>7. DownSound' /\ LocksTaken' /\ LockExclusion'
    BY <1>0, <2>3, <2>4 DEF DownSound, LocksTaken, LockExclusion, LockOf
  <2> QED
    BY <1>0, <2>5, <2>6, <2>7 DEF IInv
<1>15. ASSUME NEW j \in Jobs, CancelRunning(j) PROVE IInv'
  <2>1. /\ \A k \in Jobs \ {j} : rec'[k] = rec[k]
        /\ rec'[j].req = rec[j].req /\ rec'[j].status = "stopping"
    BY <1>0, <1>15 DEF CancelRunning, TypeOK, Records
  <2>2. JobSound(j)' /\ j \notin Pending
    BY <1>0, <1>15, <2>1
       DEF CancelRunning, JobsSound, JobSound, Status, QueueSound, Waits, Pending, TerminalStatuses
  <2> QED
    BY <1>0, <1>15, <2>1, <2>2, RecordStep DEF CancelRunning
<1>16. ASSUME NEW j \in Jobs, SignalCancel(j) PROVE IInv'
  BY <1>0, <1>16 DEF SignalCancel, IInv, JobsSound, JobSound, QueueSound, Waits, DownSound,
                     LocksTaken, LockExclusion, LockOf, Status
<1>17. ASSUME NEW j \in Jobs, NEW usage \in 0..MaxUsage, CancelSettles(j, usage) PROVE IInv'
  <2>1. CASE Status(j) # "stopping"
    BY <1>0, <1>17, <2>1 DEF CancelSettles, IInv, JobsSound, JobSound, QueueSound, Waits,
                             DownSound, LocksTaken, LockExclusion, LockOf, Status
  <2>2. CASE Status(j) = "stopping"
    <3>1. /\ \A k \in Jobs \ {j} : rec'[k] = rec[k]
          /\ rec'[j].req = rec[j].req
          /\ WorkerAlive(j) => rec'[j].status = "needs_recovery"
          /\ rec'[j].status \in TerminalStatuses
      <4>1. rec[j] \in Records /\ rec[j].status = "stopping"
        BY <1>0, <2>2 DEF TypeOK, Status
      <4>2. CASE WorkerAlive(j)
        BY <1>0, <1>17, <2>2, <4>2, MarkShape DEF CancelSettles, TerminalStatuses
      <4>3. CASE ~WorkerAlive(j)
        <5>1. FinalizeFrom(rec[j], j, "cancelled", usage)
          BY <1>17, <2>2, <4>3 DEF CancelSettles, Finalize
        <5> QED
          BY <1>0, <4>1, <4>3, <5>1, FinalizeShape DEF TerminalStatuses
      <4> QED
        BY <4>2, <4>3
    <3>2. JobSound(j)' /\ j \notin Pending
      BY <1>0, <1>17, <2>2, <3>1
         DEF CancelSettles, JobsSound, JobSound, Status, QueueSound, Waits, Pending,
             TerminalStatuses, WorkerAlive
    <3> QED
      BY <1>0, <1>17, <3>1, <3>2, RecordStep DEF CancelSettles
  <2> QED
    BY <2>1, <2>2
<1>18. CASE Crashes
  <2>1. CASE Crash
    BY <1>0, <2>1, DiesIInv DEF Crash, Status
  <2>2. ASSUME NEW j \in Jobs, NEW r \in Requests, CrashAfterReserve(j, r) PROVE IInv'
    BY <1>0, <2>2, DiesIInv DEF CrashAfterReserve, Status
  <2>3. ASSUME NEW j \in Jobs, NEW r \in Requests, CrashBeforeRefusal(j, r) PROVE IInv'
    <3>1. /\ \A k \in Jobs \ {j} : rec'[k] = rec[k]
          /\ rec'[j].status = "queued" /\ ~rec'[j].deferred /\ Status(j) = "absent"
      BY <1>0, <2>3, NewRecordShape DEF CrashBeforeRefusal, Admissible, TypeOK, Statuses
    <3> QED
      BY <1>0, <2>3, <3>1, DiesIInv DEF CrashBeforeRefusal, Status
  <2>4. ASSUME NEW j \in Jobs, CrashInCancelQueued(j) PROVE IInv'
    <3>1. /\ \A k \in Jobs \ {j} : rec'[k] = rec[k]
          /\ rec'[j].status = rec[j].status /\ rec'[j].deferred = rec[j].deferred
          /\ rec'[j].req = rec[j].req
      BY <1>0, <2>4 DEF CrashInCancelQueued, TypeOK, Records
    <3> QED
      BY <1>0, <2>4, <3>1, DiesIInv DEF CrashInCancelQueued, Status
  <2>5. ASSUME NEW j \in Jobs, NEW usage \in 0..MaxUsage, CrashInSettlement(j, usage) PROVE IInv'
    BY <1>0, <2>5, DiesIInv DEF CrashInSettlement, Status
  <2> QED
    BY <1>18, <2>1, <2>2, <2>3, <2>4, <2>5 DEF Crashes
<1>19. CASE Restart
  <2> DEFINE wanted == {j \in Jobs : Status(j) = "queued" /\ rec[j].req.kind \in CtorKinds}
  <2>1. /\ \A j \in Jobs : worker[j] = "none"
        /\ UNCHANGED <<worker, seen, runs, crashes, activeLocks>> /\ up'
    BY <1>0, <1>19 DEF Restart, DownSound
  <2>2. \A j \in Jobs :
          /\ rec'[j].req = rec[j].req
          /\ Status(j) \notin {"running", "stopping"} => Status(j)' = Status(j)
          /\ Status(j)' \in {"absent", "queued"} => Status(j)' = Status(j)
    BY <1>0, <1>19 DEF Restart, Status, TypeOK, Records
  <2>3. \A j \in Jobs :
          /\ Status(j) = "queued" /\ rec[j].req.kind \in CtorKinds => rec'[j] = rec[j]
          /\ ~(Status(j) = "queued" /\ rec[j].req.kind \notin CtorKinds) =>
                 rec'[j].deferred = rec[j].deferred
    <3> SUFFICES ASSUME NEW j \in Jobs
                 PROVE  /\ Status(j) = "queued" /\ rec[j].req.kind \in CtorKinds => rec'[j] = rec[j]
                        /\ ~(Status(j) = "queued" /\ rec[j].req.kind \notin CtorKinds) =>
                               rec'[j].deferred = rec[j].deferred
      OBVIOUS
    <3>1. rec[j] \in Records
      BY <1>0 DEF TypeOK
    <3>2. \/ rec'[j] = [rec[j] EXCEPT !.status = "needs_recovery"] /\ Status(j) \in {"running", "stopping"}
          \/ rec'[j] = [rec[j] EXCEPT !.status = "interrupted"] /\ Status(j) = "running"
          \/ rec'[j] = [rec[j] EXCEPT !.deferred = TRUE]
                 /\ Status(j) = "queued" /\ rec[j].req.kind \notin CtorKinds
          \/ rec'[j] = rec[j]
      BY <1>19 DEF Restart
    <3>3. /\ [rec[j] EXCEPT !.status = "needs_recovery"].deferred = rec[j].deferred
          /\ [rec[j] EXCEPT !.status = "interrupted"].deferred = rec[j].deferred
      BY <3>1 DEF Records
    <3> QED
      BY <3>2, <3>3
  <2>4. JobsSound'
    BY <1>0, <2>1, <2>2, <2>3 DEF JobsSound, JobSound
  <2>5. QueueSound'
    <3>1. PICK s \in SortedIds(wanted) : pending' = s
      BY <1>19 DEF Restart
    <3>2. s \in Seq(wanted) /\ \A i, k \in DOMAIN s : s[i] = s[k] => i = k
      BY <3>1, SortedIdsProperties
    <3>3. \A j \in wanted : Waits(j)'
      BY <1>0, <2>1, <2>2, <2>3 DEF Waits, JobsSound, JobSound
    <3>4. \A i \in DOMAIN s : s[i] \in wanted
      BY <3>2
    <3> QED
      BY <3>1, <3>2, <3>3, <3>4 DEF QueueSound
  <2>6. DownSound' /\ LocksTaken' /\ LockExclusion'
    BY <2>1 DEF DownSound, LocksTaken, LockExclusion
  <2> QED
    BY <1>0, <2>4, <2>5, <2>6 DEF IInv
<1>20. CASE Quiet \/ UNCHANGED vars
  BY <1>0, <1>20 DEF Quiet, vars, IInv, JobsSound, JobSound, QueueSound, Waits, DownSound,
                     LocksTaken, LockExclusion, LockOf, Status
<1> QED
  BY <1>1, <1>2, <1>3, <1>4, <1>5, <1>6, <1>7, <1>8, <1>9, <1>10, <1>11, <1>12, <1>13, <1>14,
     <1>15, <1>16, <1>17, <1>18, <1>19, <1>20
     DEF Next, Client, RunnerStep, WorkerStep, CancellerStep

-----------------------------------------------------------------------------
(* Every variable of the job service keeps its type.                       *)
THEOREM TypeCorrect == Spec => []TypeOK
<1>1. TypeOK /\ [Next]_vars => TypeOK'
  BY TypePreserved
<1> QED
  BY <1>1, InitTypeOK, PTL DEF Spec

(* The inductive invariant holds in every reachable state.                 *)
THEOREM Invariance == Spec => []IInv
<1>1. IInv /\ [Next]_vars => IInv'
  BY IInvPreserved
<1> QED
  BY <1>1, InitIInv, PTL DEF Spec

(* No two jobs with the same repo_write_lock ever have a worker at once.   *)
THEOREM WritesAreSerial == Spec => []LockExclusion
<1>1. IInv => LockExclusion
  BY DEF IInv
<1> QED
  BY <1>1, Invariance, PTL

(* No crash, restart, cancellation or late registration makes the service  *)
(* enter the runner of a job a second time.                                *)
THEOREM NoBlindReplay == Spec => []RunsOnce
<1>1. IInv => RunsOnce
  BY DEF IInv, JobsSound, JobSound, RunsOnce
<1> QED
  BY <1>1, Invariance, PTL

(* The queue in memory agrees with the records on disk.                    *)
THEOREM QueueAgrees == Spec => []QueueConsistent
<1>1. ASSUME IInv PROVE QueueConsistent
  <2>1. pending \in Seq(Jobs) /\ Len(pending) \in Nat /\ DOMAIN pending = 1..Len(pending)
    BY <1>1 DEF IInv, TypeOK
  <2>2. \A j \in Pending : Waits(j)
    BY <1>1 DEF IInv, QueueSound, Pending
  <2>3. Cardinality(Pending) = Len(pending)
    <3> DEFINE listing == [i \in 1..Len(pending) |-> pending[i]]
    <3>1. listing \in Bijection(1..Len(pending), Pending)
      <4>1. listing \in [1..Len(pending) -> Pending]
        BY <2>1 DEF Pending
      <4>2. \A i, k \in 1..Len(pending) : listing[i] = listing[k] => i = k
        BY <1>1, <2>1 DEF IInv, QueueSound
      <4>3. \A j \in Pending : \E i \in 1..Len(pending) : listing[i] = j
        BY <2>1 DEF Pending
      <4> HIDE DEF listing
      <4> QED
        BY <4>1, <4>2, <4>3 DEF Bijection, Injection, Surjection, IsInjective
    <3>2. IsFiniteSet(1..Len(pending)) /\ Cardinality(1..Len(pending)) = Len(pending)
      BY <2>1, FS_Interval
    <3> QED
      BY <3>1, <3>2, FS_Bijection DEF ExistsBijection
  <2>4. \A j \in Jobs : worker[j] = "runner" => Status(j) \in {"running", "stopping", "needs_recovery"}
    BY <1>1 DEF IInv, JobsSound, JobSound
  <2> QED
    BY <2>2, <2>3, <2>4 DEF QueueConsistent, Waits
<1> QED
  BY <1>1, Invariance, PTL

-----------------------------------------------------------------------------
(* What one step can do to the record of a job.                            *)

(* The life cycle the code really has: "cancelled" leads back to "running" *)
(* because _execute writes back a copy it read before the cancellation.    *)
LifeCycle ==
    ({"absent"} \X {"queued", "failed"}) \cup
    ({"queued"} \X {"running", "cancelled"}) \cup
    ({"running"} \X {"stopping", "completed", "failed", "cancelled", "needs_recovery", "interrupted"}) \cup
    ({"stopping"} \X {"cancelled", "failed", "needs_recovery"}) \cup
    ({"cancelled"} \X {"running"})

(* A step moves a job along its life cycle and keeps its request; only a   *)
(* race takes it out of "cancelled"; it comes into being only without a    *)
(* duplicate in flight; what was given up is not touched; and it ends with *)
(* its budget settled unless it was refused or the service has died.       *)
Moved(j) ==
    /\ Status(j) # "absent" => rec'[j].req = rec[j].req
    /\ Status(j)' = Status(j) \/ <<Status(j), Status(j)'>> \in LifeCycle
    /\ Status(j) = "cancelled" /\ Status(j)' = "running" => j \in raced'
    /\ Status(j) = "absent" /\ Status(j)' = "queued" =>
           ~Duplicate(rec'[j].req) /\ \A k \in Jobs \ {j} : rec'[k] = rec[k]
    /\ Status(j) \in {"needs_recovery", "interrupted"} => rec'[j] = rec[j]
    /\ crashes' = 0 /\ Status(j)' \in TerminalStatuses =>
           \/ rec'[j] = rec[j]
           \/ rec'[j].req.estimate = 0 \/ rec'[j].settled \/ j \in refused'

(* A record that is not written moves nowhere.                             *)
LEMMA Unmoved == ASSUME NEW j \in Jobs, rec'[j] = rec[j] PROVE Moved(j)
  BY DEF Moved, Status

(* A worker that finalises its job moves it to its end.                    *)
LEMMA EndsMoves ==
    ASSUME IInv, NEW j \in Jobs, NEW usage \in 0..MaxUsage,
           NEW wanted \in {"completed", "failed", "cancelled"},
           worker[j] \in {"started", "runner", "checked", "published"},
           Ends(j, wanted, usage)
    PROVE  \A k \in Jobs : Moved(k)
<1>1. /\ rec[j] \in Records /\ FinalizeFrom(rec[j], j, wanted, usage) /\ TypeOK
      /\ Status(j) \in {"running", "stopping", "needs_recovery"}
  BY DEF IInv, TypeOK, Ends, Finalize, JobsSound, JobSound
<1>2. \A k \in Jobs \ {j} : rec'[k] = rec[k]
  BY <1>1, FinalizeShape
<1>3. CASE Status(j) = "needs_recovery"
  <2>1. rec' = rec
    BY <1>1, <1>3, FinalizeShape DEF Status
  <2> QED
    BY <2>1, Unmoved
<1>4. CASE Status(j) \in {"running", "stopping"}
  <2>1. /\ rec'[j].req = rec[j].req
        /\ Status(j)' = Outcome(Status(j), wanted)
        /\ rec'[j].req.estimate = 0 \/ rec'[j].settled
    BY <1>1, <1>4, FinalizeShape DEF Status
  <2>2. Moved(j)
    BY <1>4, <2>1 DEF Moved, Outcome, LifeCycle
  <2> QED
    BY <1>2, <2>2, Unmoved
<1> QED
  BY <1>1, <1>3, <1>4

(* Every step moves every job along its life cycle.                        *)
LEMMA StepMoves ==
    ASSUME IInv, [Next]_vars
    PROVE  raced \subseteq raced' /\ refused \subseteq refused' /\ \A j \in Jobs : Moved(j)
<1> USE DEF disk, threads, queue, history
<1>0. TypeOK /\ TypeOK' /\ JobsSound /\ DownSound
  BY TypePreserved DEF IInv
<1> DEFINE Goal == raced \subseteq raced' /\ refused \subseteq refused' /\ \A j \in Jobs : Moved(j)
<1>1. ASSUME NEW j \in Jobs, NEW r \in Requests, Create(j, r) PROVE Goal
  <2>1. /\ \A k \in Jobs \ {j} : rec'[k] = rec[k]
        /\ rec'[j].status = "queued" /\ rec'[j].req = r
        /\ Status(j) = "absent" /\ ~Duplicate(r)
    BY <1>0, <1>1, NewRecordShape DEF Create, Admissible, TypeOK, Statuses
  <2>2. Moved(j)
    BY <2>1 DEF Moved, Status, LifeCycle, TerminalStatuses
  <2> QED
    BY <1>1, <2>1, <2>2, Unmoved DEF Create
<1>2. ASSUME NEW j \in Jobs, NEW r \in Requests, CreateRefused(j, r) PROVE Goal
  <2>1. /\ \A k \in Jobs \ {j} : rec'[k] = rec[k]
        /\ rec'[j].status = "failed" /\ Status(j) = "absent" /\ j \in refused'
    BY <1>0, <1>2, NewRecordShape DEF CreateRefused, Admissible, TypeOK, Statuses, TerminalStatuses
  <2>2. Moved(j)
    BY <2>1 DEF Moved, Status, LifeCycle
  <2> QED
    BY <1>2, <2>1, <2>2, Unmoved DEF CreateRefused
<1>3. ASSUME NEW k \in LateKinds, RegisterRunner(k) PROVE Goal
  <2>1. ASSUME NEW j \in Jobs PROVE Moved(j)
    <3>1. rec[j] \in Records
      BY <1>0 DEF TypeOK
    <3>2. \/ rec'[j] = rec[j]
          \/ Status(j) = "queued" /\ rec'[j] = [rec[j] EXCEPT !.deferred = FALSE]
      BY <1>3 DEF RegisterRunner
    <3>3. CASE Status(j) = "queued" /\ rec'[j] = [rec[j] EXCEPT !.deferred = FALSE]
      <4>1. rec'[j].status = "queued" /\ rec'[j].req = rec[j].req
        BY <3>1, <3>3 DEF Records, Status
      <4> QED
        BY <3>3, <4>1 DEF Moved, Status, TerminalStatuses
    <3> QED
      BY <3>2, <3>3, Unmoved
  <2> QED
    BY <1>3, <2>1 DEF RegisterRunner
<1>4. ASSUME UNCHANGED rec, raced \subseteq raced', refused \subseteq refused' PROVE Goal
  BY <1>4, Unmoved
<1>5. ASSUME NEW j \in Jobs, Start(j) PROVE Goal
  <2>1. /\ seen[j].req = rec[j].req /\ seen[j].status \in {"queued", "cancelled"}
        /\ Status(j) \in {"queued", "cancelled"} /\ seen[j] \in Records
    BY <1>0, <1>5 DEF Start, At, JobsSound, JobSound, TypeOK
  <2>2. /\ rec'[j] = [seen[j] EXCEPT !.status = "running"]
        /\ \A k \in Jobs \ {j} : rec'[k] = rec[k]
    BY <1>0, <1>5, <2>1 DEF Start, TypeOK
  <2>3. rec'[j].status = "running" /\ rec'[j].req = rec[j].req
    BY <2>1, <2>2 DEF Records
  <2>4. Status(j) = "cancelled" => j \in raced'
    BY <1>5 DEF Start, TerminalStatuses
  <2>5. Moved(j)
    BY <2>1, <2>3, <2>4 DEF Moved, Status, LifeCycle, TerminalStatuses
  <2> QED
    BY <1>5, <2>2, <2>5, Unmoved DEF Start
<1>6. ASSUME NEW j \in Jobs, CancelBeforeRunner(j) PROVE Goal
  BY <1>6, BoundsAssumption, EndsMoves DEF CancelBeforeRunner, At, Ends
<1>7. ASSUME NEW j \in Jobs, NEW usage \in 0..MaxUsage,
             RunnerReturnsLate(j, usage) \/ RunnerObservesCancel(j, usage)
      PROVE  Goal
  BY <1>7, EndsMoves DEF RunnerReturnsLate, RunnerObservesCancel, At, Ends
<1>8. ASSUME NEW j \in Jobs, NEW usage \in 0..MaxUsage, RunnerFails(j, usage) PROVE Goal
  BY <1>8, EndsMoves DEF RunnerFails, Ends
<1>9. ASSUME NEW j \in Jobs, NEW usage \in 0..MaxUsage, Complete(j, usage) PROVE Goal
  BY <1>9, EndsMoves DEF Complete, At, Ends
<1>10. ASSUME NEW j \in Jobs, CancelQueued(j) PROVE Goal
  <2> DEFINE r == [rec[j] EXCEPT !.cancelRequested = TRUE]
  <2>1. r \in Records /\ r.req = rec[j].req /\ r.status = "queued" /\ 0 \in 0..MaxUsage
    <3>1. rec[j] \in Records /\ rec[j].status = "queued"
      BY <1>0, <1>10 DEF TypeOK, CancelQueued, Status
    <3>2. r \in Records /\ r.req = rec[j].req /\ r.status = rec[j].status
      BY <3>1, RecordEdits, Zenon
    <3> QED
      BY <3>1, <3>2, BoundsAssumption
  <2> HIDE DEF r
  <2>2. FinalizeFrom(r, j, "cancelled", 0)
    BY <1>10 DEF CancelQueued, r
  <2>3. /\ \A k \in Jobs \ {j} : rec'[k] = rec[k]
        /\ rec'[j].req = rec[j].req /\ rec'[j].status = "cancelled"
        /\ rec'[j].req.estimate = 0 \/ rec'[j].settled
    BY <1>0, <2>1, <2>2, FinalizeShape DEF Outcome
  <2>4. Moved(j)
    BY <1>10, <2>3 DEF CancelQueued, Moved, Status, LifeCycle
  <2> QED
    BY <1>10, <2>3, <2>4, Unmoved DEF CancelQueued
<1>11. ASSUME NEW j \in Jobs, CancelRunning(j) PROVE Goal
  <2>1. /\ \A k \in Jobs \ {j} : rec'[k] = rec[k]
        /\ rec'[j].req = rec[j].req /\ Status(j)' = "stopping" /\ Status(j) = "running"
    BY <1>0, <1>11 DEF CancelRunning, TypeOK, Records, Status
  <2>2. Moved(j)
    BY <2>1 DEF Moved, LifeCycle, TerminalStatuses
  <2> QED
    BY <1>11, <2>1, <2>2, Unmoved DEF CancelRunning
<1>12. ASSUME NEW j \in Jobs, NEW usage \in 0..MaxUsage, CancelSettles(j, usage) PROVE Goal
  <2>1. CASE Status(j) # "stopping"
    BY <1>4, <1>12, <2>1 DEF CancelSettles
  <2>2. CASE Status(j) = "stopping"
    <3>1. rec[j] \in Records /\ rec[j].status = "stopping"
      BY <1>0, <2>2 DEF TypeOK, Status
    <3>2. CASE WorkerAlive(j)
      <4>1. MarkNeedsRecovery(j, usage)
        BY <1>12, <2>2, <3>2 DEF CancelSettles
      <4>2. /\ \A k \in Jobs \ {j} : rec'[k] = rec[k]
            /\ rec'[j].req = rec[j].req /\ rec'[j].status = "needs_recovery"
            /\ rec'[j].req.estimate = 0 \/ rec'[j].settled
        BY <1>0, <4>1, MarkShape
      <4>3. Moved(j)
        BY <2>2, <4>2 DEF Moved, Status, LifeCycle
      <4> QED
        BY <1>12, <4>2, <4>3, Unmoved DEF CancelSettles
    <3>3. CASE ~WorkerAlive(j)
      <4>1. FinalizeFrom(rec[j], j, "cancelled", usage)
        BY <1>12, <2>2, <3>3 DEF CancelSettles, Finalize
      <4>2. /\ \A k \in Jobs \ {j} : rec'[k] = rec[k]
            /\ rec'[j].req = rec[j].req /\ rec'[j].status = "cancelled"
            /\ rec'[j].req.estimate = 0 \/ rec'[j].settled
        BY <1>0, <3>1, <4>1, FinalizeShape DEF Outcome
      <4>3. Moved(j)
        BY <2>2, <4>2 DEF Moved, Status, LifeCycle
      <4> QED
        BY <1>12, <4>2, <4>3, Unmoved DEF CancelSettles
    <3> QED
      BY <3>2, <3>3
  <2> QED
    BY <2>1, <2>2
<1>13. CASE Crashes
  <2>1. CASE Crash
    BY <1>4, <2>1 DEF Crash, Dies
  <2>2. ASSUME NEW j \in Jobs, NEW r \in Requests, CrashAfterReserve(j, r) PROVE Goal
    BY <1>4, <2>2 DEF CrashAfterReserve, Dies
  <2>3. ASSUME NEW j \in Jobs, NEW r \in Requests, CrashBeforeRefusal(j, r) PROVE Goal
    <3>1. /\ \A k \in Jobs \ {j} : rec'[k] = rec[k]
          /\ rec'[j].status = "queued" /\ rec'[j].req = r
          /\ Status(j) = "absent" /\ ~Duplicate(r)
      BY <1>0, <2>3, NewRecordShape DEF CrashBeforeRefusal, Admissible, TypeOK, Statuses
    <3>2. Moved(j)
      BY <3>1 DEF Moved, Status, LifeCycle, TerminalStatuses
    <3> QED
      BY <2>3, <3>1, <3>2, Unmoved DEF CrashBeforeRefusal, Dies
  <2>4. ASSUME NEW j \in Jobs, CrashInCancelQueued(j) PROVE Goal
    <3>1. /\ \A k \in Jobs \ {j} : rec'[k] = rec[k]
          /\ rec'[j].status = rec[j].status /\ rec'[j].req = rec[j].req /\ Status(j) = "queued"
      BY <1>0, <2>4 DEF CrashInCancelQueued, TypeOK, Records
    <3>2. Moved(j)
      BY <3>1 DEF Moved, Status, TerminalStatuses
    <3> QED
      BY <2>4, <3>1, <3>2, Unmoved DEF CrashInCancelQueued, Dies
  <2>5. ASSUME NEW j \in Jobs, NEW usage \in 0..MaxUsage, CrashInSettlement(j, usage) PROVE Goal
    BY <1>4, <2>5 DEF CrashInSettlement, Dies
  <2> QED
    BY <1>13, <2>1, <2>2, <2>3, <2>4, <2>5 DEF Crashes
<1>14. CASE Restart
  <2>1. crashes' # 0
    BY <1>0, <1>14 DEF Restart, DownSound, TypeOK
  <2>2. ASSUME NEW j \in Jobs PROVE Moved(j)
    <3>1. rec[j] \in Records
      BY <1>0 DEF TypeOK
    <3>2. \/ rec'[j] = [rec[j] EXCEPT !.status = "needs_recovery"] /\ Status(j) \in {"running", "stopping"}
          \/ rec'[j] = [rec[j] EXCEPT !.status = "interrupted"] /\ Status(j) = "running"
          \/ rec'[j] = [rec[j] EXCEPT !.deferred = TRUE] /\ Status(j) = "queued"
          \/ rec'[j] = rec[j]
      BY <1>14 DEF Restart
    <3>3. \/ Status(j)' = "needs_recovery" /\ Status(j) \in {"running", "stopping"}
          \/ Status(j)' = "interrupted" /\ Status(j) = "running"
          \/ Status(j)' = "queued" /\ Status(j) = "queued"
          \/ rec'[j] = rec[j]
      BY <3>1, <3>2 DEF Records, Status
    <3>4. rec'[j].req = rec[j].req
      BY <3>1, <3>2 DEF Records
    <3> QED
      BY <2>1, <3>3, <3>4, Unmoved DEF Moved, LifeCycle
  <2> QED
    BY <1>14, <2>2 DEF Restart
<1>15. CASE Quiet \/ UNCHANGED vars \/ Dispatch
  BY <1>4, <1>15 DEF Quiet, vars, Dispatch
<1>16. ASSUME NEW j \in Jobs,
              \/ ReadRecord(j) \/ EnterRunner(j) \/ RunnerReturns(j) \/ WriteResult(j)
              \/ LeaveWorker(j) \/ SignalCancel(j)
       PROVE  Goal
  BY <1>4, <1>16 DEF ReadRecord, EnterRunner, RunnerReturns, WriteResult, LeaveWorker, SignalCancel
<1> QED
  BY <1>1, <1>2, <1>3, <1>5, <1>6, <1>7, <1>8, <1>9, <1>10, <1>11, <1>12, <1>13, <1>14, <1>15, <1>16
     DEF Next, Client, RunnerStep, WorkerStep, CancellerStep

-----------------------------------------------------------------------------
(* A cancellation recorded while the job ran is never turned into success, *)
(* and a job that was given up or interrupted is never touched again.      *)
THEOREM CancellationWins == Spec => NoLateSuccess
<1>1. ASSUME IInv, [Next]_vars, NEW j \in Jobs
      PROVE  /\ Status(j) = "stopping" =>
                    Status(j)' \in {"stopping", "cancelled", "failed", "needs_recovery"}
             /\ Status(j) \in {"needs_recovery", "interrupted"} => rec[j]' = rec[j]
  <2>1. Moved(j)
    BY <1>1, StepMoves
  <2> QED
    BY <2>1 DEF Moved, LifeCycle
<1>2. IInv /\ [Next]_vars =>
        [\A j \in Jobs :
            /\ Status(j) = "stopping" =>
                   Status(j)' \in {"stopping", "cancelled", "failed", "needs_recovery"}
            /\ Status(j) \in {"needs_recovery", "interrupted"} => rec[j]' = rec[j]]_vars
  BY <1>1
<1> QED
  BY <1>2, Invariance, PTL DEF Spec, NoLateSuccess

(* At most one job with a dedupe key is queued or running, resurrected     *)
(* jobs aside, whatever is created, cancelled, crashed and restarted.      *)
THEOREM OneInFlight == Spec => []DedupeUnique
<1>1. Init => DedupeUnique
  BY BlankRecord DEF Init, DedupeUnique, Status
<1>2. ASSUME IInv, DedupeUnique, [Next]_vars PROVE DedupeUnique'
  <2> SUFFICES ASSUME NEW a \in Jobs, NEW b \in Jobs,
                      {Status(a)', Status(b)'} \subseteq {"queued", "running"},
                      rec'[a].req.key = rec'[b].req.key, rec'[a].req.key # NoKey,
                      a # b, a \notin raced', b \notin raced'
               PROVE  FALSE
    BY DEF DedupeUnique, Status
  <2>1. Moved(a) /\ Moved(b) /\ a \notin raced /\ b \notin raced
    BY <1>2, StepMoves
  <2>2. Status(a) \in {"queued", "running", "absent"} /\ Status(b) \in {"queued", "running", "absent"}
    BY <2>1 DEF Moved, LifeCycle
  <2>3. CASE Status(a) # "absent" /\ Status(b) # "absent"
    <3>1. rec'[a].req = rec[a].req /\ rec'[b].req = rec[b].req
      BY <2>1, <2>3 DEF Moved
    <3> QED
      BY <1>2, <2>1, <2>2, <2>3, <3>1 DEF DedupeUnique
  <2>4. ASSUME NEW x \in Jobs, NEW y \in Jobs, x # y, Status(x) = "absent", Moved(x), Moved(y),
               {Status(x)', Status(y)'} \subseteq {"queued", "running"},
               rec'[x].req.key = rec'[y].req.key, rec'[x].req.key # NoKey
        PROVE  FALSE
    <3>1. ~Duplicate(rec'[x].req) /\ rec'[y] = rec[y]
      BY <2>4 DEF Moved, LifeCycle
    <3>2. rec[y].req.key = rec'[x].req.key /\ Status(y) \in DedupeActive
      BY <2>4, <3>1 DEF Status, DedupeActive
    <3> QED
      BY <2>4, <3>1, <3>2 DEF Duplicate
  <2> QED
    BY <2>1, <2>3, <2>4
<1> QED
  BY <1>1, <1>2, Invariance, PTL DEF Spec

(* The service that has not died after a step had not died before it.      *)
LEMMA CrashesGrow == ASSUME TypeOK, [Next]_vars, crashes' = 0 PROVE crashes = 0
<1>1. CASE Crashes
  <2>1. Dies
    BY <1>1 DEF Crashes, Crash, CrashAfterReserve, CrashBeforeRefusal, CrashInCancelQueued,
                CrashInSettlement
  <2> QED
    BY <2>1, BoundsAssumption DEF Dies, TypeOK
<1>2. ASSUME NEW j \in Jobs, RunnerStep(j) \/ WorkerStep(j) \/ CancellerStep(j) PROVE crashes' = crashes
  BY <1>2 DEF RunnerStep, RunnerReturns, RunnerReturnsLate, RunnerFails, RunnerObservesCancel,
              WorkerStep, ReadRecord, Start, CancelBeforeRunner, EnterRunner, WriteResult,
              LeaveWorker, Complete, Ends, CancellerStep, SignalCancel, CancelSettles
<1>3. CASE Client
  BY <1>3 DEF Client, Create, CreateRefused, CancelQueued, CancelRunning
<1>4. CASE Dispatch \/ Restart \/ Quiet \/ UNCHANGED vars
  BY <1>4 DEF Dispatch, Restart, Quiet, vars
<1>5. ASSUME NEW k \in LateKinds, RegisterRunner(k) PROVE crashes' = crashes
  BY <1>5 DEF RegisterRunner
<1> QED
  BY <1>1, <1>2, <1>3, <1>4, <1>5 DEF Next

(* Only a restart strands a reservation: as long as the service has not    *)
(* died, every job that ended gave back what it had reserved.              *)
THEOREM ReservationsReturn == Spec => []OnlyRestartStrands
<1>1. Init => OnlyRestartStrands
  BY BlankRecord DEF Init, OnlyRestartStrands, Holders, Status
<1>2. ASSUME IInv, OnlyRestartStrands, [Next]_vars PROVE OnlyRestartStrands'
  <2>0. rec' \in [Jobs -> Records] /\ (crashes' = 0 => crashes = 0)
    BY <1>2, TypePreserved, CrashesGrow DEF IInv, TypeOK
  <2> SUFFICES ASSUME crashes' = 0, NEW j \in Jobs,
                      rec'[j].req.estimate > 0, ~rec'[j].settled, Status(j)' # "absent", j \notin refused'
               PROVE  Status(j)' \in {"queued", "running", "stopping"}
    BY DEF OnlyRestartStrands, Holders, Status, Estimate
  <2>1. Moved(j) /\ j \notin refused
    BY <1>2, StepMoves
  <2>2. Status(j)' \in Statuses
    BY <2>0 DEF Records, Status
  <2>3. CASE Status(j)' \in TerminalStatuses
    <3>1. rec'[j] = rec[j]
      BY <2>1, <2>3 DEF Moved
    <3>2. j \in Holders /\ Status(j) = Status(j)'
      BY <2>1, <3>1 DEF Holders, Status, Estimate
    <3>3. Status(j) \in {"queued", "running", "stopping"}
      BY <1>2, <2>0, <3>2 DEF OnlyRestartStrands
    <3> QED
      BY <3>2, <3>3
  <2> QED
    BY <2>2, <2>3 DEF Statuses
<1> QED
  BY <1>1, <1>2, Invariance, PTL DEF Spec

-----------------------------------------------------------------------------
(* Sums over finite sets.  The fold that adds up the ledger is a recursive *)
(* function; what it computes is proved with a least counterexample.       *)

(* The element the fold takes out of a set first.                          *)
First(s) == CHOOSE x \in s : TRUE

(* h adds up f over every subset of S, the way MapThenSumSet does.         *)
Sums(h, f, S) ==
    h = [s \in SUBSET S |-> IF s = {} THEN 0 ELSE f[First(s)] + h[s \ {First(s)}]]

(* A set of sets of a finite set has a least one.                          *)
LEMMA LeastSet ==
    ASSUME NEW S, IsFiniteSet(S), NEW T \in SUBSET SUBSET S, T # {}
    PROVE  \E A \in T : \A B \in T : ~(B \subseteq A /\ B # A)
<1>1. IsWellFoundedOn(StrictSubsetOrdering(S), FiniteSubsetsOf(S))
  BY FS_StrictSubsetOrderingWellFounded
<1>2. T \subseteq FiniteSubsetsOf(S)
  BY FS_Subset DEF FiniteSubsetsOf
<1>3. \E A \in T : \A B \in T : ~ (<<B, A>> \in StrictSubsetOrdering(S))
  BY <1>1, <1>2, WFMin
<1> QED
  BY <1>3 DEF StrictSubsetOrdering

LEMMA SumsAt ==
    ASSUME NEW S, NEW f, NEW h, Sums(h, f, S), NEW s \in SUBSET S
    PROVE  /\ s = {} => h[s] = 0
           /\ s # {} => First(s) \in s /\ h[s] = f[First(s)] + h[s \ {First(s)}]
<1>1. s # {} => First(s) \in s
  BY DEF First
<1> QED
  BY <1>1 DEF Sums

(* Two such functions agree where both are defined.                        *)
LEMMA SumsUnique ==
    ASSUME NEW S, IsFiniteSet(S), NEW f, NEW A \in SUBSET S, NEW B \in SUBSET S,
           NEW h, NEW k, Sums(h, f, A), Sums(k, f, B), NEW s \in SUBSET A, s \subseteq B
    PROVE  h[s] = k[s]
<1> DEFINE T == {t \in SUBSET S : t \subseteq A /\ t \subseteq B /\ h[t] # k[t]}
<1>1. SUFFICES ASSUME T # {} PROVE FALSE
  BY DEF T
<1>2. PICK t \in T : \A u \in T : ~(u \subseteq t /\ u # t)
  <2>1. T \in SUBSET SUBSET S
    OBVIOUS
  <2> HIDE DEF T
  <2> QED
    BY <1>1, <2>1, LeastSet
<1>3. t \in SUBSET A /\ t \in SUBSET B /\ h[t] # k[t]
  OBVIOUS
<1>4. t # {} /\ First(t) \in t
  BY <1>3, SumsAt
<1>5. t \ {First(t)} \notin T
  BY <1>2, <1>4
<1>6. h[t \ {First(t)}] = k[t \ {First(t)}]
  BY <1>2, <1>5
<1> HIDE DEF T
<1>7. h[t] = f[First(t)] + h[t \ {First(t)}]
  BY <1>3, <1>4, SumsAt
<1>8. k[t] = f[First(t)] + k[t \ {First(t)}]
  BY <1>3, <1>4, SumsAt
<1> QED
  BY <1>3, <1>6, <1>7, <1>8

(* There is one over every finite set.                                     *)
LEMMA SumsExist ==
    ASSUME NEW S, IsFiniteSet(S), NEW f
    PROVE  \E h : Sums(h, f, S)
<1> DEFINE T == {A \in SUBSET S : ~\E h : Sums(h, f, A)}
<1>1. SUFFICES ASSUME T # {} PROVE FALSE
  BY DEF T
<1>2. PICK A \in T : \A B \in T : ~(B \subseteq A /\ B # A)
  <2>1. T \in SUBSET SUBSET S
    OBVIOUS
  <2> HIDE DEF T
  <2> QED
    BY <1>1, <2>1, LeastSet
<1> DEFINE sum(B) == (CHOOSE h : Sums(h, f, B))
           at(s) == IF s = {} THEN 0 ELSE f[First(s)] + sum(s \ {First(s)})[s \ {First(s)}]
           g == [s \in SUBSET A |-> at(s)]
<1>3. \A B \in SUBSET A : B # A => Sums(sum(B), f, B)
  BY <1>2
<1> HIDE DEF sum
<1>4. ASSUME NEW s \in SUBSET A PROVE g[s] = IF s = {} THEN 0 ELSE f[First(s)] + g[s \ {First(s)}]
  <2>1. CASE s = {}
    BY <2>1
  <2>2. CASE s # {}
    <3> DEFINE r == s \ {First(s)}
    <3>1. First(s) \in s /\ r \subseteq A /\ r # A
      BY <2>2 DEF First
    <3>2. Sums(sum(r), f, r)
      BY <1>3, <3>1
    <3>3. sum(r)[r] = at(r)
      <4>1. CASE r = {}
        BY <3>2, <4>1, SumsAt
      <4>2. CASE r # {}
        <5> DEFINE q == r \ {First(r)}
        <5>1. First(r) \in r /\ q \subseteq r /\ q \subseteq A /\ q # A
          BY <3>1, <4>2 DEF First
        <5>2. Sums(sum(q), f, q)
          BY <1>3, <5>1
        <5>3. sum(r)[q] = sum(q)[q]
          <6>1. r \in SUBSET S /\ q \in SUBSET S /\ q \in SUBSET r /\ q \subseteq q
            BY <1>2, <3>1, <5>1
          <6> HIDE DEF r, q
          <6> QED
            BY <3>2, <5>2, <6>1, SumsUnique
        <5>4. sum(r)[r] = f[First(r)] + sum(r)[q]
          <6>1. r \in SUBSET r
            OBVIOUS
          <6> HIDE DEF r
          <6> QED
            BY <3>2, <4>2, <6>1, SumsAt
        <5> QED
          BY <4>2, <5>3, <5>4
      <4> QED
        BY <4>1, <4>2
    <3>4. g[s] = f[First(s)] + sum(r)[r]
      BY <2>2
    <3>5. g[r] = at(r)
      BY <3>1
    <3> QED
      BY <2>2, <3>3, <3>4, <3>5
  <2> QED
    BY <2>1, <2>2
<1>5. Sums(g, f, A)
  <2> HIDE DEF at
  <2>1. g = [s \in SUBSET A |-> g[s]]
    OBVIOUS
  <2> HIDE DEF g
  <2>2. g = [s \in SUBSET A |-> IF s = {} THEN 0 ELSE f[First(s)] + g[s \ {First(s)}]]
    BY <1>4, <2>1
  <2> QED
    BY <2>2 DEF Sums
<1> QED
  BY <1>2, <1>5

(* What such a function adds up does not depend on the order.              *)
LEMMA SumsAny ==
    ASSUME NEW S, IsFiniteSet(S), NEW f, \A x \in S : f[x] \in Nat, NEW h, Sums(h, f, S)
    PROVE  /\ \A s \in SUBSET S : h[s] \in Nat
           /\ \A s \in SUBSET S : \A y \in s : h[s] = f[y] + h[s \ {y}]
<1>0. /\ h[{}] = 0
      /\ \A s \in SUBSET S : s # {} => First(s) \in s /\ h[s] = f[First(s)] + h[s \ {First(s)}]
  <2>1. \A s \in SUBSET S :
            /\ s = {} => h[s] = 0
            /\ s # {} => First(s) \in s /\ h[s] = f[First(s)] + h[s \ {First(s)}]
    BY SumsAt
  <2> QED
    BY <2>1, Zenon
<1>1. ASSUME NEW s \in SUBSET S PROVE h[s] \in Nat
  <2> DEFINE T == {t \in SUBSET S : h[t] \notin Nat}
  <2>1. SUFFICES ASSUME T # {} PROVE FALSE
    BY DEF T
  <2>2. PICK t \in T : \A u \in T : ~(u \subseteq t /\ u # t)
    <3>1. T \in SUBSET SUBSET S
      OBVIOUS
    <3> HIDE DEF T
    <3> QED
      BY <2>1, <3>1, LeastSet
  <2>3. t \in SUBSET S /\ h[t] \notin Nat
    OBVIOUS
  <2>4. t # {} /\ First(t) \in t /\ h[t] = f[First(t)] + h[t \ {First(t)}]
    <3> HIDE DEF T
    <3>1. t # {}
      <4>1. h[{}] \in Nat
        BY <1>0
      <4> QED
        BY <2>3, <4>1, Zenon
    <3> QED
      BY <1>0, <2>3, <3>1
  <2>5. h[t \ {First(t)}] \in Nat
    BY <2>2, <2>4
  <2> HIDE DEF T
  <2>6. f[First(t)] \in Nat
    BY <2>3, <2>4
  <2> QED
    BY <2>3, <2>4, <2>5, <2>6
<1>2. ASSUME NEW s \in SUBSET S, NEW y \in s PROVE h[s] = f[y] + h[s \ {y}]
  <2> DEFINE T == {t \in SUBSET S : \E z \in t : h[t] # f[z] + h[t \ {z}]}
  <2>1. SUFFICES ASSUME T # {} PROVE FALSE
    BY DEF T
  <2>2. PICK t \in T : \A u \in T : ~(u \subseteq t /\ u # t)
    <3>1. T \in SUBSET SUBSET S
      OBVIOUS
    <3> HIDE DEF T
    <3> QED
      BY <2>1, <3>1, LeastSet
  <2>3. PICK z \in t : h[t] # f[z] + h[t \ {z}]
    OBVIOUS
  <2>4. t \in SUBSET S
    OBVIOUS
  <2>5. PICK x \in t : x = First(t) /\ h[t] = f[x] + h[t \ {x}]
    <3> HIDE DEF T
    <3>1. t # {}
      OBVIOUS
    <3> QED
      BY <1>0, <2>4, <3>1
  <2>6. \A u \in SUBSET S : u \subseteq t /\ u # t => \A w \in u : h[u] = f[w] + h[u \ {w}]
    BY <2>2
  <2> HIDE DEF T
  <2>7. x # z
    BY <2>3, <2>5
  <2>8. h[t \ {x}] = f[z] + h[(t \ {x}) \ {z}]
    BY <2>4, <2>6, <2>7
  <2>9. h[t \ {z}] = f[x] + h[(t \ {z}) \ {x}]
    BY <2>4, <2>6, <2>7
  <2>10. PICK r \in SUBSET S : r = (t \ {x}) \ {z} /\ r = (t \ {z}) \ {x}
    BY <2>4
  <2>11. f[x] \in Nat /\ f[z] \in Nat /\ h[r] \in Nat
    BY <1>1, <2>4
  <2>12. h[t \ {x}] = f[z] + h[r] /\ h[t \ {z}] = f[x] + h[r]
    BY <2>8, <2>9, <2>10
  <2>13. h[t] = f[x] + (f[z] + h[r]) /\ h[t] # f[z] + (f[x] + h[r])
    BY <2>3, <2>5, <2>12
  <2> QED
    BY <2>11, <2>13
<1> QED
  BY <1>1, <1>2

(* The sum of f over A, as the model's ledger adds it up.                  *)
Total(f, A) == MapThenSumSet(LAMBDA x : f[x], A)

(* The library's sum of a mapping is what such a function adds up.         *)
LEMMA SumIsSums ==
    ASSUME NEW S, IsFiniteSet(S), NEW f, NEW h, Sums(h, f, S), NEW s \in SUBSET S
    PROVE  Total(f, s) = h[s]
<1>0. IsFiniteSet(s)
  BY FS_Subset
<1> DEFINE k == CHOOSE x : Sums(x, f, s)
<1>1. \E x : Sums(x, f, s)
  BY <1>0, SumsExist
<1>2. Sums(k, f, s)
  BY <1>1
<1>3. Total(f, s) = k[s]
  BY DEF Total, MapThenSumSet, MapThenFoldSet, Sums, First
<1>4. s \in SUBSET S /\ S \in SUBSET S /\ s \in SUBSET s /\ s \subseteq S
  OBVIOUS
<1> HIDE DEF k
<1>5. k[s] = h[s]
  BY <1>2, <1>4, SumsUnique
<1> QED
  BY <1>3, <1>5

(* A sum over a set is one element's amount and the sum of the others.     *)
LEMMA TotalStep ==
    ASSUME NEW A \in SUBSET Jobs, NEW f, \A x \in Jobs : f[x] \in Nat
    PROVE  /\ Total(f, A) \in Nat
           /\ Total(f, {}) = 0
           /\ \A y \in A : Total(f, A) = f[y] + Total(f, A \ {y})
<1>1. IsFiniteSet(Jobs)
  BY JobsAssumption
<1>2. PICK h : Sums(h, f, Jobs)
  BY <1>1, SumsExist
<1>3. ASSUME NEW s \in SUBSET Jobs PROVE Total(f, s) = h[s]
  BY <1>1, <1>2, SumIsSums
<1>4. /\ \A s \in SUBSET Jobs : h[s] \in Nat
      /\ \A s \in SUBSET Jobs : \A y \in s : h[s] = f[y] + h[s \ {y}]
  BY <1>1, <1>2, SumsAny
<1>5. h[{}] = 0
  BY <1>2, SumsAt
<1> QED
  BY <1>3, <1>4, <1>5

(* A sum depends on the amounts of its set only.                           *)
LEMMA TotalSame ==
    ASSUME NEW A \in SUBSET Jobs, NEW f, NEW g, \A x \in A : f[x] = g[x]
    PROVE  Total(f, A) = Total(g, A)
<1>1. IsFiniteSet(A) /\ A \in SUBSET A
  BY JobsAssumption, FS_Subset
<1>2. PICK h : Sums(h, f, A)
  BY <1>1, SumsExist
<1>3. Sums(h, g, A)
  <2>1. \A s \in SUBSET A : s # {} => First(s) \in A
    BY DEF First
  <2>2. [s \in SUBSET A |-> IF s = {} THEN 0 ELSE f[First(s)] + h[s \ {First(s)}]]
        = [s \in SUBSET A |-> IF s = {} THEN 0 ELSE g[First(s)] + h[s \ {First(s)}]]
    BY <2>1
  <2> QED
    BY <1>2, <2>2 DEF Sums
<1>4. Total(f, A) = h[A]
  BY <1>1, <1>2, SumIsSums
<1>5. Total(g, A) = h[A]
  BY <1>1, <1>3, SumIsSums
<1> QED
  BY <1>4, <1>5

(* Nothing adds up to nothing.                                             *)
LEMMA TotalZero ==
    ASSUME NEW f, \A x \in Jobs : f[x] = 0
    PROVE  Total(f, Jobs) = 0
<1> DEFINE T == {A \in SUBSET Jobs : Total(f, A) # 0}
<1>1. SUFFICES ASSUME T # {} PROVE FALSE
  BY DEF T
<1>2. PICK A \in T : \A B \in T : ~(B \subseteq A /\ B # A)
  <2>1. T \in SUBSET SUBSET Jobs
    OBVIOUS
  <2> HIDE DEF T
  <2> QED
    BY <1>1, <2>1, JobsAssumption, LeastSet
<1>3. A \in SUBSET Jobs /\ Total(f, A) # 0
  OBVIOUS
<1>4. /\ Total(f, {}) = 0
      /\ \A y \in A : Total(f, A) = f[y] + Total(f, A \ {y})
  <2>1. \A x \in Jobs : f[x] \in Nat
    OBVIOUS
  <2> HIDE DEF T
  <2> QED
    BY <1>3, <2>1, TotalStep
<1>5. PICK y \in A : Total(f, A) = f[y] + Total(f, A \ {y})
  BY <1>3, <1>4
<1>6. Total(f, A \ {y}) = 0
  BY <1>2, <1>3
<1>7. f[y] = 0
  BY <1>3
<1> QED
  BY <1>3, <1>5, <1>6, <1>7

(* f over A and g over B are the same but for j.                           *)
SameBut(f, A, g, B, j) ==
    /\ A \in SUBSET Jobs /\ B \in SUBSET Jobs /\ j \in Jobs
    /\ \A x \in Jobs : f[x] \in Nat /\ g[x] \in Nat
    /\ A \ {j} = B \ {j}
    /\ \A x \in A \ {j} : f[x] = g[x]

(* What j adds to the sum of f over A.                                     *)
Part(f, A, j) == IF j \in A THEN f[j] ELSE 0

(* A change at one element changes a sum by what that element adds.        *)
LEMMA TotalChange ==
    ASSUME NEW f, NEW A, NEW g, NEW B, NEW j, SameBut(f, A, g, B, j)
    PROVE  /\ Total(f, A) \in Nat /\ Part(f, A, j) \in Nat /\ Part(f, A, j) <= Total(f, A)
           /\ Total(g, B) = (Total(f, A) - Part(f, A, j)) + Part(g, B, j)
<1> USE DEF SameBut
<1>1. /\ Total(f, A) \in Nat /\ Total(f, A \ {j}) \in Nat /\ Total(g, B \ {j}) \in Nat
      /\ f[j] \in Nat /\ g[j] \in Nat
  <2>1. A \ {j} \in SUBSET Jobs /\ B \ {j} \in SUBSET Jobs
    OBVIOUS
  <2> QED
    BY <2>1, TotalStep
<1>2. Total(f, A) = Part(f, A, j) + Total(f, A \ {j})
  <2>1. CASE j \in A
    BY <2>1, <1>1, TotalStep DEF Part
  <2>2. CASE j \notin A
    <3>1. A \ {j} = A /\ Part(f, A, j) = 0
      BY <2>2 DEF Part
    <3> QED
      BY <1>1, <3>1
  <2> QED
    BY <2>1, <2>2
<1>3. Total(g, B) = Part(g, B, j) + Total(g, B \ {j})
  <2>1. CASE j \in B
    BY <2>1, <1>1, TotalStep DEF Part
  <2>2. CASE j \notin B
    <3>1. B \ {j} = B /\ Part(g, B, j) = 0
      BY <2>2 DEF Part
    <3> QED
      BY <1>1, <3>1
  <2> QED
    BY <2>1, <2>2
<1>4. Total(f, A \ {j}) = Total(g, B \ {j})
  <2>1. A \ {j} \in SUBSET Jobs
    OBVIOUS
  <2> QED
    BY <2>1, TotalSame
<1>5. Part(f, A, j) \in Nat /\ Part(g, B, j) \in Nat
  BY <1>1 DEF Part
<1> QED
  BY <1>1, <1>2, <1>3, <1>4, <1>5

-----------------------------------------------------------------------------
(* The shared budget is conserved.                                         *)

(* What every job asked for, and what every settled job used.              *)
Amounts == [j \in Jobs |-> Estimate(j)]
Usages == [j \in Jobs |-> rec[j].usage]

(* The ledger holds what the unsettled jobs reserved and the others used.  *)
Balanced == ledger.reserved = Total(Amounts, Holders) /\ ledger.settled = Total(Usages, Jobs)
Books == raced = {} /\ ~torn => Balanced

(* What a record says of its settlement: a job that waits is not settled,  *)
(* an unsettled one used nothing, a worker's copy is no older than the     *)
(* cancellation it does not show, and a refused job has failed.            *)
JobBooked(j) ==
    /\ Status(j) \in {"absent", "queued"} => ~rec[j].settled
    /\ rec[j].settled \/ rec[j].usage = 0
    /\ worker[j] = "read" =>
           /\ seen[j].settled \/ seen[j].usage = 0
           /\ seen[j].status = "queued" => ~seen[j].settled
           /\ seen[j].status = "cancelled" => Status(j) = "cancelled"
    /\ j \in refused /\ ~torn => Status(j) = "failed"

BookInv == IInv /\ (\A j \in Jobs : JobBooked(j)) /\ Books

(* The fold of the model's ledger is the sum of the functions above.       *)
LEMMA SumsOfTheLedger ==
    /\ MapThenSumSet(Estimate, Holders) = Total(Amounts, Holders)
    /\ MapThenSumSet(LAMBDA j : rec[j].usage, Jobs) = Total(Usages, Jobs)
<1>1. IsFiniteSet(Jobs) /\ Holders \in SUBSET Jobs
  BY JobsAssumption DEF Holders
<1>2. MapThenSumSet(Estimate, Holders) = Total(Amounts, Holders)
  <2> DEFINE adds(k) == k = [s \in SUBSET Holders |->
                                IF s = {} THEN 0 ELSE Estimate(First(s)) + k[s \ {First(s)}]]
             c == CHOOSE k : adds(k)
  <2>1. \A s \in SUBSET Holders : s # {} => Amounts[First(s)] = Estimate(First(s))
    <3>1. \A s \in SUBSET Holders : s # {} => First(s) \in Jobs
      BY <1>1 DEF First
    <3> QED
      BY <3>1 DEF Amounts
  <2>2. ASSUME NEW k PROVE adds(k) <=> Sums(k, Amounts, Holders)
    <3>1. [s \in SUBSET Holders |-> IF s = {} THEN 0 ELSE Estimate(First(s)) + k[s \ {First(s)}]]
          = [s \in SUBSET Holders |-> IF s = {} THEN 0 ELSE Amounts[First(s)] + k[s \ {First(s)}]]
      BY <2>1
    <3> QED
      BY <3>1 DEF Sums
  <2>3. MapThenSumSet(Estimate, Holders) = c[Holders]
    BY DEF MapThenSumSet, MapThenFoldSet, First, Estimate
  <2> HIDE DEF adds
  <2>4. adds(c)
    <3>1. \E k : adds(k)
      BY <1>1, <2>2, FS_Subset, SumsExist
    <3> QED
      BY <3>1
  <2> HIDE DEF c
  <2>5. Sums(c, Amounts, Holders)
    BY <2>2, <2>4
  <2>6. IsFiniteSet(Holders) /\ Holders \in SUBSET Holders
    BY <1>1, FS_Subset
  <2> QED
    BY <2>3, <2>5, <2>6, SumIsSums
<1>3. MapThenSumSet(LAMBDA j : rec[j].usage, Jobs) = Total(Usages, Jobs)
  <2> DEFINE adds(k) == k = [s \in SUBSET Jobs |->
                                IF s = {} THEN 0 ELSE rec[First(s)].usage + k[s \ {First(s)}]]
             c == CHOOSE k : adds(k)
  <2>1. \A s \in SUBSET Jobs : s # {} => Usages[First(s)] = rec[First(s)].usage
    <3>1. \A s \in SUBSET Jobs : s # {} => First(s) \in Jobs
      BY DEF First
    <3> QED
      BY <3>1 DEF Usages
  <2>2. ASSUME NEW k PROVE adds(k) <=> Sums(k, Usages, Jobs)
    <3>1. [s \in SUBSET Jobs |-> IF s = {} THEN 0 ELSE rec[First(s)].usage + k[s \ {First(s)}]]
          = [s \in SUBSET Jobs |-> IF s = {} THEN 0 ELSE Usages[First(s)] + k[s \ {First(s)}]]
      BY <2>1
    <3> QED
      BY <3>1 DEF Sums
  <2>3. MapThenSumSet(LAMBDA j : rec[j].usage, Jobs) = c[Jobs]
    BY DEF MapThenSumSet, MapThenFoldSet, First
  <2> HIDE DEF adds
  <2>4. adds(c)
    <3>1. \E k : adds(k)
      BY <1>1, <2>2, SumsExist
    <3> QED
      BY <3>1
  <2> HIDE DEF c
  <2>5. Sums(c, Usages, Jobs) /\ Jobs \in SUBSET Jobs
    BY <2>2, <2>4
  <2> QED
    BY <1>1, <2>3, <2>5, SumIsSums
<1> QED
  BY <1>2, <1>3

(* The invariant says what the property says.                              *)
LEMMA BooksAreConserved == BookInv => LedgerConserved
  BY SumsOfTheLedger DEF BookInv, Books, Balanced, LedgerConserved

(* The amounts are natural numbers.                                        *)
AmountsOK ==
    /\ \A j \in Jobs : Amounts[j] \in Nat /\ Amounts[j] = Estimate(j)
    /\ \A j \in Jobs : Usages[j] \in Nat /\ Usages[j] = rec[j].usage
    /\ Holders \in SUBSET Jobs
    /\ ledger.reserved \in Nat /\ ledger.settled \in Nat

LEMMA AmountsType == TypeOK => AmountsOK
<1> SUFFICES ASSUME TypeOK PROVE AmountsOK
  OBVIOUS
<1>1. \A j \in Jobs : rec[j].req \in Requests /\ rec[j].usage \in 0..MaxUsage
  BY DEF TypeOK, Records
<1>2. \A j \in Jobs : rec[j].req.estimate \in Nat /\ rec[j].usage \in Nat
  BY <1>1, RequestsAssumption, BoundsAssumption
<1>3. ledger.reserved \in Nat /\ ledger.settled \in Nat
  BY DEF TypeOK
<1> QED
  BY <1>2, <1>3 DEF AmountsOK, Amounts, Usages, Estimate, Holders

(* What a job holds of the reserved amount.                                *)
Held(j) == IF j \in Holders THEN Estimate(j) ELSE 0

(* A step that writes one job's record and moves the ledger by what that   *)
(* job holds and used keeps the balance.                                   *)
LEMMA OneBooked ==
    ASSUME TypeOK, TypeOK', Balanced, NEW j \in Jobs,
           \A k \in Jobs \ {j} : rec'[k] = rec[k],
           \A k \in Jobs \ {j} : k \in refused' <=> k \in refused,
           ledger'.reserved = AtLeastZero(ledger.reserved - Held(j)) + Held(j)',
           ledger'.settled = ledger.settled - rec[j].usage + rec'[j].usage
    PROVE  Balanced'
<1>1. /\ \A k \in Jobs : Amounts[k] \in Nat /\ Amounts[k] = Estimate(k)
      /\ \A k \in Jobs : Usages[k] \in Nat /\ Usages[k] = rec[k].usage
      /\ Holders \in SUBSET Jobs
  BY AmountsType DEF AmountsOK
<1>2. /\ \A k \in Jobs : Amounts'[k] \in Nat /\ Amounts'[k] = Estimate(k)'
      /\ \A k \in Jobs : Usages'[k] \in Nat /\ Usages'[k] = rec'[k].usage
      /\ Holders' \in SUBSET Jobs
  <2>1. AmountsOK'
    BY AmountsType, PTL
  <2> QED
    BY <2>1 DEF AmountsOK
<1>3. Holders \ {j} = Holders' \ {j}
  BY DEF Holders, Status, Estimate
<1>4. /\ \A k \in Jobs \ {j} : Amounts[k] = Amounts'[k]
      /\ \A k \in Jobs \ {j} : Usages[k] = Usages'[k]
  BY <1>1, <1>2 DEF Estimate
<1>5. /\ Total(Amounts, Holders) \in Nat /\ Part(Amounts, Holders, j) \in Nat
      /\ Part(Amounts, Holders, j) <= Total(Amounts, Holders)
      /\ Total(Amounts', Holders')
         = (Total(Amounts, Holders) - Part(Amounts, Holders, j)) + Part(Amounts', Holders', j)
  <2>1. SameBut(Amounts, Holders, Amounts', Holders', j)
    BY <1>1, <1>2, <1>3, <1>4 DEF SameBut
  <2> QED
    BY <2>1, TotalChange
<1>6. /\ Total(Usages, Jobs) \in Nat
      /\ Total(Usages', Jobs) = (Total(Usages, Jobs) - Usages[j]) + Usages'[j]
  <2>1. SameBut(Usages, Jobs, Usages', Jobs, j)
    BY <1>1, <1>2, <1>4 DEF SameBut
  <2>2. Part(Usages, Jobs, j) = Usages[j] /\ Part(Usages', Jobs, j) = Usages'[j]
    BY DEF Part
  <2> QED
    BY <2>1, <2>2, TotalChange
<1>7. ledger'.reserved = Total(Amounts', Holders')
  <2>1. Held(j) = Part(Amounts, Holders, j) /\ Held(j)' = Part(Amounts', Holders', j)
    BY <1>1, <1>2 DEF Held, Part
  <2>2. ledger.reserved = Total(Amounts, Holders)
    BY DEF Balanced
  <2>3. AtLeastZero(ledger.reserved - Held(j)) = Total(Amounts, Holders) - Part(Amounts, Holders, j)
    BY <1>5, <2>1, <2>2 DEF AtLeastZero
  <2> QED
    BY <1>5, <2>1, <2>3
<1>8. ledger'.settled = Total(Usages', Jobs)
  <2>1. ledger.settled = Total(Usages, Jobs) /\ Usages[j] = rec[j].usage /\ Usages'[j] = rec'[j].usage
    BY <1>1, <1>2 DEF Balanced
  <2> QED
    BY <1>6, <2>1
<1> QED
  BY <1>7, <1>8 DEF Balanced

(* A step that writes neither a request nor a settlement and leaves the    *)
(* ledger alone keeps the balance.                                         *)
LEMMA SameBooks ==
    ASSUME BookInv, TypeOK',
           \A k \in Jobs : /\ rec'[k].req = rec[k].req /\ rec'[k].settled = rec[k].settled
                           /\ rec'[k].usage = rec[k].usage
                           /\ rec'[k].status = "absent" <=> rec[k].status = "absent",
           UNCHANGED <<ledger, refused>>, raced \subseteq raced', torn => torn'
    PROVE  Books'
<1>1. Holders' = Holders
  BY DEF Holders, Status, Estimate
<1>2. Amounts' = Amounts /\ Usages' = Usages
  BY DEF Amounts, Usages, Estimate
<1>3. raced' = {} /\ ~torn' => raced = {} /\ ~torn
  OBVIOUS
<1> QED
  BY <1>1, <1>2, <1>3 DEF BookInv, Books, Balanced

(* A settlement moves a job's part of the reserved amount to the settled.  *)
LEMMA SettledBooks ==
    ASSUME BookInv, TypeOK', NEW j \in Jobs, NEW r \in Records,
           r.req = rec[j].req, r.settled = rec[j].settled, r.usage = rec[j].usage,
           NEW status \in TerminalStatuses, NEW usage \in 0..MaxUsage,
           Status(j) \in {"queued", "running", "stopping"},
           rec' = [rec EXCEPT ![j] = Closed(r, status, usage)], ledger' = Settled(j, usage),
           UNCHANGED <<raced, refused, torn>>
    PROVE  /\ Books'
           /\ \A k \in Jobs \ {j} : rec'[k] = rec[k]
           /\ rec'[j].status = status
           /\ rec'[j].settled \/ rec'[j].usage = 0
<1>0. /\ TypeOK /\ JobBooked(j) /\ rec[j] \in Records /\ rec \in [Jobs -> Records]
      /\ rec[j].req \in Requests /\ rec[j].usage \in Nat /\ usage \in Nat
  BY BoundsAssumption DEF BookInv, IInv, TypeOK, Records
<1>1. /\ Estimate(j) \in Nat /\ ledger.reserved \in Nat /\ ledger.settled \in Nat
  BY <1>0, RequestsAssumption DEF Estimate, TypeOK
<1>2. /\ \A k \in Jobs \ {j} : rec'[k] = rec[k]
      /\ rec'[j] = Closed(r, status, usage)
  BY <1>0
<1>3. CASE Estimate(j) = 0 \/ rec[j].settled
  <2>1. rec'[j] = [r EXCEPT !.status = status] /\ ledger' = ledger
    BY <1>2, <1>3 DEF Closed, Settled, Estimate
  <2>2. /\ rec'[j].status = status /\ rec'[j].req = rec[j].req
        /\ rec'[j].settled = rec[j].settled /\ rec'[j].usage = rec[j].usage
    BY <2>1 DEF Records
  <2>3. \A k \in Jobs : /\ rec'[k].req = rec[k].req /\ rec'[k].settled = rec[k].settled
                        /\ rec'[k].usage = rec[k].usage
                        /\ rec'[k].status = "absent" <=> rec[k].status = "absent"
    BY <1>2, <2>2 DEF Status, TerminalStatuses
  <2>4. Books'
    BY <2>1, <2>3, SameBooks
  <2> QED
    BY <1>0, <1>2, <2>2, <2>4 DEF JobBooked
<1>4. CASE Estimate(j) # 0 /\ ~rec[j].settled
  <2>1. /\ rec'[j] = [r EXCEPT !.status = status, !.settled = TRUE, !.usage = usage]
        /\ ledger' = [reserved |-> AtLeastZero(ledger.reserved - Estimate(j)),
                      settled |-> ledger.settled + usage]
    BY <1>2, <1>4 DEF Closed, Settled, Estimate
  <2>2. rec'[j].status = status /\ rec'[j].settled /\ rec'[j].usage = usage
    BY <2>1 DEF Records
  <2>3. ASSUME raced' = {}, ~torn' PROVE Balanced'
    <3>1. Balanced /\ j \notin refused /\ rec[j].usage = 0
      BY <1>0, <1>4, <2>3 DEF BookInv, Books, JobBooked
    <3>2. Held(j) = Estimate(j)
      BY <1>1, <1>4, <3>1 DEF Held, Holders
    <3>3. Held(j)' = 0
      BY <2>2 DEF Held, Holders
    <3>4. ledger'.reserved = AtLeastZero(ledger.reserved - Held(j)) + Held(j)'
      BY <1>1, <2>1, <3>2, <3>3 DEF AtLeastZero
    <3>5. ledger'.settled = ledger.settled - rec[j].usage + rec'[j].usage
      BY <1>0, <1>1, <2>1, <2>2, <3>1
    <3> QED
      BY <1>0, <1>2, <3>1, <3>4, <3>5, OneBooked
  <2> QED
    BY <1>2, <2>2, <2>3 DEF Books
<1> QED
  BY <1>1, <1>3, <1>4

(* What nobody wrote stays booked.                                         *)
LEMMA KeptBooked ==
    ASSUME NEW k \in Jobs, JobBooked(k), rec'[k] = rec[k],
           worker'[k] = "read" => worker[k] = "read" /\ seen'[k] = seen[k],
           torn => torn', k \in refused' => k \in refused
    PROVE  JobBooked(k)'
  BY DEF JobBooked, Status

(* A settled job is booked once its worker is past its copy.               *)
LEMMA ClosedBooked ==
    ASSUME NEW j \in Jobs, JobBooked(j), Status(j) \in {"queued", "running", "stopping"},
           Status(j)' \in TerminalStatuses, rec'[j].settled \/ rec'[j].usage = 0,
           worker'[j] = "read" => worker[j] = "read" /\ seen'[j] = seen[j] /\ Status(j)' = "cancelled",
           UNCHANGED <<refused, torn>>
    PROVE  JobBooked(j)'
  BY DEF JobBooked, TerminalStatuses

(* A worker that finalises its job keeps the books.                        *)
LEMMA EndsBooked ==
    ASSUME BookInv, TypeOK', NEW j \in Jobs, NEW usage \in 0..MaxUsage,
           NEW wanted \in {"completed", "failed", "cancelled"},
           worker[j] \in {"started", "runner", "checked", "published"},
           Ends(j, wanted, usage)
    PROVE  Books' /\ \A k \in Jobs : JobBooked(k)'
<1>1. /\ TypeOK /\ rec[j] \in Records /\ FinalizeFrom(rec[j], j, wanted, usage)
      /\ Status(j) \in {"running", "stopping", "needs_recovery"}
      /\ \A k \in Jobs : JobBooked(k)
  BY DEF BookInv, IInv, TypeOK, Ends, Finalize, JobsSound, JobSound
<1>2. /\ UNCHANGED <<seen, raced, refused, torn>>
      /\ \A k \in Jobs : worker'[k] = "read" => worker[k] = "read" /\ k # j
  BY <1>1 DEF Ends, GoTo, history, TypeOK
<1>3. CASE Status(j) = "needs_recovery"
  <2>1. rec' = rec /\ ledger' = ledger
    BY <1>1, <1>3 DEF FinalizeFrom, Status
  <2>2. Books'
    BY <1>2, <2>1, SameBooks
  <2> QED
    BY <1>1, <1>2, <2>1, <2>2, KeptBooked
<1>4. CASE Status(j) \in {"running", "stopping"}
  <2>1. PICK status \in {"completed", "failed", "cancelled"} : status = Outcome(rec[j].status, wanted)
    BY DEF Outcome
  <2>2. rec' = [rec EXCEPT ![j] = Closed(rec[j], status, usage)] /\ ledger' = Settled(j, usage)
    BY <1>1, <1>4, <2>1 DEF FinalizeFrom, Status
  <2>3. status \in TerminalStatuses
    BY <2>1 DEF TerminalStatuses
  <2>4. /\ Books' /\ rec'[j].status = status
        /\ \A k \in Jobs \ {j} : rec'[k] = rec[k]
        /\ rec'[j].settled \/ rec'[j].usage = 0
    BY <1>1, <1>2, <1>4, <2>2, <2>3, SettledBooks
  <2>5. JobBooked(j)'
    BY <1>1, <1>2, <1>4, <2>3, <2>4, ClosedBooked DEF Status
  <2> QED
    BY <1>1, <1>2, <2>4, <2>5, KeptBooked
<1> QED
  BY <1>1, <1>3, <1>4

(* Every action keeps the books.                                           *)
LEMMA BooksKept ==
    ASSUME BookInv, [Next]_vars
    PROVE  Books' /\ \A k \in Jobs : JobBooked(k)'
<1> USE DEF disk, threads, queue, history
<1>0. /\ IInv /\ TypeOK /\ TypeOK' /\ JobsSound /\ \A k \in Jobs : JobBooked(k)
  BY TypePreserved DEF BookInv, IInv
<1> DEFINE Goal == Books' /\ \A k \in Jobs : JobBooked(k)'
<1>1. ASSUME NEW j \in Jobs, NEW r \in Requests, Create(j, r) PROVE Goal
  <2>1. /\ \A k \in Jobs \ {j} : rec'[k] = rec[k]
        /\ rec'[j] = NewRecord(r, "queued") /\ Status(j) = "absent"
        /\ UNCHANGED <<worker, seen, raced, refused, torn>>
        /\ ledger' = Reserved(r.estimate) /\ r.estimate \in Nat
    BY <1>0, <1>1, RequestsAssumption DEF Create, Admissible, TypeOK
  <2>2. /\ rec'[j].status = "queued" /\ rec'[j].req = r /\ ~rec'[j].settled /\ rec'[j].usage = 0
    BY <2>1, BlankRecord DEF NewRecord, Blank, Records
  <2>3. ~rec[j].settled /\ rec[j].usage = 0 /\ worker[j] # "read"
    BY <1>0, <2>1 DEF JobBooked, JobsSound, JobSound
  <2>4. ASSUME raced' = {}, ~torn' PROVE Balanced'
    <3>1. Balanced /\ j \notin refused
      BY <1>0, <2>1, <2>4 DEF BookInv, Books, JobBooked
    <3>2. ledger.reserved \in Nat /\ ledger.settled \in Nat
      BY <1>0 DEF TypeOK
    <3>3. Held(j) = 0
      BY <2>1 DEF Held, Holders
    <3>4. Held(j)' = r.estimate
      BY <2>1, <2>2, <3>1 DEF Held, Holders, Status, Estimate
    <3>5. /\ ledger'.reserved = AtLeastZero(ledger.reserved - Held(j)) + Held(j)'
          /\ ledger'.settled = ledger.settled - rec[j].usage + rec'[j].usage
      <4>1. ledger'.reserved = ledger.reserved + r.estimate /\ ledger'.settled = ledger.settled
        BY <1>0, <2>1 DEF Reserved, TypeOK
      <4> QED
        BY <2>1, <2>2, <2>3, <3>2, <3>3, <3>4, <4>1 DEF AtLeastZero
    <3> QED
      BY <1>0, <2>1, <3>1, <3>5, OneBooked
  <2>5. JobBooked(j)'
    BY <1>0, <2>1, <2>2, <2>3 DEF JobBooked, Status
  <2> QED
    BY <1>0, <2>1, <2>4, <2>5, KeptBooked DEF Books
<1>2. ASSUME NEW j \in Jobs, NEW r \in Requests, CreateRefused(j, r) PROVE Goal
  <2>1. /\ \A k \in Jobs \ {j} : rec'[k] = rec[k]
        /\ rec'[j] = NewRecord(r, "failed") /\ Status(j) = "absent"
        /\ UNCHANGED <<worker, seen, raced, torn, ledger>>
        /\ refused' = refused \cup {j}
    BY <1>0, <1>2 DEF CreateRefused, Admissible, TypeOK
  <2>2. /\ rec'[j].status = "failed" /\ ~rec'[j].settled /\ rec'[j].usage = 0
    BY <2>1, BlankRecord DEF NewRecord, Blank, Records
  <2>3. ~rec[j].settled /\ rec[j].usage = 0 /\ worker[j] # "read"
    BY <1>0, <2>1 DEF JobBooked, JobsSound, JobSound
  <2>4. ASSUME raced' = {}, ~torn' PROVE Balanced'
    <3>1. Balanced
      BY <1>0, <2>1, <2>4 DEF BookInv, Books
    <3>2. ledger.reserved \in Nat /\ ledger.settled \in Nat
      BY <1>0 DEF TypeOK
    <3>3. Held(j) = 0 /\ Held(j)' = 0
      BY <2>1 DEF Held, Holders
    <3>4. /\ ledger'.reserved = AtLeastZero(ledger.reserved - Held(j)) + Held(j)'
          /\ ledger'.settled = ledger.settled - rec[j].usage + rec'[j].usage
      BY <2>1, <2>2, <2>3, <3>2, <3>3 DEF AtLeastZero
    <3> QED
      BY <1>0, <2>1, <3>1, <3>4, OneBooked
  <2>5. JobBooked(j)'
    BY <1>0, <2>1, <2>2, <2>3 DEF JobBooked, Status
  <2> QED
    BY <1>0, <2>1, <2>4, <2>5, KeptBooked DEF Books
<1>3. ASSUME NEW k \in LateKinds, RegisterRunner(k) PROVE Goal
  <2>1. ASSUME NEW j \in Jobs
        PROVE  /\ rec'[j].req = rec[j].req /\ rec'[j].settled = rec[j].settled
               /\ rec'[j].usage = rec[j].usage /\ rec'[j].status = rec[j].status
    <3>1. rec[j] \in Records
      BY <1>0 DEF TypeOK
    <3>2. rec'[j] = rec[j] \/ rec'[j] = [rec[j] EXCEPT !.deferred = FALSE]
      BY <1>3 DEF RegisterRunner
    <3> QED
      BY <3>1, <3>2 DEF Records
  <2>2. UNCHANGED <<ledger, refused, raced, torn, worker, seen>>
    BY <1>3 DEF RegisterRunner
  <2>3. Books'
    BY <1>0, <2>1, <2>2, SameBooks
  <2> QED
    BY <1>0, <2>1, <2>2, <2>3 DEF JobBooked, Status
<1>4. ASSUME UNCHANGED <<rec, ledger, refused, raced>>, torn => torn',
             \A j \in Jobs : worker'[j] = "read" => worker[j] = "read" /\ seen'[j] = seen[j]
      PROVE  Goal
  <2>1. Books'
    BY <1>0, <1>4, SameBooks
  <2> QED
    BY <1>0, <1>4, <2>1, KeptBooked
<1>5. ASSUME NEW j \in Jobs, ReadRecord(j) PROVE Goal
  <2>1. /\ UNCHANGED <<rec, ledger, refused, raced, torn>>
        /\ seen'[j] = rec[j] /\ Status(j) \in {"queued", "cancelled"}
        /\ \A k \in Jobs \ {j} : worker'[k] = worker[k] /\ seen'[k] = seen[k]
    BY <1>0, <1>5 DEF ReadRecord, At, GoTo, JobsSound, JobSound, TypeOK
  <2>2. Books'
    BY <1>0, <2>1, SameBooks
  <2>3. JobBooked(j)'
    BY <1>0, <2>1 DEF JobBooked, Status
  <2> QED
    BY <1>0, <2>1, <2>2, <2>3, KeptBooked
<1>6. ASSUME NEW j \in Jobs, Start(j) PROVE Goal
  <2>1. /\ worker[j] = "read" /\ seen[j].req = rec[j].req /\ seen[j].status \in {"queued", "cancelled"}
        /\ Status(j) \in {"queued", "cancelled"} /\ seen[j] \in Records
    BY <1>0, <1>6 DEF Start, At, JobsSound, JobSound, TypeOK
  <2>2. /\ rec'[j] = [seen[j] EXCEPT !.status = "running"]
        /\ \A k \in Jobs \ {j} : rec'[k] = rec[k] /\ worker'[k] = worker[k] /\ seen'[k] = seen[k]
        /\ UNCHANGED <<ledger, refused, torn>> /\ worker'[j] = "started"
        /\ raced' = IF Status(j) \in TerminalStatuses THEN raced \cup {j} ELSE raced
    BY <1>0, <1>6, <2>1 DEF Start, GoTo, TypeOK
  <2>3. /\ rec'[j].status = "running" /\ rec'[j].req = rec[j].req
        /\ rec'[j].settled = seen[j].settled /\ rec'[j].usage = seen[j].usage
    BY <2>1, <2>2 DEF Records
  <2>4. Books'
    <3>1. CASE Status(j) = "cancelled"
      BY <2>2, <3>1 DEF Books, TerminalStatuses
    <3>2. CASE Status(j) = "queued"
      <4>1. seen[j].status = "queued" /\ ~seen[j].settled /\ seen[j].usage = 0
        BY <1>0, <2>1, <3>2 DEF JobBooked
      <4>2. ~rec[j].settled /\ rec[j].usage = 0
        BY <1>0, <3>2 DEF JobBooked
      <4>3. \A k \in Jobs : /\ rec'[k].req = rec[k].req /\ rec'[k].settled = rec[k].settled
                            /\ rec'[k].usage = rec[k].usage
                            /\ rec'[k].status = "absent" <=> rec[k].status = "absent"
        <5>1. rec'[j].settled = FALSE /\ rec[j].settled = FALSE
          BY <1>0, <2>3, <4>1, <4>2, <2>1 DEF TypeOK, Records
        <5> QED
          BY <2>2, <2>3, <3>2, <4>1, <4>2, <5>1 DEF Status
      <4>4. UNCHANGED <<ledger, refused>> /\ raced \subseteq raced' /\ (torn => torn')
        BY <2>2
      <4> QED
        BY <1>0, <4>3, <4>4, SameBooks
    <3> QED
      BY <2>1, <3>1, <3>2
  <2>5. JobBooked(j)'
    BY <1>0, <2>1, <2>2, <2>3 DEF JobBooked, Status
  <2> QED
    BY <1>0, <2>2, <2>4, <2>5, KeptBooked
<1>7. ASSUME NEW j \in Jobs, CancelBeforeRunner(j) PROVE Goal
  BY <1>0, <1>7, BoundsAssumption, EndsBooked DEF CancelBeforeRunner, At
<1>8. ASSUME NEW j \in Jobs, NEW usage \in 0..MaxUsage,
             \/ RunnerReturnsLate(j, usage) \/ RunnerObservesCancel(j, usage)
             \/ RunnerFails(j, usage) \/ Complete(j, usage)
      PROVE  Goal
  BY <1>0, <1>8, EndsBooked DEF RunnerReturnsLate, RunnerObservesCancel, RunnerFails, Complete, At
<1>9. ASSUME NEW j \in Jobs, CancelQueued(j) PROVE Goal
  <2> DEFINE r == [rec[j] EXCEPT !.cancelRequested = TRUE]
  <2>1. /\ r \in Records /\ r.req = rec[j].req /\ r.status = "queued"
        /\ r.settled = rec[j].settled /\ r.usage = rec[j].usage
        /\ Status(j) = "queued" /\ 0 \in 0..MaxUsage /\ "cancelled" \in TerminalStatuses
    <3>1. rec[j] \in Records /\ rec[j].status = "queued"
      BY <1>0, <1>9 DEF TypeOK, CancelQueued, Status
    <3>2. r \in Records /\ r.req = rec[j].req /\ r.status = rec[j].status
      BY <3>1, RecordEdits, Zenon
    <3>3. r.settled = rec[j].settled /\ r.usage = rec[j].usage
      BY <3>1 DEF Records
    <3>4. 0 \in 0..MaxUsage /\ "cancelled" \in TerminalStatuses
      BY BoundsAssumption DEF TerminalStatuses
    <3> HIDE DEF r
    <3> QED
      BY <3>1, <3>2, <3>3, <3>4 DEF Status
  <2>2. /\ FinalizeFrom(r, j, "cancelled", 0)
        /\ UNCHANGED <<refused, raced, torn, worker, seen>>
    BY <1>9 DEF CancelQueued
  <2> HIDE DEF r
  <2>3. rec' = [rec EXCEPT ![j] = Closed(r, "cancelled", 0)] /\ ledger' = Settled(j, 0)
    BY <2>1, <2>2 DEF FinalizeFrom, Outcome
  <2>4. /\ Books' /\ rec'[j].status = "cancelled"
        /\ \A k \in Jobs \ {j} : rec'[k] = rec[k]
        /\ rec'[j].settled \/ rec'[j].usage = 0
    BY <1>0, <2>1, <2>2, <2>3, SettledBooks
  <2>5. JobBooked(j)'
    BY <1>0, <2>1, <2>2, <2>4, ClosedBooked DEF Status
  <2> QED
    BY <1>0, <2>2, <2>4, <2>5, KeptBooked
<1>10. ASSUME NEW j \in Jobs, CancelRunning(j) PROVE Goal
  <2>1. /\ \A k \in Jobs \ {j} : rec'[k] = rec[k]
        /\ rec'[j].req = rec[j].req /\ rec'[j].settled = rec[j].settled
        /\ rec'[j].usage = rec[j].usage
        /\ rec'[j].status = "stopping" /\ rec[j].status = "running"
        /\ UNCHANGED <<ledger, refused, raced, torn, worker, seen>>
    BY <1>0, <1>10 DEF CancelRunning, TypeOK, Records, Status
  <2>2. Books'
    BY <1>0, <2>1, SameBooks
  <2>3. worker[j] # "read"
    BY <1>0, <2>1 DEF JobsSound, JobSound, Status
  <2>4. JobBooked(j)'
    BY <1>0, <2>1, <2>3 DEF JobBooked, Status
  <2> QED
    BY <1>0, <2>1, <2>2, <2>4, KeptBooked
<1>11. ASSUME NEW j \in Jobs, NEW usage \in 0..MaxUsage, CancelSettles(j, usage) PROVE Goal
  <2>1. CASE Status(j) # "stopping"
    BY <1>4, <1>11, <2>1 DEF CancelSettles
  <2>2. CASE Status(j) = "stopping"
    <3>1. /\ UNCHANGED <<refused, raced, torn, worker, seen>>
          /\ rec[j] \in Records /\ worker[j] # "read"
      BY <1>0, <1>11, <2>2 DEF CancelSettles, TypeOK, JobsSound, JobSound
    <3>2. PICK status \in {"needs_recovery", "cancelled"} :
              rec' = [rec EXCEPT ![j] = Closed(rec[j], status, usage)] /\ ledger' = Settled(j, usage)
      <4>1. CASE WorkerAlive(j)
        BY <1>0, <1>11, <2>2, <4>1 DEF CancelSettles, MarkNeedsRecovery, TypeOK
      <4>2. CASE ~WorkerAlive(j)
        <5>1. FinalizeFrom(rec[j], j, "cancelled", usage)
          BY <1>11, <2>2, <4>2 DEF CancelSettles, Finalize
        <5>2. rec' = [rec EXCEPT ![j] = Closed(rec[j], "cancelled", usage)] /\ ledger' = Settled(j, usage)
          BY <2>2, <5>1 DEF FinalizeFrom, Outcome, Status
        <5> QED
          BY <5>2
      <4> QED
        BY <4>1, <4>2
    <3>3. status \in TerminalStatuses
      BY <3>2 DEF TerminalStatuses
    <3>4. /\ Books' /\ rec'[j].status = status
          /\ \A k \in Jobs \ {j} : rec'[k] = rec[k]
          /\ rec'[j].settled \/ rec'[j].usage = 0
      BY <1>0, <2>2, <3>1, <3>2, <3>3, SettledBooks
    <3>5. JobBooked(j)'
      BY <1>0, <2>2, <3>1, <3>3, <3>4, ClosedBooked DEF Status
    <3> QED
      BY <1>0, <3>1, <3>4, <3>5, KeptBooked
  <2> QED
    BY <2>1, <2>2
<1>12. CASE Crashes
  <2>1. CASE Crash
    BY <1>4, <2>1 DEF Crash, Dies
  <2>2. ASSUME torn' = TRUE, Dies,
               \A k \in Jobs : rec'[k] = rec[k] \/ JobBooked(k)'
        PROVE  Goal
    <3>1. Books'
      BY <2>2 DEF Books
    <3>2. \A k \in Jobs : JobBooked(k)'
      BY <1>0, <2>2 DEF JobBooked, Dies, Status
    <3> QED
      BY <3>1, <3>2
  <2>3. ASSUME NEW j \in Jobs, NEW r \in Requests, CrashAfterReserve(j, r) PROVE Goal
    BY <2>2, <2>3 DEF CrashAfterReserve
  <2>4. ASSUME NEW j \in Jobs, NEW r \in Requests, CrashBeforeRefusal(j, r) PROVE Goal
    <3>1. /\ \A k \in Jobs \ {j} : rec'[k] = rec[k]
          /\ rec'[j] = NewRecord(r, "queued") /\ torn' = TRUE /\ Dies
      BY <1>0, <2>4 DEF CrashBeforeRefusal, TypeOK
    <3>2. /\ rec'[j].status = "queued" /\ ~rec'[j].settled /\ rec'[j].usage = 0
      BY <3>1, BlankRecord DEF NewRecord, Blank, Records
    <3>3. JobBooked(j)'
      BY <3>1, <3>2 DEF JobBooked, Status, Dies
    <3> QED
      BY <2>2, <3>1, <3>3
  <2>5. ASSUME NEW j \in Jobs, CrashInCancelQueued(j) PROVE Goal
    <3>1. /\ \A k \in Jobs \ {j} : rec'[k] = rec[k]
          /\ rec'[j].status = rec[j].status /\ rec'[j].req = rec[j].req /\ Status(j) = "queued"
          /\ rec'[j].settled = rec[j].settled /\ rec'[j].usage = rec[j].usage
          /\ Dies /\ UNCHANGED <<raced, refused>>
          /\ torn' = TRUE \/ (torn' = torn /\ ledger' = ledger)
      <4>1. rec[j] \in Records /\ rec' = [rec EXCEPT ![j].cancelRequested = TRUE]
        BY <1>0, <2>5 DEF CrashInCancelQueued, TypeOK
      <4>2. /\ \A k \in Jobs \ {j} : rec'[k] = rec[k]
            /\ rec'[j].status = rec[j].status /\ rec'[j].req = rec[j].req
            /\ rec'[j].settled = rec[j].settled /\ rec'[j].usage = rec[j].usage
        BY <1>0, <4>1 DEF TypeOK, Records
      <4>3. /\ Status(j) = "queued" /\ Dies /\ UNCHANGED <<raced, refused>>
            /\ torn' = TRUE \/ (torn' = torn /\ ledger' = ledger)
        BY <2>5 DEF CrashInCancelQueued, Dies
      <4> QED
        BY <4>2, <4>3
    <3>2. torn => torn'
      BY <3>1
    <3>3. \A k \in Jobs : JobBooked(k)'
      BY <1>0, <3>1, <3>2 DEF JobBooked, Status, Dies
    <3>4. CASE torn' = TRUE
      BY <3>3, <3>4 DEF Books
    <3>5. CASE torn' = torn /\ ledger' = ledger
      <4>1. \A k \in Jobs : /\ rec'[k].req = rec[k].req /\ rec'[k].settled = rec[k].settled
                            /\ rec'[k].usage = rec[k].usage
                            /\ rec'[k].status = "absent" <=> rec[k].status = "absent"
        BY <3>1
      <4>2. Books'
        BY <1>0, <3>1, <3>5, <4>1, SameBooks
      <4> QED
        BY <3>3, <4>2
    <3> QED
      BY <3>1, <3>4, <3>5
  <2>6. ASSUME NEW j \in Jobs, NEW usage \in 0..MaxUsage, CrashInSettlement(j, usage) PROVE Goal
    BY <2>2, <2>6 DEF CrashInSettlement
  <2> QED
    BY <1>12, <2>1, <2>3, <2>4, <2>5, <2>6 DEF Crashes
<1>13. CASE Restart
  <2>1. UNCHANGED <<ledger, refused, raced, torn, worker, seen>> /\ \A j \in Jobs : worker[j] = "none"
    BY <1>0, <1>13 DEF Restart, IInv, DownSound
  <2>2. ASSUME NEW j \in Jobs
        PROVE  /\ rec'[j].req = rec[j].req /\ rec'[j].settled = rec[j].settled
               /\ rec'[j].usage = rec[j].usage
               /\ rec'[j].status # rec[j].status =>
                      /\ rec[j].status \in {"running", "stopping"}
                      /\ rec'[j].status \in {"needs_recovery", "interrupted"}
    <3>1. rec[j] \in Records
      BY <1>0 DEF TypeOK
    <3>2. \/ rec'[j] = [rec[j] EXCEPT !.status = "needs_recovery"] /\ Status(j) \in {"running", "stopping"}
          \/ rec'[j] = [rec[j] EXCEPT !.status = "interrupted"] /\ Status(j) = "running"
          \/ rec'[j] = [rec[j] EXCEPT !.deferred = TRUE] /\ Status(j) = "queued"
          \/ rec'[j] = rec[j]
      BY <1>13 DEF Restart
    <3> QED
      BY <3>1, <3>2 DEF Records, Status
  <2>3. \A k \in Jobs : rec'[k].status = "absent" <=> rec[k].status = "absent"
    BY <2>2
  <2>4. Books'
    BY <1>0, <2>1, <2>2, <2>3, SameBooks
  <2>5. \A k \in Jobs : JobBooked(k)'
    BY <1>0, <2>1, <2>2 DEF JobBooked, Status
  <2> QED
    BY <2>4, <2>5
<1>14. CASE Quiet \/ UNCHANGED vars
  BY <1>4, <1>14 DEF Quiet, vars
<1>15. CASE Dispatch
  <2>1. \A j \in Jobs : worker'[j] = "read" => worker[j] = "read" /\ seen'[j] = seen[j]
    BY <1>0, <1>15 DEF Dispatch, TypeOK
  <2> QED
    BY <1>4, <1>15, <2>1 DEF Dispatch
<1>16. ASSUME NEW j \in Jobs,
              \/ EnterRunner(j) \/ RunnerReturns(j) \/ WriteResult(j)
              \/ LeaveWorker(j) \/ SignalCancel(j)
       PROVE  Goal
  <2>1. \A k \in Jobs : worker'[k] = "read" => worker[k] = "read" /\ seen'[k] = seen[k]
    BY <1>0, <1>16 DEF EnterRunner, RunnerReturns, WriteResult, LeaveWorker, SignalCancel, GoTo, TypeOK
  <2> QED
    BY <1>4, <1>16, <2>1 DEF EnterRunner, RunnerReturns, WriteResult, LeaveWorker, SignalCancel
<1> QED
  BY <1>1, <1>2, <1>3, <1>5, <1>6, <1>7, <1>8, <1>9, <1>10, <1>11, <1>12, <1>13, <1>14, <1>15, <1>16
     DEF Next, Client, RunnerStep, WorkerStep, CancellerStep

(* The shared budget is conserved: what the ledger reserves is what the    *)
(* unsettled jobs asked for, what it settled is what the settled jobs      *)
(* used, over any number of jobs, cancellations, crashes and restarts, as  *)
(* long as no worker resurrected a job and the service did not die between *)
(* two writes that belong together.                                        *)
THEOREM BudgetIsConserved == Spec => []LedgerConserved
<1>1. Init => BookInv
  <2> SUFFICES ASSUME Init PROVE BookInv
    OBVIOUS
  <2>1. IInv
    BY InitIInv
  <2>2. /\ \A j \in Jobs : rec[j] = Blank /\ worker[j] = "none"
        /\ refused = {} /\ ledger.reserved = 0 /\ ledger.settled = 0
    BY DEF Init
  <2>3. ~Blank.settled /\ Blank.usage = 0 /\ Blank.status = "absent"
    BY DEF Blank
  <2>4. \A j \in Jobs : JobBooked(j)
    BY <2>2, <2>3 DEF JobBooked
  <2>5. Holders = {}
    BY <2>2, <2>3 DEF Holders, Status
  <2>6. \A j \in Jobs : Usages[j] = 0
    BY <2>2, <2>3 DEF Usages
  <2>7. Total(Amounts, {}) = 0
    <3>1. AmountsOK /\ {} \in SUBSET Jobs
      BY <2>1, AmountsType DEF IInv
    <3> QED
      BY <3>1, TotalStep DEF AmountsOK
  <2>8. Total(Usages, Jobs) = 0
    BY <2>6, TotalZero
  <2> QED
    BY <2>1, <2>2, <2>4, <2>5, <2>7, <2>8 DEF BookInv, Books, Balanced
<1>2. BookInv /\ [Next]_vars => BookInv'
  <2> SUFFICES ASSUME BookInv, [Next]_vars PROVE BookInv'
    OBVIOUS
  <2>1. IInv'
    BY IInvPreserved DEF BookInv
  <2> QED
    BY <2>1, BooksKept DEF BookInv
<1> QED
  BY <1>1, <1>2, BooksAreConserved, PTL DEF Spec
=============================================================================
