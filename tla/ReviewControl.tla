--------------------------- MODULE ReviewControl ---------------------------
(***************************************************************************)
(* One review under the review manager (modou/server/control.py) with its  *)
(* state store and event journal (modou/agent/review.py, events.py).       *)
(*                                                                         *)
(* Three threads share the review without a lock: the worker that runs the *)
(* approved plan, the event loop that serves cancel, cleanup and decide    *)
(* (the "operator"), and whoever approves the plan: the event loop again,  *)
(* or the pool thread of a task round.  A state change is a call of        *)
(* _transition_store: the intent is appended to the journal, the store     *)
(* checks the current status against its table, assigns the snapshot,      *)
(* writes the file, and the change is appended (before the check when the  *)
(* new status is terminal).  Each of these is a step.                      *)
(*                                                                         *)
(* On disk: stored (review_state.json), unmatched (intents in the journal  *)
(* no state_changed event answers), receipt (the action receipt of the     *)
(* current tool call), lease (the execution lease).  In memory: snap,      *)
(* cancelEvent, live (_live_id), answer (the human decision), and for each *)
(* thread its place in the code and its transition in progress.  History:  *)
(* accepted (a cancellation returned), cut (a crash of an unfinished       *)
(* review hit a tool call or a half-published transition).                 *)
(***************************************************************************)
EXTENDS Integers

CONSTANTS
    Approver,   \* the thread that approves: "operator" or "round"
    MaxProbes,  \* anchors of the frozen plan
    MaxCalls,   \* bound: calls of cancel, cleanup and decide
    MaxCrashes  \* bound: how often the server dies

ASSUME ApproverAssumption == Approver \in {"operator", "round"}
ASSUME BoundsAssumption == MaxProbes \in Nat /\ MaxCalls \in Nat /\ MaxCrashes \in Nat

VARIABLES
    stored, unmatched, receipt, lease,
    up, snap, cancelEvent, live, answer, at, call, cancelled, probes,
    calls, crashes, accepted, cut

disk == <<stored, unmatched, receipt, lease>>
run == <<cancelled, probes, answer>>
history == <<accepted, cut>>
vars == <<disk, up, snap, cancelEvent, live, at, call, run, calls, crashes, history>>

Threads == {"worker", "operator", "round"}
Terminal == {"COMPLETE", "FAILED", "ABORTED"}
Running == {"PLAN_FROZEN", "BASELINE_RUNNING", "EXECUTING", "VERIFYING_RESTORE",
            "SYNTHESIZING", "CANCELLING", "AWAITING_HUMAN"}
Statuses == Running \cup Terminal \cup
            {"AWAITING_APPROVAL", "RECOVERING", "CLEANUP_REQUIRED", "QUARANTINED"}
Reasons == {"none", "user", "error", "restart", "cleanup"}

(* The table _NEXT for the statuses of this module, with the escape        *)
(* hatches every status that is not terminal has.                          *)
Forward ==
    [s \in Statuses |->
        CASE s = "AWAITING_APPROVAL" -> {"PLAN_FROZEN"}
          [] s = "PLAN_FROZEN" -> {"BASELINE_RUNNING"}
          [] s = "BASELINE_RUNNING" -> {"EXECUTING"}
          [] s = "EXECUTING" -> {"VERIFYING_RESTORE", "AWAITING_HUMAN", "SYNTHESIZING"}
          [] s \in {"AWAITING_HUMAN", "VERIFYING_RESTORE"} -> {"EXECUTING", "SYNTHESIZING"}
          [] s = "SYNTHESIZING" -> {"COMPLETE"}
          [] s = "CANCELLING" -> {"SYNTHESIZING", "CLEANUP_REQUIRED"}
          [] s = "RECOVERING" -> {"PLAN_FROZEN"}
          [] s = "QUARANTINED" -> {"CLEANUP_REQUIRED"}
          [] OTHER -> {}]
Escapes(s) == {"ABORTED", "FAILED", "RECOVERING", "QUARANTINED", "CANCELLING"} \ {s}

(* Error: a finished review may still be taken for one that runs.          *)
LegalAlways(s, to) == to \in Forward[s] \cup Escapes(s)

Legal(s, to) == s \notin Terminal /\ to \in Forward[s] \cup Escapes(s)

Snapshots == [status : Statuses, reason : Reasons]
NoCall == [step |-> "none"]
Calls == [step : {"announce", "check", "assign", "store", "publish"},
          to : Statuses, reason : Reasons, forced : BOOLEAN]

Tools == {"baseline", "probe", "finish"}
WorkerPlaces == Tools \cup {"none", "begin", "aborting", "polled_baseline", "loop", "polled_probe",
                            "next", "waiting", "closing", "synthesize", "final", "failing", "ended"}
ClientPlaces == {"idle", "approving", "launch", "early", "signalled", "accepted", "answering",
                 "sweep", "abort", "swept", "recovering"}

Init ==
    /\ snap = [status |-> "AWAITING_APPROVAL", reason |-> "none"] /\ stored = snap
    /\ unmatched = 0 /\ receipt = "none" /\ lease = FALSE
    /\ up = TRUE /\ live = TRUE /\ cancelEvent = FALSE /\ answer = "none"
    /\ at = [t \in Threads |-> IF t = "worker" THEN "none" ELSE "idle"]
    /\ call = [t \in Threads |-> NoCall]
    /\ cancelled = FALSE /\ probes = MaxProbes
    /\ calls = 0 /\ crashes = 0 /\ accepted = "no" /\ cut = FALSE

-----------------------------------------------------------------------------
(* _transition_store, step by step, on the thread t.                       *)

At(t, place) == up /\ at[t] = place /\ call[t] = NoCall
GoTo(t, place) == at' = [at EXCEPT ![t] = place]

(* The intent is journaled; then is where t goes on once the status has    *)
(* changed.  A forced transition is one with allow_recovery_terminal.      *)
Begin(t, to, reason, forced, then) ==
    /\ call' = [call EXCEPT ![t] =
           [step |-> IF to \in Terminal THEN "announce" ELSE "check",
            to |-> to, reason |-> reason, forced |-> forced]]
    /\ unmatched' = unmatched + 1
    /\ GoTo(t, then)

Transition(t, to, reason, then) == Begin(t, to, reason, FALSE, then)

Advance(t, step) == call' = [call EXCEPT ![t].step = step]

(* The state_changed event: before the status when it is terminal.         *)
Say(t) ==
    /\ up /\ call[t].step \in {"announce", "publish"}
    /\ unmatched' = unmatched - 1
    /\ IF call[t].step = "announce" THEN Advance(t, "check")
                                    ELSE call' = [call EXCEPT ![t] = NoCall]
    /\ UNCHANGED <<stored, receipt, lease, up, snap, cancelEvent, live, at, run, calls,
                   crashes, history>>

Permitted(c) ==
    \/ Legal(snap.status, c.to)
    \/ c.forced /\ (c.to = "QUARANTINED" \/ (snap.status \notin Terminal /\ c.to \in Terminal))

Check(t) ==
    /\ up /\ call[t].step = "check" /\ Permitted(call[t])
    /\ Advance(t, "assign")
    /\ UNCHANGED <<disk, up, snap, cancelEvent, live, at, run, calls, crashes, history>>

(* ReviewStateError: the worker fails its run and ignores an error while   *)
(* failing; approve gives its lease back; the other calls end.             *)
Reject(t) ==
    /\ up /\ call[t].step = "check" /\ ~Permitted(call[t])
    /\ call' = [call EXCEPT ![t] = NoCall]
    /\ GoTo(t, IF t # "worker" THEN "idle" ELSE IF call[t].forced THEN "ended" ELSE "failing")
    /\ lease' = IF at[t] = "launch" THEN FALSE ELSE lease
    /\ UNCHANGED <<stored, unmatched, receipt, up, snap, cancelEvent, live, run, calls,
                   crashes, history>>

Assign(t) ==
    /\ up /\ call[t].step = "assign" /\ Advance(t, "store")
    /\ snap' = [status |-> call[t].to, reason |-> call[t].reason]
    /\ UNCHANGED <<disk, up, cancelEvent, live, at, run, calls, crashes, history>>

(* The file is written from the snapshot as it is then, or was before      *)
(* another thread assigned it.                                             *)
Write(t) ==
    /\ up /\ call[t].step = "store"
    /\ stored' \in {snap, [status |-> call[t].to, reason |-> call[t].reason]}

(* Error: a terminal change is published after the file, like any other.   *)
StoreThenSay(t) ==
    /\ Write(t) /\ Advance(t, "publish")
    /\ UNCHANGED <<unmatched, receipt, lease, up, snap, cancelEvent, live, at, run, calls,
                   crashes, history>>

Store(t) ==
    /\ Write(t)
    /\ IF call[t].to \in Terminal THEN call' = [call EXCEPT ![t] = NoCall]
                                  ELSE Advance(t, "publish")
    /\ UNCHANGED <<unmatched, receipt, lease, up, snap, cancelEvent, live, at, run, calls,
                   crashes, history>>

TransitionStep(t) == Say(t) \/ Check(t) \/ Reject(t) \/ Assign(t) \/ Store(t)

-----------------------------------------------------------------------------
(* approve().                                                              *)

(* After a restart there is no frozen plan in memory to approve.           *)
Approve ==
    /\ At(Approver, "idle") /\ crashes = 0 /\ snap.status = "AWAITING_APPROVAL"
    /\ GoTo(Approver, "approving")
    /\ UNCHANGED <<disk, up, snap, cancelEvent, live, call, run, calls, crashes, history>>

(* The repository changed since the plan, or its lease is taken: no run.    *)
AcquireLease ==
    /\ At(Approver, "approving")
    /\ \/ GoTo(Approver, "idle") /\ UNCHANGED <<call, unmatched, lease>>
       \/ lease' = TRUE /\ Transition(Approver, "PLAN_FROZEN", "none", "launch")
    /\ UNCHANGED <<stored, receipt, up, snap, cancelEvent, live, run, calls, crashes, history>>

Launch ==
    /\ At(Approver, "launch")
    /\ at' = [at EXCEPT ![Approver] = "idle", !["worker"] = "begin"]
    /\ UNCHANGED <<disk, up, snap, cancelEvent, live, call, run, calls, crashes, history>>

-----------------------------------------------------------------------------
(* The worker: _execute and _execute_bound.                                *)

Worker(place) == At("worker", place)

(* _cancel_requested without a cancellation, and with one: the worker      *)
(* turns to CANCELLING itself unless the operator already did.             *)
NotCancelled == ~cancelEvent
ObserveCancel(then) ==
    /\ cancelEvent
    /\ IF snap.status \in Terminal \cup {"CANCELLING"}
       THEN GoTo("worker", then) /\ UNCHANGED <<call, unmatched>>
       ELSE Transition("worker", "CANCELLING", "user", then)

BeginRun ==
    /\ Worker("begin")
    /\ IF ~cancelEvent THEN Transition("worker", "BASELINE_RUNNING", "none", "baseline")
       ELSE IF snap.status # "CANCELLING" THEN Transition("worker", "CANCELLING", "user", "aborting")
       ELSE GoTo("worker", "aborting") /\ UNCHANGED <<call, unmatched>>
    /\ UNCHANGED <<stored, receipt, lease, up, snap, cancelEvent, live, run, calls,
                   crashes, history>>

(* _prepare_terminal: the lease and the live slot are given back before a  *)
(* terminal status is published.                                           *)
PrepareTerminal == lease' = FALSE /\ live' = FALSE

AbortBeforeRun ==
    /\ Worker("aborting") /\ PrepareTerminal
    /\ Transition("worker", "ABORTED", "user", "ended")
    /\ UNCHANGED <<stored, receipt, up, snap, cancelEvent, run, calls, crashes, history>>

(* _call_tool: the receipt says STARTED while the tool runs.               *)
StartTool ==
    /\ up /\ at["worker"] \in Tools /\ call["worker"] = NoCall /\ receipt # "started"
    /\ receipt' = "started"
    /\ UNCHANGED <<stored, unmatched, lease, up, snap, cancelEvent, live, at, call, run,
                   calls, crashes, history>>

EndTool ==
    /\ up /\ at["worker"] \in Tools /\ call["worker"] = NoCall /\ receipt = "started"
    /\ \/ receipt' = "failed" /\ GoTo("worker", "failing") /\ UNCHANGED probes
       \/ /\ receipt' = "completed"
          /\ GoTo("worker", CASE at["worker"] = "baseline" -> "polled_baseline"
                              [] at["worker"] = "probe" -> "polled_probe"
                              [] at["worker"] = "finish" -> "final")
          /\ probes' = IF at["worker"] = "probe" THEN probes - 1 ELSE probes
    /\ UNCHANGED <<stored, unmatched, lease, up, snap, cancelEvent, live, call, cancelled,
                   answer, calls, crashes, history>>

(* After the baseline and after each probe: go on executing, or close.     *)
Poll ==
    /\ Worker("polled_baseline") \/ Worker("polled_probe")
    /\ \/ /\ NotCancelled /\ UNCHANGED cancelled
          /\ Transition("worker", "EXECUTING", "none",
                        IF at["worker"] = "polled_probe" THEN "next" ELSE "loop")
       \/ ObserveCancel("closing") /\ cancelled' = TRUE
    /\ UNCHANGED <<stored, receipt, lease, up, snap, cancelEvent, live, probes, answer,
                   calls, crashes, history>>

(* The top of the loop: out of anchors, out of budget, cancelled, or the   *)
(* next probe.                                                             *)
Loop ==
    /\ Worker("loop")
    /\ \/ /\ NotCancelled \/ probes = 0
          /\ GoTo("worker", "closing") /\ UNCHANGED <<call, unmatched, cancelled>>
       \/ probes > 0 /\ ObserveCancel("closing") /\ cancelled' = TRUE
       \/ /\ probes > 0 /\ NotCancelled /\ UNCHANGED cancelled
          /\ Transition("worker", "VERIFYING_RESTORE", "none", "probe")
    /\ UNCHANGED <<stored, receipt, lease, up, snap, cancelEvent, live, probes, answer,
                   calls, crashes, history>>

(* The next action: go on, stop, or ask a human.                           *)
NextAction ==
    /\ Worker("next")
    /\ \/ GoTo("worker", "closing") /\ UNCHANGED <<call, unmatched, answer>>
       \/ probes > 0 /\ GoTo("worker", "loop") /\ UNCHANGED <<call, unmatched, answer>>
       \/ probes > 0 /\ answer' = "none" /\ Transition("worker", "AWAITING_HUMAN", "none", "waiting")
    /\ UNCHANGED <<stored, receipt, lease, up, snap, cancelEvent, live, cancelled, probes,
                   calls, crashes, history>>

(* _await_human: an answer, a cancellation or the deadline ends the wait.  *)
AwaitHuman ==
    /\ Worker("waiting")
    /\ \/ answer = "continue" /\ Transition("worker", "EXECUTING", "none", "loop")
       \/ GoTo("worker", "closing") /\ UNCHANGED <<call, unmatched>>
    /\ UNCHANGED <<stored, receipt, lease, up, snap, cancelEvent, live, run, calls,
                   crashes, history>>

(* Error: the run is closed without looking for a cancellation.            *)
CloseBlind ==
    /\ Worker("closing") /\ GoTo("worker", "synthesize")
    /\ UNCHANGED <<disk, up, snap, cancelEvent, live, call, run, calls, crashes, history>>

(* The last look at the cancel event.                                      *)
Close ==
    /\ Worker("closing")
    /\ \/ NotCancelled /\ GoTo("worker", "synthesize") /\ UNCHANGED <<call, unmatched, cancelled>>
       \/ ObserveCancel("synthesize") /\ cancelled' = TRUE
    /\ UNCHANGED <<stored, receipt, lease, up, snap, cancelEvent, live, probes, answer,
                   calls, crashes, history>>

Synthesize ==
    /\ Worker("synthesize")
    /\ Transition("worker", "SYNTHESIZING", "none", "finish")
    /\ UNCHANGED <<stored, receipt, lease, up, snap, cancelEvent, live, run, calls,
                   crashes, history>>

(* Error: the lease and the live slot are left to the finally block.       *)
FinishHolding ==
    /\ Worker("final")
    /\ IF cancelled THEN Transition("worker", "ABORTED", "user", "failing")
                    ELSE Transition("worker", "COMPLETE", "none", "failing")
    /\ UNCHANGED <<stored, receipt, lease, up, snap, cancelEvent, live, run, calls,
                   crashes, history>>

Finish ==
    /\ Worker("final") /\ PrepareTerminal
    /\ IF cancelled THEN Transition("worker", "ABORTED", "user", "ended")
                    ELSE Transition("worker", "COMPLETE", "none", "ended")
    /\ UNCHANGED <<stored, receipt, up, snap, cancelEvent, run, calls, crashes, history>>

(* Error: a failed run keeps its lease and the live slot.                  *)
FailHolding ==
    /\ Worker("failing")
    /\ IF snap.status \in Terminal
       THEN GoTo("worker", "ended") /\ UNCHANGED <<call, unmatched>>
       ELSE Begin("worker", "FAILED", "error", TRUE, "ended")
    /\ UNCHANGED <<stored, receipt, lease, up, snap, cancelEvent, live, run, calls,
                   crashes, history>>

(* The finally block of _execute and _fail.                                *)
Fail ==
    /\ Worker("failing") /\ PrepareTerminal
    /\ IF snap.status \in Terminal
       THEN GoTo("worker", "ended") /\ UNCHANGED <<call, unmatched>>
       ELSE Begin("worker", "FAILED", "error", TRUE, "ended")
    /\ UNCHANGED <<stored, receipt, up, snap, cancelEvent, run, calls, crashes, history>>

-----------------------------------------------------------------------------
(* The operator: cancel, decide, cleanup.                                  *)

ThreadAlive == at["worker"] \notin {"none", "ended"} \/ call["worker"] # NoCall

Request ==
    /\ At("operator", "idle") /\ calls < MaxCalls /\ calls' = calls + 1
    /\ UNCHANGED <<disk, up, snap, live, call, run, crashes, history>>

(* cancel() reads the status and, for a running review, sets the event.    *)
Cancel ==
    /\ Request
    /\ \/ snap.status = "AWAITING_APPROVAL" /\ GoTo("operator", "early") /\ UNCHANGED cancelEvent
       \/ snap.status \in Running /\ GoTo("operator", "signalled") /\ cancelEvent' = TRUE

CancelEarly ==
    /\ At("operator", "early")
    /\ Transition("operator", "ABORTED", "user", "swept")
    /\ UNCHANGED <<stored, receipt, lease, up, snap, cancelEvent, live, run, calls,
                   crashes, history>>

CancelSignalled ==
    /\ At("operator", "signalled")
    /\ IF snap.status = "CANCELLING"
       THEN GoTo("operator", "accepted") /\ UNCHANGED <<call, unmatched>>
       ELSE Transition("operator", "CANCELLING", "user", "accepted")
    /\ UNCHANGED <<stored, receipt, lease, up, snap, cancelEvent, live, run, calls,
                   crashes, history>>

(* The worker has still to look for a cancellation.                        *)
WillLook == at["worker"] \in WorkerPlaces \ {"none", "synthesize", "finish", "final", "failing", "ended"}

CancelReturns ==
    /\ At("operator", "accepted") /\ GoTo("operator", "idle")
    /\ accepted' = IF WillLook \/ accepted = "early" THEN "early" ELSE "late"
    /\ UNCHANGED <<disk, up, snap, cancelEvent, live, call, run, calls, crashes, cut>>

(* decide(): the pending decision is checked, recorded, then handed over.  *)
Decide ==
    /\ Request
    /\ snap.status = "AWAITING_HUMAN" /\ GoTo("operator", "answering") /\ UNCHANGED cancelEvent

Answer ==
    /\ At("operator", "answering") /\ GoTo("operator", "idle")
    /\ answer' \in {"continue", "stop"}
    /\ UNCHANGED <<disk, up, snap, cancelEvent, live, call, cancelled, probes, calls,
                   crashes, history>>

(* cleanup(), and cancel() of a quarantined review: deferred to the worker *)
(* while it is alive.                                                      *)
Cleanup ==
    /\ Request
    /\ IF ThreadAlive THEN GoTo("operator", "signalled") /\ cancelEvent' = TRUE
                      ELSE GoTo("operator", "sweep") /\ UNCHANGED cancelEvent

(* Temporary files, worktrees and the lease go; a file or a lease that     *)
(* cannot be removed quarantines the review.                               *)
Sweep ==
    /\ At("operator", "sweep")
    /\ \/ /\ UNCHANGED <<lease, live>>
          /\ IF snap.status = "QUARANTINED"
             THEN GoTo("operator", "idle") /\ UNCHANGED <<call, unmatched>>
             ELSE Transition("operator", "QUARANTINED", "cleanup", "idle")
       \/ /\ lease' = FALSE /\ UNCHANGED live
          /\ CASE snap.status \in Terminal ->
                      GoTo("operator", "swept") /\ UNCHANGED <<call, unmatched>>
               [] snap.status = "CLEANUP_REQUIRED" ->
                      GoTo("operator", "abort") /\ UNCHANGED <<call, unmatched>>
               [] snap.status = "QUARANTINED" ->
                      Transition("operator", "CLEANUP_REQUIRED", "cleanup", "abort")
               [] OTHER -> Transition("operator", "RECOVERING", "cleanup", "abort")
    /\ UNCHANGED <<stored, receipt, up, snap, cancelEvent, run, calls, crashes, history>>

Abort ==
    /\ At("operator", "abort")
    /\ Transition("operator", "ABORTED", "cleanup", "swept")
    /\ UNCHANGED <<stored, receipt, lease, up, snap, cancelEvent, live, run, calls,
                   crashes, history>>

Swept ==
    /\ At("operator", "swept") /\ GoTo("operator", "idle")
    /\ live' = FALSE
    /\ UNCHANGED <<disk, up, snap, cancelEvent, call, run, calls, crashes, history>>

-----------------------------------------------------------------------------
(* The server dies, and starts again with _recover_interrupted.            *)

Crash ==
    /\ up /\ crashes < MaxCrashes /\ crashes' = crashes + 1
    /\ up' = FALSE /\ snap' = stored
    /\ cancelEvent' = FALSE /\ live' = FALSE /\ answer' = "none" /\ cancelled' = FALSE
    /\ at' = [t \in Threads |-> IF t = "worker" THEN "none" ELSE "idle"]
    /\ call' = [t \in Threads |-> NoCall]
    /\ accepted' = "no"
    /\ cut' = (cut \/ (stored.status \notin Terminal /\ (receipt = "started" \/ unmatched > 0)))
    /\ UNCHANGED <<disk, probes, calls>>

(* Error: the receipts of interrupted actions are not read.                *)
SuspectByJournal(uncertain, debris) == unmatched > 0 \/ uncertain \/ debris

Suspect(uncertain, debris) == unmatched > 0 \/ receipt = "started" \/ uncertain \/ debris

(* Error: a recovery that was itself interrupted is started over.          *)
RecoverOver ==
    /\ At("operator", "recovering")
    /\ Transition("operator", "RECOVERING", "restart", "abort")
    /\ UNCHANGED <<stored, receipt, lease, up, snap, cancelEvent, live, run, calls,
                   crashes, history>>

(* A suspect review is quarantined, whatever its status: an unmatched      *)
(* intent, an action whose outcome is unknown, a lease or a process whose  *)
(* owner is uncertain, temporary files and worktrees left behind.          *)
Restart ==
    /\ ~up /\ up' = TRUE
    /\ \E uncertain \in {FALSE, lease}, debris \in BOOLEAN :
          /\ lease' = uncertain
          /\ IF Suspect(uncertain, debris)
             THEN IF snap.status = "QUARANTINED" THEN UNCHANGED <<at, call, unmatched>>
                  ELSE Begin("operator", "QUARANTINED", "restart", TRUE, "idle")
             ELSE IF snap.status \in Terminal THEN UNCHANGED <<at, call, unmatched>>
                  ELSE GoTo("operator", "recovering") /\ UNCHANGED <<call, unmatched>>
    /\ UNCHANGED <<stored, receipt, snap, cancelEvent, live, run, calls, crashes, history>>

(* Otherwise it goes through RECOVERING to ABORTED.                        *)
Recover ==
    /\ At("operator", "recovering")
    /\ IF snap.status = "RECOVERING"
       THEN Transition("operator", "ABORTED", "restart", "idle")
       ELSE Transition("operator", "RECOVERING", "restart", "recovering")
    /\ UNCHANGED <<stored, receipt, lease, up, snap, cancelEvent, live, run, calls,
                   crashes, history>>

(* Every thread is at rest.                                                *)
Quiet ==
    /\ up /\ ~ThreadAlive /\ \A t \in Threads : call[t] = NoCall
    /\ at["operator"] = "idle" /\ at["round"] = "idle"
    /\ UNCHANGED vars

Operator == Cancel \/ Decide \/ Cleanup
OperatorStep == CancelEarly \/ CancelSignalled \/ CancelReturns \/ Answer
                \/ Sweep \/ Abort \/ Swept \/ Recover
ApproverStep == AcquireLease \/ Launch
WorkerStep ==
    BeginRun \/ AbortBeforeRun \/ StartTool \/ EndTool \/ Poll \/ Loop \/ NextAction
    \/ AwaitHuman \/ Close \/ Synthesize \/ Finish \/ Fail

Next ==
    \/ Approve \/ Operator \/ OperatorStep \/ ApproverStep \/ WorkerStep
    \/ Crash \/ Restart \/ Quiet
    \/ \E t \in Threads : TransitionStep(t)

Spec == Init /\ [][Next]_vars

(* The scheduler runs every thread that can run; a tool returns or hits    *)
(* its deadline; the wait for a human has a deadline; a dead server is     *)
(* started again.  Nobody need approve, cancel, decide or clean up.        *)
Fairness ==
    /\ WF_vars(WorkerStep \/ TransitionStep("worker"))
    /\ WF_vars(OperatorStep \/ TransitionStep("operator"))
    /\ WF_vars(ApproverStep \/ TransitionStep("round"))
    /\ WF_vars(Restart)

FairSpec == Spec /\ Fairness

-----------------------------------------------------------------------------
(* Properties.                                                             *)

(* Every variable stays in the set its part of control.py gives it.        *)
TypeOK ==
    /\ snap \in Snapshots /\ stored \in Snapshots
    /\ unmatched \in Nat /\ receipt \in {"none", "started", "failed", "completed"}
    /\ {lease, up, live, cancelEvent, cancelled, cut} \subseteq BOOLEAN
    /\ at["worker"] \in WorkerPlaces
    /\ \A t \in Threads \ {"worker"} : at[t] \in ClientPlaces
    /\ call \in [Threads -> Calls \cup {NoCall}]
    /\ answer \in {"none", "continue", "stop"} /\ accepted \in {"no", "early", "late"}
    /\ probes \in 0..MaxProbes /\ calls \in 0..MaxCalls /\ crashes \in 0..MaxCrashes

(* A tool call touches the repository only while the review holds its      *)
(* lease and the live slot, whatever is cancelled, cleaned up or rejected  *)
(* meanwhile: create() then refuses another review (LIVE_RUN_BUSY).        *)
LiveAndLeased == at["worker"] \in Tools => lease /\ live

(* "Finish cleanup before a terminal state becomes publicly visible"       *)
(* (_prepare_terminal): whoever ended it, a finished review holds no lease *)
(* another review of the repository would have to wait for.                *)
FinishedHoldsNothing == snap.status \in Terminal => ~lease

LeaseAgrees == LiveAndLeased /\ FinishedHoldsNothing

(* resume() accepts a review aborted by a restart, and begins another one  *)
(* from its unchanged source.                                              *)
Resumable == stored.status = "ABORTED" /\ stored.reason = "restart"

(* A review that can be resumed was never cut in the middle of a tool call *)
(* or of a transition: those stay quarantined until an operator cleans up, *)
(* over any number of restarts.                                            *)
ResumeSound == Resumable => ~cut

(* A cancellation that returned before the worker's last look at the event *)
(* never ends in a complete review.                                        *)
CancelNotIgnored == accepted = "early" => snap.status # "COMPLETE"

(* Once a terminal status is visible the worker neither works nor writes   *)
(* to the journal: "a caller that observes terminal state can safely       *)
(* remove/export the review directory without racing a final event append  *)
(* from the worker" (_transition_store, control.py:895).                   *)
WorkerSilent ==
    [][snap.status \in Terminal /\ up' /\ call["worker"].step # "store"
           => UNCHANGED <<at["worker"], call["worker"]>>]_vars

(* Every approved run ends, and gives back the lease and the live slot,    *)
(* also when a transition is rejected, a tool fails or nobody answers.     *)
RunEnds == at["worker"] = "begin" ~> ~up \/ (at["worker"] = "ended" /\ ~lease /\ ~live)

(* After a crash, also one of the recovery itself, the review ends up      *)
(* terminal or quarantined.                                                *)
RecoveryResolves == ~up ~> up /\ stored.status \in Terminal \cup {"QUARANTINED"}

(* Both: nothing that happens to a run leaves it, or what it holds, open.  *)
ReviewSettles == RunEnds /\ RecoveryResolves

(* The review as whoever reads its record sees it (ReviewLife).  A verdict *)
(* is settled once memory and disk agree on it and no cancellation that    *)
(* passed its check before the run ended is still to be stored.            *)
Record == IF stored.status \in Terminal \cup {"QUARANTINED"} THEN stored.status ELSE "open"
Cancelling == call["operator"].step \in {"assign", "store"} /\ call["operator"].to = "CANCELLING"
Settled == stored.status \in Terminal /\ snap.status = stored.status /\ ~Cancelling
Phase ==
    IF crashes > 0 THEN "dead"
    ELSE IF at["worker"] = "none" /\ stored.status \in {"AWAITING_APPROVAL", "PLAN_FROZEN"} THEN "planned"
    ELSE IF ThreadAlive /\ stored.status \notin Terminal THEN "running"
    ELSE IF Settled THEN "settled" ELSE "unsettled"

Life == INSTANCE ReviewLife WITH
    Verdicts <- Terminal, record <- Record, phase <- Phase, asked <- cancelEvent, tool <- receipt

(* A review keeps what its record promises (ReviewLife): COMPLETE is seen  *)
(* only after the last tool call returned; a verdict on disk changes only  *)
(* by a cancellation asked for during the run, whose check ran unlocked    *)
(* before the verdict was assigned, or by a restart that doubts it; and a  *)
(* recovery gives no verdict but ABORTED (review.py:212-237,               *)
(* control.py:885-910, 1900-1910, 1129-1214).                              *)
KeepsLife == Life!Spec
=============================================================================
