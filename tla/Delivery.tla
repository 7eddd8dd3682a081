------------------------------ MODULE Delivery ------------------------------
(***************************************************************************)
(* Edit sessions and the delivery of a repair (modou/server/control.py,    *)
(* modou/server/edit_sessions.py, modou/agent/repair.py,                   *)
(* modou/agent/delivery_ceremony.py): a patch is verified in a private     *)
(* worktree, committed to a local branch, entered in the ledger of an edit *)
(* session, approved by a person and exported.                             *)
(*                                                                         *)
(* Requests are threads.  One that delivers or verifies holds the          *)
(* manager's lock only while it reads or writes a session, and works from  *)
(* the copy it read first; the approval and the export hold it throughout, *)
(* but a delivery writes its artifacts without it.  A lock section is one  *)
(* action, the approval and the export two.                                *)
(*                                                                         *)
(* One completed review with repair authorised.  A session's frozen        *)
(* snapshot is the reviewed source: it is opened on no other.  A process   *)
(* started later does not know the repository under the review's repo_id   *)
(* (a random token): it opens, abandons and verifies, and delivers nothing.*)
(***************************************************************************)
EXTENDS Naturals, FiniteSets

CONSTANTS
    Threads,      \* requests that deliver or verify a patch
    Patches,
    MaxSessions,  \* bound: edit sessions
    MaxWrites,    \* max_writes_per_review of the standing authorisation
    MaxEdits,     \* bound: edits of the user's checkout
    MaxRestarts   \* bound: restarts of the server

ASSUME DeliveryAssumption ==
    {MaxSessions, MaxWrites, MaxEdits, MaxRestarts} \subseteq Nat /\ Patches # {}

VARIABLES
    session,   \* session records, by number
    thread,    \* the requests
    gate,      \* an approval or export that holds the manager's lock
    source,    \* content of the checkout: 0 as reviewed, then the edits
    visible,   \* edits that git status shows
    lease,     \* the repository lease: its operation and the thread it was made for
    commit,    \* commits, by the thread that made them
    artifact,  \* evidence manifest, delivery record and patch: whose they are
    approval,  \* delivery_approval.json
    pinned,    \* the last approval of every session on the chain
    writes,    \* events of autonomous writes
    epoch,     \* restarts of the server
    exports,   \* history: exports
    overlap    \* history: two verifications passed the budget before an event

vars == <<session, thread, gate, source, visible, lease, commit, artifact, approval,
          pinned, writes, epoch, exports, overlap>>
checkout == <<source, visible>>
ceremony == <<approval, pinned, exports>>
budget == <<writes, overlap>>

Sessions == 1..MaxSessions
Active == {"open", "patch_candidate", "verified", "awaiting_delivery"}
Terminal == {"delivered", "abandoned", "stale"}
None == "none"

NoSession == [st |-> "absent", owner |-> 0, cands |-> {}, hops |-> {}]
Idle == [at |-> "idle", op |-> "repair", s |-> 0, p |-> None,
         rec |-> NoSession, by |-> None, src |-> 0, seen |-> 0, edited |-> FALSE]
Done == [Idle EXCEPT !.at = "done"]
(* FiveFingerprints: of the source, the patch, the manifest with its test  *)
(* results, and the commit.                                                *)
NoFingerprints == [source |-> 0, patch |-> None, manifest |-> None, commit |-> None]
NoGate == [at |-> "free", s |-> 0, five |-> NoFingerprints, raced |-> FALSE]
NoArtifact == [manifest |-> None, record |-> None, patch |-> None]
NoCommit == [src |-> 0, p |-> None, raced |-> FALSE]

Init ==
    /\ session = [s \in Sessions |-> NoSession] /\ thread = [t \in Threads |-> Idle]
    /\ gate = NoGate /\ source = 0 /\ visible = 0 /\ lease = [op |-> "free", by |-> None]
    /\ commit = [t \in Threads |-> NoCommit] /\ artifact = NoArtifact
    /\ approval = [s |-> 0, five |-> NoFingerprints]
    /\ pinned = [s \in Sessions |-> NoFingerprints]
    /\ writes = 0 /\ epoch = 0 /\ exports = {} /\ overlap = FALSE

-----------------------------------------------------------------------------
(* Sessions.                                                               *)

Unlocked == gate.at = "free"
Reviewed == source = 0

(* can_transition                                                          *)
CanTransition(src, dst) ==
    \/ src \in Active /\ dst \in {"abandoned", "stale"}
    \/ <<src, dst>> \in {<<"open", "patch_candidate">>, <<"patch_candidate", "verified">>,
                         <<"verified", "awaiting_delivery">>, <<"awaiting_delivery", "delivered">>}

(* _transition_edit_session: from the record it is given.                  *)
Transitioned(rec, dst) == [rec EXCEPT !.st = dst, !.hops = @ \cup {dst}]
WithCandidate(rec, p, outcome) == [rec EXCEPT !.cands = @ \cup {<<p, outcome>>}]
HasCandidate(rec, p, outcomes) == \E o \in outcomes : <<p, o>> \in rec.cands

HarvestOpenOnly(now) ==
    [s \in Sessions |-> IF session[s].st = "open" /\ session[s].owner # now
                        THEN Transitioned(session[s], "abandoned") ELSE session[s]]

(* _sweep_orphan_edit_sessions on the reviewed source, or when the         *)
(* repository is not known: an active session of another process.          *)
Harvested(now) ==
    [s \in Sessions |-> IF session[s].st \in Active /\ session[s].owner # now
                        THEN Transitioned(session[s], "abandoned") ELSE session[s]]

OpenSession(s) ==
    /\ Unlocked /\ Reviewed
    /\ session[s].st = "absent" /\ \A r \in 1..s - 1 : session[r].st # "absent"
    /\ session' = [Harvested(epoch) EXCEPT ![s] = [NoSession EXCEPT !.st = "open", !.owner = epoch]]
    /\ UNCHANGED <<thread, gate, checkout, lease, commit, artifact, ceremony, budget, epoch>>

AbandonSession(s) ==
    /\ Unlocked /\ CanTransition(session[s].st, "abandoned")
    /\ session' = [session EXCEPT ![s] = Transitioned(session[s], "abandoned")]
    /\ UNCHANGED <<thread, gate, checkout, lease, commit, artifact, ceremony, budget, epoch>>

-----------------------------------------------------------------------------
(* Requests.                                                               *)

At(t, place) == thread[t].at = place
Go(t, place) == thread' = [thread EXCEPT ![t].at = place]
GoWith(t, place, rec) == thread' = [thread EXCEPT ![t].at = place, ![t].rec = rec]
End(t) == thread' = [thread EXCEPT ![t] = Done]
Put(s, rec) == session' = [session EXCEPT ![s] = rec]
HasSession(t) == thread[t].s # 0
Known == epoch = 0
Takes == {"open", "patch_candidate"}

(* The session is read under the lock; the copy is kept.                   *)
DeliverRepair(t, s, p) ==
    /\ Unlocked /\ At(t, "idle") /\ Known
    /\ s # 0 => session[s].st \in Takes
    /\ thread' = [thread EXCEPT ![t] = [Idle EXCEPT !.at = "read", !.s = s, !.p = p,
                                            !.rec = IF s = 0 THEN NoSession ELSE session[s]]]
    /\ UNCHANGED <<session, gate, checkout, lease, commit, artifact, ceremony, budget, epoch>>

(* The snapshot is compared, for a session and again for the review; a     *)
(* patch that had its outcome in the session keeps it.                     *)
CheckSource(t) ==
    /\ Unlocked /\ At(t, "read")
    /\ LET r == thread[t]
       IN  IF ~Reviewed
           THEN /\ End(t)
                /\ IF HasSession(t) THEN Put(r.s, Transitioned(r.rec, "stale")) ELSE UNCHANGED session
           ELSE /\ IF HasCandidate(r.rec, r.p, {"delivered", "rejected"}) THEN End(t) ELSE Go(t, "checked")
                /\ UNCHANGED session
    /\ UNCHANGED <<gate, checkout, lease, commit, artifact, ceremony, budget, epoch>>

(* The candidate in the session: an open one, as it was read.              *)
Entered(r) ==
    LET base == IF r.rec.st = "open" THEN Transitioned(r.rec, "patch_candidate") ELSE session[r.s]
    IN  WithCandidate(base, r.p, "pending")

EnterCandidate(t) ==
    /\ Unlocked /\ At(t, "checked")
    /\ GoWith(t, "entered", NoSession)
    /\ IF HasSession(t) THEN Put(thread[t].s, Entered(thread[t])) ELSE UNCHANGED session
    /\ UNCHANGED <<gate, checkout, lease, commit, artifact, ceremony, budget, epoch>>

(* The lease is re-entrant for an operation of the review: the second      *)
(* holder shares the record.  A busy one ends the request.                 *)
AcquireLease(t) ==
    /\ At(t, "entered")
    /\ IF lease.op \in {"free", thread[t].op}
       THEN /\ lease' = IF lease.op = "free" THEN [op |-> thread[t].op, by |-> t] ELSE lease
            /\ thread' = [thread EXCEPT ![t].at = "leased", ![t].by = IF lease.op = "free" THEN t ELSE lease.by]
       ELSE End(t) /\ UNCHANGED lease
    /\ UNCHANGED <<session, gate, checkout, commit, artifact, ceremony, budget, epoch>>

(* validate_candidate_patch: a path outside the scope or forbidden, too    *)
(* many files or lines. A delivery asks it under the lease.                *)
Refuse(t, place) == Go(t, place)

(* The worktree: HEAD with the diff of the checkout, then the candidate,   *)
(* which must be in bounds, apply and parse.                               *)
Build(t) ==
    /\ At(t, "leased")
    /\ \/ thread' = [thread EXCEPT ![t].at = "built", ![t].src = source, ![t].seen = visible]
       \/ Refuse(t, IF thread[t].op = "repair" THEN "failed" ELSE "rejected")
    /\ UNCHANGED <<session, gate, checkout, lease, commit, artifact, ceremony, budget, epoch>>

Passed(op, rec) ==
    LET r == IF rec.st = "patch_candidate" THEN Transitioned(rec, "verified") ELSE rec
    IN  IF op = "repair" /\ r.st = "verified" THEN Transitioned(r, "awaiting_delivery") ELSE r

(* The declared tests.  A pass moves the session as it is on disk: a       *)
(* verification to verified, a delivery on to awaiting_delivery.           *)
Test(t) ==
    /\ At(t, "built")
    /\ \/ /\ Unlocked /\ Go(t, "tested")
          /\ IF HasSession(t) THEN Put(thread[t].s, Passed(thread[t].op, session[thread[t].s])) ELSE UNCHANGED session
       \/ Go(t, "failed") /\ UNCHANGED session
    /\ UNCHANGED <<gate, checkout, lease, commit, artifact, ceremony, budget, epoch>>

CommitOf(r) == [src |-> r.src, p |-> r.p, raced |-> r.edited]

(* git commit, between two comparisons of the checkout's status.           *)
Commit(t) ==
    /\ At(t, "tested") /\ thread[t].op = "repair"
    /\ IF visible # thread[t].seen THEN Go(t, "failed") /\ UNCHANGED commit
       ELSE /\ Go(t, "committed")
            /\ commit' = [commit EXCEPT ![t] = CommitOf(thread[t])]
    /\ UNCHANGED <<session, gate, checkout, lease, artifact, ceremony, budget, epoch>>

Recheck(t) ==
    /\ At(t, "committed")
    /\ Go(t, IF visible # thread[t].seen THEN "failed" ELSE "delivered")
    /\ UNCHANGED <<session, gate, checkout, lease, commit, artifact, ceremony, budget, epoch>>

(* A delivery's failure is entered in the session before the lease goes.   *)
RejectDelivery(t) ==
    /\ At(t, "failed") /\ thread[t].op = "repair" /\ Unlocked
    /\ Go(t, "rejected")
    /\ LET s == thread[t].s
       IN  IF HasSession(t) THEN Put(s, WithCandidate(session[s], thread[t].p, "rejected")) ELSE UNCHANGED session
    /\ UNCHANGED <<gate, checkout, lease, commit, artifact, ceremony, budget, epoch>>

(* Where a request goes from its worktree: a verification compares the     *)
(* checkout's status on leaving it, and then looks at the test results.    *)
AfterWorktree(r) ==
    CASE r.at = "delivered" -> "manifest"
      [] r.at = "tested" /\ visible = r.seen -> "verified"
      [] r.at = "failed" /\ visible = r.seen -> "refuted"
      [] OTHER -> "done"

(* RepositoryLeaseManager.release: a record gone is no error, one issued   *)
(* since then to another ends the request as LEASE_OWNERSHIP_MISMATCH.     *)
Release(t) ==
    /\ thread[t].at \in {"delivered", "rejected", "tested", "failed"}
    /\ thread[t].at = "tested" => thread[t].op = "verify"
    /\ thread[t].at = "failed" => thread[t].op = "verify"
    /\ LET mine == lease.by = thread[t].by
       IN  /\ Go(t, IF lease.op = "free" \/ mine THEN AfterWorktree(thread[t]) ELSE "done")
           /\ lease' = IF mine THEN [op |-> "free", by |-> None] ELSE lease
    /\ UNCHANGED <<session, gate, checkout, commit, artifact, ceremony, budget, epoch>>

(* evidence_manifest.json, delivery_record.json and patch.diff, one file   *)
(* of each for the review, without the manager's lock.                     *)
SaveArtifact(t, what, value, next) ==
    /\ At(t, what)
    /\ artifact' = [artifact EXCEPT ![what] = value]
    /\ Go(t, next)
    /\ gate' = [gate EXCEPT !.raced = ~Unlocked]
    /\ UNCHANGED <<session, checkout, lease, commit, ceremony, budget, epoch>>

SaveDelivery(t) ==
    \/ SaveArtifact(t, "manifest", thread[t].p, "record")
    \/ SaveArtifact(t, "record", t, "patch")
    \/ SaveArtifact(t, "patch", thread[t].p, IF HasSession(t) THEN "ledger" ELSE "done")

RecordDeliveredAnyway(t) ==
    /\ At(t, "ledger") /\ Unlocked
    /\ Put(thread[t].s, Transitioned(WithCandidate(session[thread[t].s], thread[t].p, "delivered"), "delivered"))
    /\ End(t)
    /\ UNCHANGED <<gate, checkout, lease, commit, artifact, ceremony, budget, epoch>>

(* The outcome is entered first; a session that is no longer awaiting the  *)
(* delivery keeps its state and the request ends in an error.              *)
RecordDelivered(t) ==
    /\ At(t, "ledger") /\ Unlocked
    /\ LET s == thread[t].s
           rec == WithCandidate(session[s], thread[t].p, "delivered")
       IN  Put(s, IF CanTransition(rec.st, "delivered") THEN Transitioned(rec, "delivered") ELSE rec)
    /\ End(t)
    /\ UNCHANGED <<gate, checkout, lease, commit, artifact, ceremony, budget, epoch>>

-----------------------------------------------------------------------------
(* verify_repair_candidate, of an autonomous agent.                        *)

Verifying == {t \in Threads : thread[t].op = "verify" /\ thread[t].at \notin {"idle", "done"}}

(* _assert_write_budget, from the events alone.                            *)
BudgetLeft == writes < MaxWrites

(* _resolve_review_repo: by its token, or by the content of a registered   *)
(* repository.                                                             *)
Resolvable == Known \/ Reviewed

VerifyCandidate(t, s, p) ==
    /\ At(t, "idle") /\ BudgetLeft /\ Resolvable
    /\ s # 0 => session[s].st # "absent"
    /\ thread' = [thread EXCEPT ![t] = [Idle EXCEPT !.at = "budgeted", !.op = "verify", !.s = s, !.p = p]]
    /\ overlap' = (overlap \/ Verifying # {})
    /\ UNCHANGED <<session, gate, checkout, lease, commit, artifact, ceremony, writes, epoch>>

(* The session is read and compared in one lock section.                   *)
CheckCandidate(t) ==
    /\ At(t, "budgeted") /\ Unlocked
    /\ LET r == thread[t]
           rec == session[r.s]
       IN  IF HasSession(t) /\ (rec.st \notin Takes \/ HasCandidate(rec, r.p, {"verified", "rejected"}))
           THEN End(t) /\ UNCHANGED session
           ELSE IF ~Reviewed
           THEN /\ End(t)
                /\ IF HasSession(t) THEN Put(r.s, Transitioned(rec, "stale")) ELSE UNCHANGED session
           ELSE /\ \/ GoWith(t, "checked", IF HasSession(t) THEN rec ELSE NoSession)
                   \/ Refuse(t, "refuted")
                /\ UNCHANGED session
    /\ UNCHANGED <<gate, checkout, lease, commit, artifact, ceremony, budget, epoch>>

(* A patch out of bounds, or whose tests failed.                           *)
RejectCandidate(t) ==
    /\ At(t, "refuted") /\ Unlocked
    /\ End(t)
    /\ LET s == thread[t].s
       IN  IF HasSession(t) THEN Put(s, WithCandidate(session[s], thread[t].p, "rejected")) ELSE UNCHANGED session
    /\ UNCHANGED <<gate, checkout, lease, commit, artifact, ceremony, budget, epoch>>

(* repair.candidate_verified, an event of a write.                         *)
CountVerified(t) ==
    /\ At(t, "verified")
    /\ writes' = writes + 1
    /\ Go(t, IF HasSession(t) THEN "counted" ELSE "done")
    /\ UNCHANGED <<session, gate, checkout, lease, commit, artifact, ceremony, overlap, epoch>>

RecordVerified(t) ==
    /\ At(t, "counted") /\ Unlocked
    /\ Put(thread[t].s, WithCandidate(session[thread[t].s], thread[t].p, "verified"))
    /\ End(t)
    /\ UNCHANGED <<gate, checkout, lease, commit, artifact, ceremony, budget, epoch>>

-----------------------------------------------------------------------------
(* The ceremony: both hold the manager's lock.                             *)

(* _delivered_session                                                      *)
DeliveredSession(s) ==
    session[s].st = "delivered" /\ {"awaiting_delivery", "delivered"} \subseteq session[s].hops

(* _recompute_five_fingerprints: the checkout and the three files as they  *)
(* are now; each is consistent in itself.                                  *)
Recomputed == [source |-> source, patch |-> artifact.patch,
               manifest |-> artifact.manifest, commit |-> artifact.record]
ArtifactsPresent == \A what \in DOMAIN artifact : artifact[what] # None

(* build_approval_record                                                   *)
ApprovalRecord(s) == [s |-> s, five |-> Recomputed]

(* _latest_delivery_approval_event: the approval of the session on the     *)
(* annotation chain that has none after it.                                *)
LatestApproval(s) == pinned[s]

ApproveDelivery(s) ==
    /\ Unlocked /\ Known /\ DeliveredSession(s) /\ ArtifactsPresent
    /\ approval' = ApprovalRecord(s)
    /\ gate' = [at |-> "pin", s |-> s, five |-> Recomputed, raced |-> FALSE]
    /\ UNCHANGED <<session, thread, checkout, lease, commit, artifact, pinned, exports, budget, epoch>>

(* The approval is appended to the annotation chain.                       *)
PinApproval ==
    /\ gate.at = "pin"
    /\ pinned' = [pinned EXCEPT ![gate.s] = gate.five]
    /\ gate' = NoGate
    /\ UNCHANGED <<session, thread, checkout, lease, commit, artifact, approval, exports, budget, epoch>>

(* approval_problems, and the approval's pin on the chain.                 *)
ApprovalOf(s) == approval.s = s /\ LatestApproval(s) = approval.five

(* No fingerprint_mismatches.                                              *)
Agree(approved, recomputed) == approved = recomputed

(* build_export_manifest, over the files as they are now.                  *)
Package == [s |-> gate.s, five |-> gate.five, pin |-> pinned[gate.s],
            files |-> artifact, raced |-> gate.raced]

ExportTrusting(s) ==
    /\ Unlocked /\ Known /\ DeliveredSession(s) /\ ApprovalOf(s) /\ ArtifactsPresent
    /\ gate' = [at |-> "export", s |-> s, five |-> approval.five, raced |-> FALSE]
    /\ UNCHANGED <<session, thread, checkout, lease, commit, artifact, ceremony, budget, epoch>>

(* The approval must be of this session, agree with its pin and with every *)
(* fingerprint computed again.                                             *)
ExportDelivery(s) ==
    /\ Unlocked /\ Known /\ DeliveredSession(s) /\ ApprovalOf(s) /\ ArtifactsPresent
    /\ Agree(approval.five, Recomputed)
    /\ gate' = [at |-> "export", s |-> s, five |-> Recomputed, raced |-> FALSE]
    /\ UNCHANGED <<session, thread, checkout, lease, commit, artifact, ceremony, budget, epoch>>

(* The files are read once more and copied into the package.               *)
WritePackage ==
    /\ gate.at = "export"
    /\ exports' = exports \cup {Package}
    /\ gate' = NoGate
    /\ UNCHANGED <<session, thread, checkout, lease, commit, artifact, approval, pinned, budget, epoch>>

-----------------------------------------------------------------------------
(* The user edits the checkout: a file that git status did not list yet,   *)
(* or one it already did.                                                  *)
EditSource ==
    /\ source < MaxEdits
    /\ source' = source + 1 /\ visible' \in {visible, visible + 1}
    /\ thread' = [t \in Threads |-> [thread[t] EXCEPT !.edited = thread[t].at \notin {"idle", "done"}]]
    /\ UNCHANGED <<session, gate, lease, commit, artifact, ceremony, budget, epoch>>

(* Threads end where they are, with the lease of a dead owner; the sessions*)
(* of the old process are harvested at once.                               *)
Restart ==
    /\ epoch < MaxRestarts
    /\ epoch' = epoch + 1 /\ session' = Harvested(epoch + 1)
    /\ thread' = [t \in Threads |-> IF thread[t].at = "idle" THEN thread[t] ELSE Done]
    /\ gate' = NoGate /\ lease' = [op |-> "free", by |-> None]
    /\ UNCHANGED <<checkout, commit, artifact, ceremony, budget>>

Request(t) ==
    \/ \E s \in 0..MaxSessions, p \in Patches : DeliverRepair(t, s, p) \/ VerifyCandidate(t, s, p)
    \/ CheckSource(t) \/ CheckCandidate(t) \/ EnterCandidate(t) \/ AcquireLease(t)
    \/ Build(t) \/ Test(t) \/ Commit(t) \/ Recheck(t) \/ RejectDelivery(t) \/ Release(t)
    \/ SaveDelivery(t) \/ RecordDelivered(t)
    \/ RejectCandidate(t) \/ CountVerified(t) \/ RecordVerified(t)

Ceremony ==
    \/ \E s \in Sessions : ApproveDelivery(s) \/ ExportDelivery(s)
    \/ PinApproval \/ WritePackage

Next ==
    \/ \E t \in Threads : Request(t)
    \/ \E s \in Sessions : OpenSession(s) \/ AbandonSession(s)
    \/ Ceremony \/ EditSource \/ Restart

Spec == Init /\ [][Next]_vars

-----------------------------------------------------------------------------
(* Properties.                                                             *)

(* A session that says delivered went through verified and                 *)
(* awaiting_delivery, and a commit of a patch it entered as delivered      *)
(* exists: whatever other requests, an abandonment or a stale copy did to  *)
(* the record in between.                                                  *)
DeliveredSoundly ==
    \A s \in Sessions : session[s].st = "delivered" =>
        /\ {"patch_candidate", "verified", "awaiting_delivery"} \subseteq session[s].hops
        /\ \E t \in Threads : <<commit[t].p, "delivered">> \in session[s].cands

(* A commit carries the reviewed source, or the checkout was edited after  *)
(* the request had compared it: no delivery starts on a source that is     *)
(* already another.                                                        *)
CommitsReviewedSource ==
    \A t \in Threads : commit[t].src # 0 => commit[t].raced

(* What is exported is what a person approved: the fingerprints are those  *)
(* pinned to the chain, and the files in the package have them, however    *)
(* many deliveries followed the approval; unless one replaced the files    *)
(* while the package was being written.                                    *)
ExportMatchesApproval ==
    \A e \in exports :
        /\ e.five = e.pin
        /\ e.raced \/ (e.files.patch = e.pin.patch /\ e.files.manifest = e.pin.manifest
                       /\ e.files.record = e.pin.commit)

(* Verifications one after another stay within the standing                *)
(* authorisation's number of writes, restarts included: the budget is      *)
(* counted in the event chain.  Two at once can both pass.                 *)
BudgetHoldsAlone == ~overlap => writes <= MaxWrites

(* What the session ledger says of a delivery was earned.                  *)
LedgerSound == DeliveredSoundly /\ CommitsReviewedSource /\ BudgetHoldsAlone

(* Sessions of a process that is gone are closed, and stay as they are.    *)
HarvestedStaysClosed ==
    [][\A s \in Sessions : epoch' # session[s].owner /\ session[s].st # "absent"
            => session'[s].st \in Terminal /\ (epoch' = epoch => session'[s] = session[s])]_vars
=============================================================================
