----------------------------- MODULE TaskRounds -----------------------------
(***************************************************************************)
(* The evidence task (modou/server/tasks.py): criteria that are selected,  *)
(* bound to a candidate, adopted into the user's worktree file by file,    *)
(* and reviewed again; rounds that carry them over when the source moves.  *)
(*                                                                         *)
(* Every operation runs under one lock, but the worktree, the repository   *)
(* lease, the review manager and the process itself do not: an operation   *)
(* is one action per save, file, guard or call into the manager.           *)
(*                                                                         *)
(* disk is the task record, mem the copy the operation in progress (op)    *)
(* works on; a save copies mem to disk, an error drops it.  A source is a  *)
(* content per file, and contents are never reused (fresh).                *)
(***************************************************************************)
EXTENDS Naturals, FiniteSets

CONSTANTS
    N,            \* criteria 1..N
    Measured,     \* criteria whose evidence is an experiment run by the server
    Adoptable,    \* criteria with findings to fix (finding_ids)
    LastFile,     \* files 0..LastFile; a candidate patches all but file 0
    Edited,       \* bound: the files the user edits
    MaxContent,   \* bound: contents created by plans and edits
    MaxGen,       \* bound: generations of a follow-up review
    Specs,        \* review specifications a plan may ask for
    MaxUpsets     \* bound: new requirement versions and deaths of the server

ASSUME BoundsAssumption ==
    /\ {N, LastFile} \subseteq Nat \ {0} /\ {MaxContent, MaxGen, MaxUpsets} \subseteq Nat
    /\ Measured \cup Adoptable \subseteq 1..N /\ Edited \subseteq 0..LastFile
    /\ Specs # {} /\ Specs \cap {"free", "inner"} = {}

VARIABLES
    disk,     \* the task record: snap (the round's source), seq, crit
    mem,      \* the working copy of the operation in progress
    op,       \* where that operation is, and for which criterion
    source,   \* the worktree
    fresh,    \* contents used so far
    review,   \* follow-up reviews, by idempotency key
    key,      \* what the manager remembers of the key: free, inner, or a spec
    live,     \* the follow-up that is the manager's live review, or "none"
    lease,    \* holder of the repository lease: "free", "task" or "review"
    auto,     \* the one automatic attempt of this task in the policy's ledger
    crashes,
    passed,   \* history: criteria whose experiment passed on the present source
    written,  \* history: automatic adoptions that wrote a file
    swept     \* history: criteria whose half-written files a round swept

vars == <<disk, mem, op, source, fresh, review, key, live, lease, auto, crashes,
          passed, written, swept>>
world == <<source, fresh>>
manager == <<review, key, live>>
history == <<passed, written, swept>>

Criteria == 1..N
Files == 0..LastFile
Patched == 1..LastFile
Keys == Criteria \X (0..MaxGen)
Original == [f \in Files |-> 0]

NoSource == [f \in {} |-> 0]
NoPlan == [before |-> NoSource, content |-> 0, spec |-> CHOOSE s \in Specs : TRUE]
NoReview == [st |-> "absent", snap |-> NoSource, verdict |-> "none", approved |-> FALSE]

(* A criterion as _criterion_record makes it.  child is the generation of  *)
(* its follow-up review plus one, 0 for none.                              *)
NewCriterion ==
    [status |-> "pending", outcome |-> "pending", plan |-> NoPlan, adopted |-> NoSource,
     experiment |-> NoSource, child |-> 0, gen |-> 0, mapping |-> "none"]

NewTask == [snap |-> Original, seq |-> 1, crit |-> [c \in Criteria |-> NewCriterion]]
Idle == [at |-> "idle", c |-> 1, auto |-> FALSE, loop |-> 0]

Init ==
    /\ disk = NewTask /\ mem = NewTask /\ op = Idle
    /\ source = Original /\ fresh = 0
    /\ review = [k \in Keys |-> NoReview] /\ key = [k \in Keys |-> "free"]
    /\ live = "none" /\ lease = "free" /\ auto = "none" /\ crashes = 0
    /\ passed = {} /\ written = 0 /\ swept = {}

-----------------------------------------------------------------------------
(* Helpers.                                                                *)

HasPlan(r) == r.plan # NoPlan
ChildOf(c, r) == <<c, r.child - 1>>
ChildState(c, r) == IF r.child = 0 THEN "none" ELSE review[ChildOf(c, r)].st
Target(plan) == [f \in Files |-> IF f \in Patched THEN plan.content ELSE plan.before[f]]

(* The target's verdict in a completed follow-up (_compare): a mapping     *)
(* nobody confirmed decides nothing.                                       *)
Compared(c, r) == IF r.mapping = "ambiguous" THEN "inconclusive" ELSE review[ChildOf(c, r)].verdict

(* What get() reports of a criterion.                                      *)
Expected(r, t) ==
    IF r.adopted # NoSource THEN r.adopted
    ELSE IF r.experiment # NoSource THEN r.experiment ELSE t.snap

Overlaid(c, r) ==
    IF r.child > 0 /\ r.status \in {"reviewing", "adopted"}
    THEN CASE ChildState(c, r) = "complete" -> Compared(c, r)
           [] ChildState(c, r) = "failed" -> "inconclusive"
           [] OTHER -> r.outcome
    ELSE r.outcome

Shown(c) ==
    LET r == disk.crit[c]  outcome == Overlaid(c, r)
    IN  IF outcome = "supported" /\ source # Expected(r, disk) THEN "inconclusive" ELSE outcome

(* _allowed, after a follow-up that did not finish gave the item back.     *)
Current(c) ==
    LET r == disk.crit[c]
    IN  IF r.status = "reviewing" /\ ChildState(c, r) = "failed"
        THEN [r EXCEPT !.status = "adopted"] ELSE r

Selectable == {"pending", "pending_recheck", "selected"}

-----------------------------------------------------------------------------
(* Operations: begin, save, leave.                                         *)

Free == op.at = "idle"
At(place) == op.at = place
Go(place) == op' = [op EXCEPT !.at = place]
With(r) == [mem EXCEPT !.crit[op.c] = r]
Mine == mem.crit[op.c]

(* An operation that only changes the record of one criterion.             *)
Edit(c, r) ==
    /\ disk' = [disk EXCEPT !.crit[c] = r] /\ mem' = disk'
    /\ UNCHANGED <<op, world, manager, lease, auto, crashes, history>>

(* An error leaves what was saved.                                         *)
Raise == op' = Idle /\ mem' = disk /\ UNCHANGED disk
Save(t) == mem' = t /\ disk' = t

(* _carry_criteria, with the criteria of keep left alone.                  *)
Carried(crit, keep) ==
    [c \in Criteria |-> IF c \in keep THEN crit[c]
        ELSE [crit[c] EXCEPT !.status = "pending_recheck", !.outcome = "pending_recheck"]]

(* _refresh_target_mapping: only criteria with findings have one.          *)
Refreshed(crit, choice) ==
    [c \in Criteria |-> IF c \in Adoptable THEN [crit[c] EXCEPT !.mapping = choice] ELSE crit[c]]

(* Half of a candidate's files are written.                                *)
Torn(r) ==
    /\ HasPlan(r)
    /\ \E f \in Patched : source[f] = r.plan.content
    /\ \E f \in Patched : source[f] = r.plan.before[f]

-----------------------------------------------------------------------------
(* Operations that are one save.                                           *)

Select(c) ==
    /\ Free /\ Current(c).status \in Selectable
    /\ Edit(c, [Current(c) EXCEPT !.status = "selected"])

AcceptRisk(c) ==
    /\ Free /\ Current(c).status \in Selectable
    /\ Edit(c, [Current(c) EXCEPT !.status = "accepted_risk", !.outcome = "accepted_risk"])

Bind(c) ==
    /\ Free /\ c \in Adoptable /\ Current(c).status \in {"selected", "candidate_ready"}
    /\ source = disk.snap
    /\ Edit(c, [Current(c) EXCEPT !.status = "candidate_ready", !.plan = NoPlan])

(* Error: a confirmed target counts as evidence of its own.                *)
ConfirmMappingAlone(c) ==
    /\ Free /\ Current(c).status = "pending_recheck" /\ Current(c).mapping # "none"
    /\ Edit(c, [Current(c) EXCEPT !.mapping = "clear", !.outcome = "supported", !.status = "reviewed"])

(* The user answers where the target went, or says it is none of them; a   *)
(* completed follow-up is compared again.                                  *)
ConfirmMapping(c) ==
    /\ Free /\ Current(c).status = "pending_recheck" /\ Current(c).mapping # "none"
    /\ \E answer \in {"clear", "ambiguous"} :
          LET r == [Current(c) EXCEPT !.mapping = answer]
              outcome == Compared(c, r)
          IN  Edit(c, IF ChildState(c, r) # "complete" THEN r
                      ELSE IF outcome = "inconclusive" THEN [r EXCEPT !.outcome = outcome]
                      ELSE [r EXCEPT !.outcome = outcome, !.status = "reviewed"])

ChangeRequirement ==
    /\ Free /\ disk.seq + crashes <= MaxUpsets
    /\ disk' = [snap |-> source, seq |-> disk.seq + 1, crit |-> [c \in Criteria |-> NewCriterion]]
    /\ mem' = disk'
    /\ swept' = swept \cup {c \in Criteria : Torn(disk.crit[c])}
    /\ UNCHANGED <<op, world, manager, lease, auto, crashes, passed, written>>

-----------------------------------------------------------------------------
(* prepare_adoption: the candidate is verified in a worktree of its own    *)
(* under the lease, then the plan is bound to the round's source.          *)

Start(place, c, automatic) ==
    /\ Free /\ op' = [Idle EXCEPT !.at = place, !.c = c, !.auto = automatic]
    /\ mem' = [disk EXCEPT !.crit[c] = Current(c)] /\ UNCHANGED disk

Prepare(c) ==
    /\ Start("verify", c, FALSE)
    /\ Current(c).status \in {"candidate_ready", "prepared"} /\ source = disk.snap
    /\ lease = "free" /\ lease' = "task"
    /\ UNCHANGED <<world, manager, auto, crashes, history>>

Prepared ==
    /\ At("verify") /\ lease' = "free" /\ fresh < MaxContent
    /\ \/ /\ source = mem.snap /\ fresh' = fresh + 1 /\ op' = Idle
          /\ \E s \in Specs :
                Save(With([Mine EXCEPT !.status = "prepared",
                              !.plan = [before |-> source, content |-> fresh + 1, spec |-> s]]))
       \/ Raise /\ UNCHANGED fresh        \* a test fails, a rule is weakened, the source moved
    /\ UNCHANGED <<source, manager, auto, crashes, history>>

-----------------------------------------------------------------------------
(* confirm_adoption and auto_confirm_adoption.                             *)

Confirm(c) ==
    /\ Start("confirm", c, FALSE) /\ Current(c).status = "prepared"
    /\ UNCHANGED <<world, manager, lease, auto, crashes, history>>

(* Error: an attempt that failed is not counted.                           *)
AutoConfirmAgain(c) ==
    /\ Start("confirm", c, TRUE) /\ Current(c).status = "prepared"
    /\ auto \in {"none", "failed"} /\ auto' = "reserved"
    /\ UNCHANGED <<world, manager, lease, crashes, history>>

(* The automatic one reserves its attempt in the policy's ledger first;    *)
(* the ledger allows one per task, whatever became of it.                  *)
AutoConfirm(c) ==
    /\ Start("confirm", c, TRUE) /\ Current(c).status = "prepared"
    /\ auto = "none" /\ auto' = "reserved"
    /\ UNCHANGED <<world, manager, lease, crashes, history>>

(* Another review may be live or hold the lease at any time, and then the  *)
(* operation is refused here and in Create.                                *)
ConfirmGuard ==
    /\ At("confirm")
    /\ \/ /\ source = mem.snap /\ live = "none" /\ lease = "free"
          /\ lease' = "task" /\ Go("mark") /\ UNCHANGED <<disk, mem>>
       \/ Raise /\ UNCHANGED lease
    /\ UNCHANGED <<world, manager, auto, crashes, history>>

ConfirmMark ==
    /\ At("mark")
    /\ \/ /\ source = mem.snap /\ Save(With([Mine EXCEPT !.status = "applying"]))
          /\ Go("write") /\ UNCHANGED lease
       \/ source # mem.snap /\ Raise /\ lease' = "free"
    /\ UNCHANGED <<world, manager, auto, crashes, history>>

Unwritten(plan) == {f \in Patched : source[f] # plan.content}
NextFile(plan) == CHOOSE f \in Unwritten(plan) : \A g \in Unwritten(plan) : f <= g

(* Settlements are idempotent.                                             *)
Settled(how) == IF op.auto /\ auto = "reserved" THEN how ELSE auto

WriteFile ==
    /\ At("write") /\ Unwritten(Mine.plan) # {}
    /\ LET f == NextFile(Mine.plan)
       IN  /\ source[f] = Mine.plan.before[f]
           /\ source' = [source EXCEPT ![f] = Mine.plan.content]
    /\ written' = IF op.auto /\ Unwritten(Mine.plan) = Patched THEN written + 1 ELSE written
    /\ passed' = {}
    /\ UNCHANGED <<disk, mem, op, fresh, manager, lease, auto, crashes, swept>>

(* Error: the plan is offered again, as if nothing had been written.       *)
ApplyFailsPrepared ==
    /\ At("write") \/ At("content")
    /\ Save(With([Mine EXCEPT !.status = "prepared"])) /\ op' = Idle
    /\ lease' = "free" /\ auto' = Settled("failed")
    /\ UNCHANGED <<world, manager, crashes, history>>

(* A file is not what the plan replaces, the index changed, a write fails. *)
ApplyFails ==
    /\ At("write") \/ At("content")
    /\ Save(With([Mine EXCEPT !.status = "recovery_required"])) /\ op' = Idle
    /\ lease' = "free" /\ auto' = Settled("failed")
    /\ UNCHANGED <<world, manager, crashes, history>>

TakeSnapshot ==
    /\ At("write") /\ Unwritten(Mine.plan) = {}
    /\ mem' = With([Mine EXCEPT !.adopted = source]) /\ Go("content")
    /\ UNCHANGED <<disk, world, manager, lease, auto, crashes, history>>

(* Error: the snapshot is saved without comparing the content.             *)
AdoptAnyway ==
    /\ At("content")
    /\ Save(With([Mine EXCEPT !.status = "adopted"])) /\ Go("settle")
    /\ UNCHANGED <<world, manager, lease, auto, crashes, history>>

Adopt ==
    /\ At("content") /\ source = Target(Mine.plan)
    /\ Save(With([Mine EXCEPT !.status = "adopted"])) /\ Go("settle")
    /\ UNCHANGED <<world, manager, lease, auto, crashes, history>>

Settle ==
    /\ At("settle") /\ auto' = Settled("applied") /\ lease' = "free" /\ Go("round")
    /\ UNCHANGED <<disk, mem, world, manager, crashes, history>>

(* The round the adoption opens carries every other criterion over.        *)
OpenRound ==
    /\ At("round") \/ At("recovered_round")
    /\ \E choice \in IF At("round") THEN {"clear", "ambiguous"} ELSE {"none"} :
          LET crit == Carried(mem.crit, {op.c})
          IN  Save([mem EXCEPT !.snap = Mine.adopted,
                               !.crit = IF At("round") THEN Refreshed(crit, choice) ELSE crit])
    /\ swept' = swept \cup {c \in Criteria \ {op.c} : Torn(mem.crit[c])}
    /\ Go("create")
    /\ UNCHANGED <<world, manager, lease, auto, crashes, passed, written>>

-----------------------------------------------------------------------------
(* recover_adoption: the files are all written, none is, or neither.       *)

Recover(c) ==
    /\ Current(c).status \in {"applying", "recovery_required"}
    /\ LET plan == Current(c).plan
       IN  \/ source = Target(plan) /\ Start("recovered", c, auto # "none")
           \/ /\ \A f \in Patched : source[f] = plan.before[f]
              /\ Free /\ Save([disk EXCEPT !.crit[c] =
                     [Current(c) EXCEPT !.status = "candidate_ready", !.plan = NoPlan]])
              /\ UNCHANGED op
    /\ UNCHANGED <<world, manager, lease, auto, crashes, history>>

RecoveredSave ==
    /\ At("recovered")
    /\ Save(With([Mine EXCEPT !.status = "adopted", !.adopted = source]))
    /\ auto' = Settled("recovered") /\ Go("recovered_round")
    /\ UNCHANGED <<world, manager, lease, crashes, history>>

-----------------------------------------------------------------------------
(* _start_review: create_v2 under the criterion's key, the binding of the  *)
(* child, approve, and the two saves around them.                          *)

Retry(c) ==
    /\ Start("create", c, FALSE)
    /\ \/ Current(c).status = "adopted"
       \/ Current(c).status = "pending_recheck" /\ Current(c).adopted # NoSource
          /\ source = Current(c).adopted
    /\ UNCHANGED <<world, manager, lease, auto, crashes, history>>

Generation ==
    IF Mine.child > 0 /\ (op.loop > 0 \/ ChildState(op.c, Mine) = "failed")
    THEN Mine.gen + 1 ELSE Mine.gen

KeyOf == <<op.c, Mine.gen>>

Create ==
    /\ At("create") /\ Generation <= MaxGen
    /\ LET k == <<op.c, Generation>>
       IN  \/ /\ source = Mine.adopted /\ key[k] = Mine.plan.spec    \* remembered
              /\ mem' = With([Mine EXCEPT !.gen = Generation])
              /\ Go("bind") /\ UNCHANGED <<disk, manager>>
           \/ /\ source = Mine.adopted /\ key[k] = "free" /\ live = "none"
              /\ mem' = With([Mine EXCEPT !.gen = Generation])
              /\ review' = [review EXCEPT ![k] = [NoReview EXCEPT !.st = "awaiting", !.snap = source]]
              /\ key' = [key EXCEPT ![k] = "inner"] /\ live' = k
              /\ Go("remember") /\ UNCHANGED disk
           \/ /\ source # Mine.adopted \/ key[k] # Mine.plan.spec
              /\ Raise /\ UNCHANGED manager
    /\ UNCHANGED <<world, lease, auto, crashes, history>>

(* create remembered the key with its own request; create_v2 now does with *)
(* the specification.                                                      *)
Remember ==
    /\ At("remember") /\ key' = [key EXCEPT ![KeyOf] = Mine.plan.spec] /\ Go("bind")
    /\ UNCHANGED <<disk, mem, world, review, live, lease, auto, crashes, history>>

BindChild ==
    /\ At("bind") /\ Save(With([Mine EXCEPT !.child = Mine.gen + 1])) /\ Go("approve")
    /\ UNCHANGED <<world, manager, lease, auto, crashes, history>>

Approve ==
    /\ At("approve")
    /\ LET r == review[KeyOf]
       IN  \/ r.approved /\ Go("started") /\ UNCHANGED <<disk, mem, review, lease>>
           \/ /\ ~r.approved /\ r.st = "awaiting" /\ r.snap = source /\ lease = "free"
              /\ review' = [review EXCEPT ![KeyOf] = [r EXCEPT !.st = "running", !.approved = TRUE]]
              /\ lease' = "review" /\ Go("started") /\ UNCHANGED <<disk, mem>>
           \/ /\ ~r.approved /\ (r.st # "awaiting" \/ r.snap # source \/ lease # "free")
              /\ Raise /\ UNCHANGED <<review, lease>>
    /\ UNCHANGED <<world, key, live, auto, crashes, history>>

Started ==
    /\ At("started") /\ Save(With([Mine EXCEPT !.status = "reviewing"]))
    /\ op' = IF op.loop > 0 THEN [op EXCEPT !.at = "loop", !.loop = @ + 1, !.c = 1] ELSE Idle
    /\ UNCHANGED <<world, manager, lease, auto, crashes, history>>

-----------------------------------------------------------------------------
(* Experiments run by the server, alone or in a re-verification.           *)

StartExperiment(c) ==
    /\ Start("measure", c, FALSE) /\ c \in Measured
    /\ Current(c).status \in Selectable /\ source = disk.snap
    /\ UNCHANGED <<world, manager, lease, auto, crashes, history>>

Measure(r, ok) ==
    IF ok THEN [r EXCEPT !.experiment = source, !.outcome = "supported", !.status = "reviewed"]
          ELSE [r EXCEPT !.experiment = source, !.outcome = "inconclusive"]

(* The experiment passed on the source of its start; it counts only while  *)
(* the worktree is still that source.                                      *)
EndExperiment ==
    /\ At("measure")
    /\ \E ok \in BOOLEAN :
          /\ passed' = IF ok /\ source = mem.snap THEN passed \cup {op.c} ELSE passed
          /\ mem' = With(Measure(Mine, ok /\ source = mem.snap))
    /\ \/ op.loop = 0 /\ disk' = mem' /\ op' = Idle
       \/ op.loop > 0 /\ op' = [op EXCEPT !.at = "loop", !.loop = @ + 1, !.c = 1] /\ UNCHANGED disk
    /\ UNCHANGED <<world, manager, lease, auto, crashes, written, swept>>

-----------------------------------------------------------------------------
(* reverify_current: the round it opens lives in memory until a save; the  *)
(* pending criteria are taken one after another.                           *)

Rebased(crit) ==
    [c \in Criteria |-> IF crit[c].adopted = NoSource THEN crit[c]
                        ELSE [crit[c] EXCEPT !.adopted = source]]

Reverify ==
    /\ Free /\ op' = [Idle EXCEPT !.at = "loop", !.loop = 1]
    /\ IF source = disk.snap THEN mem' = disk /\ UNCHANGED swept
       ELSE /\ \E choice \in {"clear", "ambiguous"} :
                  mem' = [disk EXCEPT !.snap = source,
                              !.crit = Refreshed(Rebased(Carried(@, {})), choice)]
            /\ swept' = swept \cup {c \in Criteria : Torn(disk.crit[c])}
    /\ UNCHANGED <<disk, world, manager, lease, auto, crashes, passed, written>>

Rechecked(c) == c \in Measured \/ (HasPlan(mem.crit[c]) /\ mem.crit[c].adopted # NoSource)

(* The criteria the loop has not reached; those it can do nothing for stay *)
(* pending.                                                                *)
Ahead == {c \in Criteria : c >= op.loop /\ mem.crit[c].status = "pending_recheck"}
Due == {c \in Ahead : Rechecked(c)}

ReverifyNext ==
    /\ At("loop") /\ Due # {}
    /\ LET c == CHOOSE c \in Due : \A d \in Due : c <= d
       IN  \/ /\ c \in Measured /\ source = mem.snap
              /\ op' = [op EXCEPT !.at = "measure", !.c = c, !.loop = c] /\ UNCHANGED <<disk, mem>>
           \/ c \in Measured /\ source # mem.snap /\ Raise
           \/ /\ c \notin Measured
              /\ mem' = [mem EXCEPT !.crit[c].adopted = mem.snap]
              /\ op' = [op EXCEPT !.at = "create", !.c = c, !.loop = c] /\ UNCHANGED disk
    /\ UNCHANGED <<world, manager, lease, auto, crashes, history>>

(* A job's cancellation or budget stops it before a criterion.             *)
ReverifyInterrupted ==
    /\ At("loop") /\ Ahead # {} /\ Save(mem) /\ op' = Idle
    /\ UNCHANGED <<world, manager, lease, auto, crashes, history>>

ReverifyEnds ==
    /\ At("loop") /\ Due = {} /\ Save(mem) /\ op' = Idle
    /\ UNCHANGED <<world, manager, lease, auto, crashes, history>>

-----------------------------------------------------------------------------
(* The world: the user's editor, the follow-up reviews, a crash.           *)

OnlyManager == <<disk, mem, op, world, auto, crashes, history, key>>

EditSource(f) ==
    /\ fresh < MaxContent /\ fresh' = fresh + 1 /\ source' = [source EXCEPT ![f] = fresh + 1]
    /\ passed' = {}
    /\ UNCHANGED <<disk, mem, op, manager, lease, auto, crashes, written, swept>>

ReviewEnds(k) ==
    /\ review[k].st = "running"
    /\ \/ \E v \in {"supported", "gap_remains"} :
             review' = [review EXCEPT ![k].st = "complete", ![k].verdict = v]
       \/ review' = [review EXCEPT ![k].st = "failed"]
    /\ live' = "none" /\ lease' = "free"
    /\ UNCHANGED OnlyManager

ReviewDropped(k) ==
    /\ review[k].st = "awaiting" /\ live = k
    /\ op.at \notin {"remember"}
    /\ review' = [review EXCEPT ![k].st = "failed"] /\ live' = "none"
    /\ UNCHANGED <<OnlyManager, lease>>

(* The record on disk stays, the reviews are aborted by the restart, and   *)
(* the lease of a dead owner is free.                                      *)
Crash ==
    /\ disk.seq + crashes <= MaxUpsets /\ crashes' = crashes + 1
    /\ op' = Idle /\ mem' = disk
    /\ review' = [k \in Keys |-> IF review[k].st \in {"awaiting", "running"}
                                 THEN [review[k] EXCEPT !.st = "failed"] ELSE review[k]]
    /\ live' = "none" /\ lease' = "free"
    /\ UNCHANGED <<disk, world, key, auto, history>>

-----------------------------------------------------------------------------

User ==
    \/ \E c \in Criteria :
          \/ Select(c) \/ AcceptRisk(c) \/ Bind(c) \/ ConfirmMapping(c) \/ Prepare(c)
          \/ Confirm(c) \/ AutoConfirm(c) \/ Recover(c) \/ Retry(c) \/ StartExperiment(c)
    \/ ChangeRequirement \/ Reverify

Adoption ==
    \/ Prepared \/ ConfirmGuard \/ ConfirmMark \/ WriteFile \/ ApplyFails \/ TakeSnapshot
    \/ Adopt \/ Settle \/ OpenRound \/ RecoveredSave

FollowUp == Create \/ Remember \/ BindChild \/ Approve \/ Started
Reverification == ReverifyNext \/ ReverifyInterrupted \/ ReverifyEnds \/ EndExperiment

Environment ==
    \/ \E f \in Edited : EditSource(f)
    \/ \E k \in Keys : ReviewEnds(k) \/ ReviewDropped(k)
    \/ Crash

Next == User \/ Adoption \/ FollowUp \/ Reverification \/ Environment

Spec == Init /\ [][Next]_vars

-----------------------------------------------------------------------------
(* Properties.                                                             *)

(* What was approved is what is adopted: a confirmed plan ends as adopted  *)
(* only with the content it was prepared for, whatever was edited while    *)
(* its files were written; if not, the record asks for recovery.           *)
AdoptedAsPlanned ==
    [][\A c \in Criteria :
          disk.crit[c].status = "applying" /\ At("content") /\ disk'.crit[c].status = "adopted"
             => disk'.crit[c].adopted = Target(disk.crit[c].plan)]_vars

(* Automatic adoption writes at most once for a task, over crashes in the  *)
(* middle of it, recoveries and new requirement versions.                  *)
AutoWritesOnce == written <= 1 /\ (written = 1 => auto # "none")

(* Half of a candidate in the worktree is known to the record and can be   *)
(* recovered, unless a round took the worktree as it found it (swept).     *)
TornIsRecoverable ==
    Free => \A c \in Criteria : Torn(disk.crit[c]) =>
        disk.crit[c].status \in {"applying", "recovery_required"} \/ c \in swept

(* "It never fabricates a success without that review evidence"            *)
(* (_confirm_mapping): what is shown as supported was supported by a       *)
(* completed review or a passed experiment of that criterion.              *)
Evidence(c) ==
    {review[k].snap : k \in {k \in Keys : k[1] = c /\ review[k].verdict = "supported"}}
        \cup (IF c \in passed THEN {source} ELSE {})

NeverFabricated == \A c \in Criteria : Shown(c) = "supported" => Evidence(c) # {}

(* An experiment speaks for the worktree it ran on, and for no other.      *)
ExperimentIsCurrent ==
    \A c \in Measured \ Adoptable : Shown(c) = "supported" => c \in passed

SuccessHasEvidence == NeverFabricated /\ ExperimentIsCurrent

(* "Nothing may inherit a success conclusion" (_carry_criteria): a         *)
(* criterion shown as supported has evidence from the current source.      *)
NothingInherited == \A c \in Criteria : Shown(c) = "supported" => source \in Evidence(c)
=============================================================================
