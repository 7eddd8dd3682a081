---------------------------- MODULE TestProposal ----------------------------
(***************************************************************************)
(* propose_test of modou/server/control.py with the visa of                *)
(* modou/agent/test_visa.py: a model proposes one new test for uncovered   *)
(* lines, the test runs in throwaway worktrees of the repository, and a    *)
(* green one earns its visa when it also fails on a deletion nobody showed *)
(* the model.  A call asks the model up to Rounds times.                   *)
(*                                                                         *)
(* Calls of one review run in threads of one process; another review of    *)
(* the same repository may want its lease; the user keeps editing.         *)
(***************************************************************************)
EXTENDS Integers, Sequences, FiniteSets, SequencesExt, FiniteSetsExt

CONSTANTS
    Callers,       \* threads that call propose_test
    KeyOf,         \* the idempotency key of each
    FileOrder,     \* the files the allowed references lie in, in path order
    Units,         \* how many deletable top-level statements each has
    Rounds,        \* answers asked of the model
    Slots,         \* of every Modulus deletions the first Slots are shown to the model
    Modulus,
    MinAdmitted,   \* fewer deletions give no visa
    MaxAdmitted,   \* more are cut off
    MaxCalls,      \* bound: calls
    MaxUpsets      \* bound: edits and commits of the user

(* What the instances assume of their constants.                           *)
ProposalAssumption ==
    /\ Rounds \in Nat \ {0} /\ Slots \in Nat /\ Modulus \in Nat \ {0}
    /\ MinAdmitted \in Nat \ {0} /\ MaxAdmitted \in Nat
    /\ MaxCalls \in Nat /\ MaxUpsets \in Nat
    /\ \A i \in DOMAIN FileOrder : Units[FileOrder[i]] \in Nat

VARIABLES
    checkout,  \* HEAD, the uncommitted patch and git status of the user's checkout
    reviewed,  \* the checkout the review froze
    upsets,    \* changes of the checkout so far
    lease,     \* who has the repository's lease record: "none", "review" or "other"
    other,     \* the other review's operation is running
    calls,     \* what each caller is doing
    started,   \* calls so far
    record,    \* test_proposal/proposal.json
    answers,   \* idempotency.json, by key
    left       \* a worktree was left behind for good

vars == <<checkout, reviewed, upsets, lease, other, calls, started, record, answers, left>>
world == <<checkout, reviewed, upsets>>

\* the report's lines the model may refer to, requested ones first, lie in Files
Files == ToSet(FileOrder)
\* parse_proposal takes any non-empty set of them
Cites == (SUBSET Files) \ {{}}
NoVisa == [status |-> "none"]
NoRecord == [status |-> "none"]
Idle == [pc |-> "idle"]

Init ==
    /\ \E patch \in {0, 1} : checkout = [base |-> 0, patch |-> patch, status |-> patch, untracked |-> FALSE]
    /\ reviewed = checkout /\ upsets = 0
    /\ lease = "none" /\ other = FALSE /\ left = FALSE
    /\ calls = [c \in Callers |-> Idle] /\ started = 0
    /\ record = NoRecord /\ answers = [k \in {} |-> NoRecord]

Set(c, new) == calls' = [calls EXCEPT ![c] = new]
Leaves(c) == calls' = [calls EXCEPT ![c].pc = "release", ![c].tree = "none"]

-----------------------------------------------------------------------------
(* The user: an edit of a file that is modified already does not show in    *)
(* git status; a commit empties the patch.                                  *)

Edit(shows, untracked) ==
    /\ upsets < MaxUpsets /\ upsets' = upsets + 1
    /\ checkout.patch = 0 \/ untracked => shows
    /\ checkout' = [checkout EXCEPT !.patch = IF untracked THEN @ ELSE upsets + 2,
                                    !.status = IF shows THEN upsets + 2 ELSE @,
                                    !.untracked = @ \/ untracked]
    /\ UNCHANGED <<reviewed, lease, other, calls, started, record, answers, left>>

Commit ==
    /\ upsets < MaxUpsets /\ upsets' = upsets + 1
    /\ checkout' = [base |-> checkout.base + 1, patch |-> 0, status |-> 0, untracked |-> FALSE]
    /\ UNCHANGED <<reviewed, lease, other, calls, started, record, answers, left>>

(* Another review takes the lease for an operation of its own.              *)
OtherBegins ==
    /\ lease = "none" /\ ~other /\ lease' = "other" /\ other' = TRUE
    /\ UNCHANGED <<world, calls, started, record, answers, left>>

OtherEnds ==
    /\ other /\ other' = FALSE /\ lease' = IF lease = "other" THEN "none" ELSE lease
    /\ UNCHANGED <<world, calls, started, record, answers, left>>

-----------------------------------------------------------------------------
(* The deletions of the cited files: ranked by path and line, cut off, and  *)
(* split by rank.  Only the rank decides.                                   *)

UnitsOf(cited) == FlattenSeq([i \in DOMAIN FileOrder |->
    IF FileOrder[i] \in cited THEN [n \in 1..Units[FileOrder[i]] |-> <<FileOrder[i], n>>] ELSE <<>>])

enumerate_interventions(cited) ==
    LET all == UnitsOf(cited) IN SubSeq(all, 1, Min({Len(all), MaxAdmitted}))

Generation(cited) == LET e == enumerate_interventions(cited) IN
    {e[i] : i \in {j \in DOMAIN e : (j - 1) % Modulus < Slots}}
Holdout(cited) == ToSet(enumerate_interventions(cited)) \ Generation(cited)

(* The grade of one deletion from the two runs of the candidate on it;      *)
(* touching: the failing test executed the deleted lines on the baseline.   *)
Attempts == [1..2 -> {"passed", "failed", "error", "collect_failed", "timeout"}]

(* Error: one failing run of the two is enough.                             *)
GradeOfEither(attempts, touching) ==
    IF \E j \in 1..2 : attempts[j] = "collect_failed" THEN "UNCOLLECTABLE"
    ELSE IF \E j \in 1..2 : attempts[j] = "failed" THEN IF touching THEN "A" ELSE "B"
    ELSE "OBSERVATION_ONLY"

evaluate_intervention(attempts, touching) ==
    IF \E j \in 1..2 : attempts[j] = "collect_failed" THEN "UNCOLLECTABLE"
    ELSE IF \E j \in 1..2 : attempts[j] = "timeout" THEN "OBSERVATION_ONLY"
    ELSE IF \A j \in 1..2 : attempts[j] = "failed" THEN IF touching THEN "A" ELSE "B"
    ELSE IF \E j \in 1..2 : attempts[j] # "passed" THEN "OBSERVATION_ONLY"
    ELSE "NO_REGRESSION"

-----------------------------------------------------------------------------
(* A call: snapshot, idempotency, lease, source patch.                      *)

Begin(c) ==
    /\ calls[c] = Idle /\ started < MaxCalls /\ started' = started + 1
    /\ checkout = reviewed                 \* else SOURCE_SNAPSHOT_CHANGED
    /\ KeyOf[c] \notin DOMAIN answers      \* else the remembered answer
    /\ Set(c, [pc |-> "acquire"])
    /\ UNCHANGED <<world, lease, other, record, answers, left>>

Working(c) == calls[c].pc \notin {"idle", "acquire"}

\* the fields of a call that has the lease; alone: no other call of the review
\* has had it at the same time
Fresh(alone) ==
    [pc |-> "ask", round |-> 1, shown |-> {}, cites |-> {}, kept |-> TRUE, cand |-> 0,
     patch |-> checkout.patch, base |-> checkout.base, leased |-> TRUE, alone |-> alone,
     stage |-> "run", tree |-> "none", visa |-> NoVisa, status |-> ""]

Entered(c, alone) == calls' = [d \in Callers |->
    IF d = c THEN Fresh(alone)
    ELSE IF Working(d) THEN [calls[d] EXCEPT !.alone = FALSE] ELSE calls[d]]

(* The lease is one per review and operation: a second call of the review   *)
(* refreshes the first one's, and both carry its id.                        *)
Acquire(c) ==
    /\ calls[c].pc = "acquire"
    /\ IF lease = "other" THEN Set(c, Idle) /\ UNCHANGED lease
       ELSE lease' = "review" /\ Entered(c, \A d \in Callers \ {c} : ~Working(d))
    /\ UNCHANGED <<world, other, started, record, answers, left>>

(* Two answers that do not parse, or no model, end the call.  A revision    *)
(* may cite other references than the round before.                         *)
Ask(c) ==
    /\ calls[c].pc = "ask"
    /\ \/ Leaves(c)
       \/ \E cites \in Cites :
            Set(c, [calls[c] EXCEPT !.pc = "open", !.stage = "run", !.cites = cites, !.cand = @ + 1,
                                    !.kept = @ /\ (calls[c].cites \in {{}, cites})])
    /\ UNCHANGED <<world, lease, other, started, record, answers, left>>

(* A worktree at HEAD with the frozen source patch on it.                   *)
isolated_worktree(c) ==
    /\ calls[c].pc = "open"
    /\ \/ /\ ~checkout.untracked
          /\ Set(c, [calls[c] EXCEPT !.pc = "inside", !.tree = checkout.status])
       \/ /\ \/ checkout.untracked
             \/ checkout.base # calls[c].base /\ calls[c].patch # 0
          /\ Leaves(c)
    /\ UNCHANGED <<world, lease, other, started, record, answers, left>>

(* The worktree is removed unless git status of the checkout has changed:   *)
(* then the assertion raises first, and the worktree stays.                 *)
Untouched(c) == checkout.status = calls[c].tree

TouchedWhileInside(c) ==
    /\ calls[c].pc = "inside" /\ ~Untouched(c)
    /\ left' = TRUE /\ Leaves(c)
    /\ UNCHANGED <<world, lease, other, started, record, answers>>

Removed(c, new) ==
    /\ calls[c].pc = "inside" /\ Untouched(c) /\ Set(c, [new EXCEPT !.tree = "none"])
    /\ UNCHANGED <<world, lease, other, started, record, answers, left>>

(* Error: a run that raises leaves its worktree behind.                     *)
RunRaisesLeaving(c) ==
    /\ calls[c].pc = "inside" /\ left' = TRUE /\ Leaves(c)
    /\ UNCHANGED <<world, lease, other, started, record, answers>>

RunRaises(c) == Removed(c, [calls[c] EXCEPT !.pc = "release"])

Inside(c, stage) == calls[c].pc = "inside" /\ calls[c].stage = stage
NextStage(c, stage) == [calls[c] EXCEPT !.pc = "open", !.stage = stage]

Revised(c, prompt) == [calls[c] EXCEPT !.pc = "ask", !.round = @ + 1, !.shown = @ \cup prompt]

\* a red candidate is revised from its failure until the rounds are used up
RunEnds(c) ==
    /\ Inside(c, "run")
    /\ \/ Removed(c, NextStage(c, "baseline"))
       \/ Removed(c, IF calls[c].round < Rounds THEN Revised(c, {})
                                                ELSE [calls[c] EXCEPT !.pc = "record"])

Judged(c, visa) == [calls[c] EXCEPT !.pc = "decide", !.visa = visa]
VisaOf(c, status) == [status |-> status, cand |-> calls[c].cand, holdout |-> {}, evidence |-> <<>>]

\* the candidate must be green again, with coverage, before anything is deleted
BaselineEnds(c) ==
    /\ Inside(c, "baseline")
    /\ \/ Removed(c, Judged(c, VisaOf(c, "VISA_ERROR")))
       \/ /\ Len(enumerate_interventions(calls[c].cites)) < MinAdmitted
          /\ Removed(c, Judged(c, VisaOf(c, "WITHHELD_SMALL_CASE")))
       \/ /\ Len(enumerate_interventions(calls[c].cites)) >= MinAdmitted
          /\ Removed(c, NextStage(c, "generation"))

GenerationEnds(c) == Inside(c, "generation") /\ Removed(c, NextStage(c, "holdout"))

\* one deletion of the holdout stands for the best graded one
HoldoutEnds(c) ==
    LET holdout == Holdout(calls[c].cites)
        visa(status, evidence) == [VisaOf(c, status) EXCEPT !.holdout = holdout, !.evidence = evidence]
    IN  /\ Inside(c, "holdout")
        /\ \/ Removed(c, Judged(c, visa("WITHHELD_NO_HOLDOUT", <<>>)))
           \/ /\ holdout # {}
              /\ \E attempts \in Attempts, touching \in BOOLEAN :
                    LET grade == evaluate_intervention(attempts, touching) IN
                    /\ grade # "UNCOLLECTABLE"
                    /\ IF grade = "A" THEN Removed(c, Judged(c, visa("VERIFIED_EFFECTIVE", <<attempts, touching>>)))
                                      ELSE Removed(c, Judged(c, visa("PASSED_NOT_EFFECTIVE", <<>>)))

-----------------------------------------------------------------------------
(* What becomes of a green candidate.                                       *)

(* The revision request shows the generation deletions; had one of them     *)
(* been in this visa's holdout, the call would end here.                    *)
Leaks(c, prompt) == prompt \cap calls[c].visa.holdout # {}
RevisionPrompt(c) ==
    IF Leaks(c, Generation(calls[c].cites)) THEN {} ELSE Generation(calls[c].cites)

Passed(c) == [calls[c] EXCEPT !.pc = "record",
                              !.status = IF calls[c].round = 1 THEN "PASSED" ELSE "PASSED_WITH_REVISION"]

Decide(c) ==
    /\ calls[c].pc = "decide"
    /\ \/ Set(c, Passed(c))      \* revise_on_ineffective is off
       \/ /\ calls[c].visa.status = "PASSED_NOT_EFFECTIVE" /\ calls[c].round < Rounds
          /\ Set(c, Revised(c, RevisionPrompt(c)))
    /\ UNCHANGED <<world, lease, other, started, record, answers, left>>

(* The record carries the last candidate and the last visa there was.       *)
RecordOf(c) ==
    [status |-> IF calls[c].status = "" THEN "NEEDS_HUMAN" ELSE calls[c].status,
     cand |-> <<c, calls[c].cand>>, visa |-> <<c, calls[c].visa>>,
     effective |-> calls[c].visa.status = "VERIFIED_EFFECTIVE"]

Record(c) ==
    /\ calls[c].pc = "record" /\ record' = RecordOf(c)
    /\ Set(c, [calls[c] EXCEPT !.pc = "remember"])
    /\ UNCHANGED <<world, lease, other, started, answers, left>>

Remember(c) ==
    /\ calls[c].pc = "remember" /\ Leaves(c)
    /\ answers' = [k \in DOMAIN answers \cup {KeyOf[c]} |-> IF k = KeyOf[c] THEN RecordOf(c) ELSE answers[k]]
    /\ UNCHANGED <<world, lease, other, started, record, left>>

(* In finally: whoever of several calls is first removes the lease record   *)
(* all of them run under; a later one finds none, or another review's.      *)
Release(c) ==
    /\ calls[c].pc = "release"
    /\ lease' = IF calls[c].leased THEN "none" ELSE lease
    /\ calls' = [d \in Callers |-> IF d = c THEN Idle
                    ELSE IF Working(d) /\ calls[c].leased THEN [calls[d] EXCEPT !.leased = FALSE] ELSE calls[d]]
    /\ UNCHANGED <<world, other, started, record, answers, left>>

Next ==
    \/ \E shows, untracked \in BOOLEAN : Edit(shows, untracked)
    \/ Commit \/ OtherBegins \/ OtherEnds
    \/ \E c \in Callers :
          \/ Begin(c) \/ Acquire(c) \/ Ask(c) \/ isolated_worktree(c)
          \/ TouchedWhileInside(c) \/ RunRaises(c) \/ RunEnds(c) \/ BaselineEnds(c)
          \/ GenerationEnds(c) \/ HoldoutEnds(c) \/ Decide(c) \/ Record(c) \/ Remember(c) \/ Release(c)

Spec == Init /\ [][Next]_vars

-----------------------------------------------------------------------------
(* Properties.                                                              *)

Kept == {record} \cup {answers[k] : k \in DOMAIN answers}

\* A record that calls its test effective holds the very candidate whose visa it
\* is, and that candidate failed in both runs of one held-out deletion whose
\* lines it executes.
EffectiveIsEarned == \A r \in Kept : r.status # "none" /\ r.effective =>
    LET visa == r.visa[2] IN
    /\ r.cand = <<r.visa[1], visa.cand>> /\ r.status # "NEEDS_HUMAN"
    /\ visa.holdout # {} /\ visa.evidence[2]
    /\ \A j \in 1..2 : visa.evidence[1][j] = "failed"

\* As long as the model's proposals cite the same files, no request of the call
\* showed it a deletion its visa holds out.
HoldoutUnseenIfCitesKept == \A c \in Callers :
    Working(c) /\ calls[c].kept /\ calls[c].visa.status # "none" =>
        calls[c].visa.holdout \cap calls[c].shown = {}

VisaSound == EffectiveIsEarned /\ HoldoutUnseenIfCitesKept

\* A worktree is only ever left behind when the user's git status changed.
WorktreesRemoved == left => upsets > 0

\* While a call that had the review's lease to itself is running, no other
\* review's operation runs on the repository.
RepositoryAlone == other => \A c \in Callers : Working(c) => ~calls[c].alone
RepositoryKept == WorktreesRemoved /\ RepositoryAlone
=============================================================================
