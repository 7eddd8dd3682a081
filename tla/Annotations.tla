---------------------------- MODULE Annotations ----------------------------
(***************************************************************************)
(* Human annotations of a finished review (modou/server/control.py and     *)
(* reverification.py): comments anchored in the reviewed source, and       *)
(* re-verifications of the machine claim a comment challenges.             *)
(*                                                                         *)
(* A record is one file per comment or re-verification, written whole.     *)
(* Every change is also an event appended to one hash chain that is read   *)
(* back and verified first.  Writes are made under the manager's lock, one *)
(* after the other: todo is what the holder of the lock has still to       *)
(* write, and a death of the server leaves the rest of it undone, or half  *)
(* a line in the chain.                                                    *)
(*                                                                         *)
(* The order of the chain is kept per subject.  A remembered idempotency   *)
(* key only makes a request do nothing, and is left out; so is a comment   *)
(* bound to no claim, which cannot be challenged.                          *)
(***************************************************************************)
EXTENDS Naturals, Sequences, FiniteSets

CONSTANTS
    Claims,       \* the review's machine claims
    Experiments,  \* those with a complete experiment in the ledger
    Protected,    \* the claim that the n-th re-verification may add
    Grade,        \* what the report grades a claim: 1 (A) .. 4 (D), 0 unknown
    KReruns,      \* K_RERUNS
    Reasons,      \* bound: reasons the n-th challenge may give
    MaxComments,  \* bound: comments
    MaxRevision,  \* bound: revisions of a comment
    MaxRequests,  \* bound: re-verifications
    MaxSubjects,  \* bound: comments and re-verifications together
    MaxCrashes    \* bound: deaths of the server

AllReasons == {"flaky", "source", "coverage", "collection", "scope", "visa", "other"}

ASSUME AnnotationsAssumption ==
    /\ Experiments \subseteq Claims
    /\ DOMAIN Protected = 1..MaxRequests /\ \A n \in 1..MaxRequests : Protected[n] \notin Claims
    /\ Grade \in [Claims -> 0..4] /\ Reasons \in [1..MaxRequests -> SUBSET AllReasons]
    /\ KReruns \in Nat \ {0} /\ {MaxComments, MaxRevision, MaxRequests, MaxSubjects, MaxCrashes} \subseteq Nat

VARIABLES
    comment,   \* comment records, by number
    rvf,       \* re-verification records, by number
    chain,     \* the chain's events about each comment and re-verification
    torn,      \* the chain ends in half a line
    todo,      \* what the holder of the manager's lock has still to write
    runner,    \* the threads that replay, by re-verification
    lister,    \* the thread that lists the comments
    source,    \* the worktree: "reviewed" or "edited"
    crashes,
    witnessed  \* history: what every replay of a re-verification observed

vars == <<comment, rvf, chain, torn, todo, runner, lister, source, crashes, witnessed>>

Comments == 1..MaxComments
Requests == 1..MaxRequests
Subjects == ({"comment"} \X Comments) \cup ({"rvf"} \X Requests)

NoComment == [status |-> "absent", rev |-> 0, claim |-> "none", supersedes |-> 0, by |-> 0]
NoRequest == [status |-> "absent", claim |-> "none", reason |-> "other",
              outcome |-> "none", crev |-> 0, grade |-> 0]
NoRunner == [at |-> "none", reports |-> <<>>]
NoLister == [at |-> "idle", records |-> [c \in {} |-> NoComment], left |-> {}]

Init ==
    /\ comment = [c \in Comments |-> NoComment] /\ rvf = [r \in Requests |-> NoRequest]
    /\ chain = [s \in Subjects |-> <<>>] /\ torn = FALSE /\ todo = <<>>
    /\ runner = [r \in Requests |-> NoRunner] /\ lister = NoLister
    /\ source = "reviewed" /\ crashes = 0 /\ witnessed = [r \in Requests |-> <<>>]

-----------------------------------------------------------------------------
(* The lock and the writes under it.                                       *)

Unlocked == todo = <<>>
Begin(writes) == Unlocked /\ todo' = writes
Comment(c, rec) == [w |-> "comment", id |-> c, rec |-> rec]
Request(r, rec) == [w |-> "rvf", id |-> r, rec |-> rec]
Event(s, e) == [w |-> "event", id |-> s, rec |-> e]
Thread(r, place) == [w |-> "thread", id |-> r, rec |-> place]
Listed == [w |-> "listed", id |-> 0, rec |-> 0]
Pending(w) == todo # <<>> /\ Head(todo).w = w
Records == <<comment, rvf>>

WriteComment ==
    /\ Pending("comment")
    /\ comment' = [comment EXCEPT ![Head(todo).id] = Head(todo).rec] /\ todo' = Tail(todo)
    /\ UNCHANGED <<rvf, chain, torn, runner, lister, source, crashes, witnessed>>

WriteRequest ==
    /\ Pending("rvf")
    /\ rvf' = [rvf EXCEPT ![Head(todo).id] = Head(todo).rec] /\ todo' = Tail(todo)
    /\ UNCHANGED <<comment, chain, torn, runner, lister, source, crashes, witnessed>>

(* _append_annotation_event: the whole chain is verified before.           *)
AppendEvent ==
    /\ Pending("event") /\ ~torn
    /\ chain' = [chain EXCEPT ![Head(todo).id] = Append(@, Head(todo).rec)]
    /\ todo' = Tail(todo)
    /\ UNCHANGED <<Records, torn, runner, lister, source, crashes, witnessed>>

ChainInvalid ==
    /\ Pending("event") /\ torn
    /\ todo' = <<>>
    /\ lister' = IF lister.at = "mark" THEN NoLister ELSE lister
    /\ UNCHANGED <<Records, chain, torn, runner, source, crashes, witnessed>>

(* The lock is left and the thread goes on.                                *)
Unlock ==
    /\ \/ /\ Pending("thread")
          /\ runner' = [runner EXCEPT ![Head(todo).id].at = Head(todo).rec] /\ UNCHANGED lister
       \/ /\ Pending("listed")
          /\ lister' = [lister EXCEPT !.at = "scan"] /\ UNCHANGED runner
    /\ todo' = Tail(todo)
    /\ UNCHANGED <<Records, chain, torn, source, crashes, witnessed>>

(* A death of the server with something to lose.                           *)
Crash ==
    /\ todo # <<>> \/ \E r \in Requests : runner[r].at # "none"
    /\ crashes < MaxCrashes /\ crashes' = crashes + 1
    /\ torn' \in {torn} \cup (IF Pending("event") THEN {TRUE} ELSE {})
    /\ todo' = <<>> /\ runner' = [r \in Requests |-> NoRunner] /\ lister' = NoLister
    /\ UNCHANGED <<Records, chain, source, witnessed>>

(* Somebody edits the annotated file.                                      *)
EditSource ==
    /\ source = "reviewed" /\ source' = "edited"
    /\ UNCHANGED <<Records, chain, torn, todo, runner, lister, crashes, witnessed>>

Quiet == UNCHANGED <<Records, chain, torn, runner, lister, source, crashes, witnessed>>

-----------------------------------------------------------------------------
(* Comments.                                                               *)

Exists(c) == comment[c].status # "absent"
Requested(r) == rvf[r].status # "absent"
NextComment == 1 + Cardinality({c \in Comments : Exists(c)})
NextRequest == 1 + Cardinality({r \in Requests : Requested(r)})
Room == NextComment + NextRequest < MaxSubjects + 2
Revised(rec) == [rec EXCEPT !.rev = @ + 1]

(* _create_comment_record                                                  *)
Created(claim, supersedes) ==
    <<Comment(NextComment, [status |-> "open", rev |-> 1, claim |-> claim,
                            supersedes |-> supersedes, by |-> 0]),
      Event(<<"comment", NextComment>>, [kind |-> "created"])>>

(* _review_claim_surface: what the review says, and the claims that its    *)
(* settled re-verifications added.                                         *)
ClaimSurface ==
    Claims \cup {Protected[r] : r \in {q \in Requests : rvf[q].reason = "visa" /\ rvf[q].outcome = "confirmed"}}

(* _build_comment_anchor: an anchor is taken in the reviewed source only.  *)
Anchored == source = "reviewed"

CreateComment(claim) ==
    /\ Room /\ NextComment \in Comments /\ claim \in ClaimSurface /\ Anchored
    /\ Begin(Created(claim, 0))
    /\ Quiet

(* A reply takes the anchor of its parent and does not look at the source. *)
ReplyComment(parent) ==
    /\ Room /\ NextComment \in Comments
    /\ comment[parent].status \notin {"absent", "withdrawn"}
    /\ Begin(Created(comment[parent].claim, 0))
    /\ Quiet

Transitions == [absent |-> {}, open |-> {"resolved", "withdrawn"}, resolved |-> {"open"},
                outdated |-> {"resolved", "withdrawn"}, withdrawn |-> {}]

(* The caller names the revision it saw; another one is refused.           *)
UpdateComment(c, status) ==
    /\ status \in Transitions[comment[c].status] /\ comment[c].rev < MaxRevision
    /\ Begin(<<Comment(c, Revised([comment[c] EXCEPT !.status = status])),
               Event(<<"comment", c>>, [kind |-> status])>>)
    /\ Quiet

(* The replacement and its event first, then the link of the old record.   *)
ReanchorComment(c) ==
    /\ Exists(c) /\ Room /\ NextComment \in Comments /\ Anchored
    /\ comment[c].rev < MaxRevision
    /\ Begin(Created(comment[c].claim, c)
             \o <<Comment(c, Revised([comment[c] EXCEPT !.by = NextComment])),
                  Event(<<"comment", c>>, [kind |-> "superseded"])>>)
    /\ Quiet

(* list_comments reads the records without the lock, looks at the file of  *)
(* the open ones, and takes the lock for each that is left behind.         *)
ListComments ==
    /\ lister.at = "idle"
    /\ LET open == {c \in Comments : comment[c].status = "open"}
       IN  lister' = [at |-> "look", records |-> [c \in open |-> comment[c]], left |-> open]
    /\ UNCHANGED <<Records, chain, torn, todo, runner, source, crashes, witnessed>>

LookAtFile ==
    /\ lister.at = "look"
    /\ lister' = IF source = "reviewed" \/ lister.left = {} THEN NoLister
                 ELSE [lister EXCEPT !.at = "scan"]
    /\ UNCHANGED <<Records, chain, torn, todo, runner, source, crashes, witnessed>>

(* _mark_comment_outdated                                                  *)
MarkOutdated(c) ==
    /\ lister.at = "scan" /\ c \in lister.left
    /\ \A d \in lister.left : c <= d
    /\ lister' = [lister EXCEPT !.at = "mark", !.left = @ \ {c}]
    /\ Begin(<<Comment(c, Revised([lister.records[c] EXCEPT !.status = "outdated"])),
               Event(<<"comment", c>>, [kind |-> "outdated"]), Listed>>)
    /\ UNCHANGED <<Records, chain, torn, runner, source, crashes, witnessed>>

ListDone ==
    /\ lister.at = "scan" /\ lister.left = {}
    /\ lister' = NoLister
    /\ UNCHANGED <<Records, chain, torn, todo, runner, source, crashes, witnessed>>

-----------------------------------------------------------------------------
(* Re-verification: requested, approved or rejected by a person.           *)

(* _claim_replayable_experiments: a claim that the ledger or the report    *)
(* traces to a complete experiment with an intervention.                   *)
Replayable(claim) == claim \in Experiments

RequestReverification(c, reason) ==
    /\ Room /\ NextRequest \in Requests /\ reason \in Reasons[NextRequest]
    /\ Exists(c) /\ Replayable(comment[c].claim)
    /\ Begin(<<Request(NextRequest, [status |-> "planned", claim |-> comment[c].claim, reason |-> reason,
                                     outcome |-> "none", crev |-> 0, grade |-> 0]),
               Event(<<"rvf", NextRequest>>, [kind |-> "challenged"]),
               Event(<<"rvf", NextRequest>>, [kind |-> "requested"])>>)
    /\ Quiet

Approval(r) ==
    <<Event(<<"rvf", r>>, [kind |-> "approved"]),
      Request(r, [rvf[r] EXCEPT !.status = "approved"]), Thread(r, "start")>>

(* The chain says that a person confirmed before the record does.          *)
ApproveReverification(r) ==
    /\ rvf[r].status = "planned"
    /\ Begin(Approval(r)) /\ Quiet

Largest(S) == CHOOSE x \in S : \A y \in S : y <= x

(* _next_claim_revision: one more than any record of the claim.            *)
NextRevision(claim) ==
    1 + Largest({1} \cup {rvf[r].crev : r \in {q \in Requests : rvf[q].claim = claim}})

Outcome(r, rec) ==
    Event(<<"rvf", r>>, [kind |-> rec.outcome, claim |-> rec.claim, crev |-> rec.crev])

RejectReverification(r) ==
    /\ rvf[r].status = "planned"
    /\ LET rec == [rvf[r] EXCEPT !.status = "rejected", !.outcome = "withheld",
                                 !.crev = NextRevision(rvf[r].claim)]
       IN  Begin(<<Request(r, rec), Outcome(r, rec)>>)
    /\ Quiet

-----------------------------------------------------------------------------
(* Strategies (reverification.py): what a replay may report, and what the  *)
(* reports of a re-verification settle.                                    *)

Runs(reason) == CASE reason = "flaky" -> KReruns [] reason = "other" -> 0 [] OTHER -> 1

(* What the methods of _ReplayStrategyContext give back: the vector of the *)
(* replay, the lines the failing tests executed, whether the collection    *)
(* survives the intervention, and so on.                                   *)
ReplayOnce == {"same", "different", "not restored"}
CoverageContexts == {"unavailable", "executed", "not executed"}
CollectOnly == {"unsupported", "both collect", "intervened crashes", "baseline crashes"}
WidenDeclaredScope == {"capped", "reproduced", "not reproduced"}
SubmitTestForVisa == {"effective", "not effective"}

Reports(reason) ==
    CASE reason = "flaky" -> ReplayOnce
      [] reason = "coverage" -> CoverageContexts
      [] reason = "collection" -> CollectOnly
      [] reason = "scope" -> WidenDeclaredScope
      [] reason = "visa" -> SubmitTestForVisa
      [] OTHER -> {}

(* ensure_no_promotion, with an unknown grade taken as the ceiling.        *)
EnsureNoPromotion(original, new) ==
    IF original \in 1..4 /\ new < original THEN original ELSE new

Verdict(all) ==
    IF "not restored" \in all THEN "withheld" ELSE IF "different" \in all THEN "revised" ELSE "confirmed"

SettleFromLastRun(reports) == Verdict({reports[Len(reports)]})

(* _settle_from_replay                                                     *)
SettleFromReplay(reports) == Verdict({reports[i] : i \in DOMAIN reports})

(* The other strategies, on the one report they have: the outcome and the  *)
(* grade of the evidence they add (0: none).                               *)
Graded(claim, grade) == EnsureNoPromotion(Grade[claim], grade)

CoverageCheck(claim, report) ==
    CASE report = "executed" -> <<"confirmed", Graded(claim, 1)>>
      [] report = "not executed" -> <<"revised", Graded(claim, 2)>>
      [] OTHER -> <<"withheld", 0>>

CollectionCheck(claim, report) ==
    CASE report = "both collect" -> <<"confirmed", Graded(claim, 1)>>
      [] report = "intervened crashes" -> <<"revised", Graded(claim, 3)>>
      [] OTHER -> <<"withheld", 0>>

SourceChanged(report) == <<IF report = "same source" THEN "confirmed" ELSE "withheld", 0>>
ScopeWiden(report) == <<IF report = "reproduced" THEN "confirmed" ELSE "withheld", 0>>
TestVisa(report) == <<IF report = "effective" THEN "confirmed" ELSE "withheld", 0>>
HumanRouting == <<"withheld", 0>>

Failed(reports) == \E i \in DOMAIN reports : reports[i] = "error"

(* STRATEGIES                                                              *)
Judged(reason, claim, reports) ==
    IF Failed(reports) THEN <<"withheld", 0>>
    ELSE CASE reason = "flaky" -> <<SettleFromReplay(reports), 0>>
           [] reason = "coverage" -> CoverageCheck(claim, reports[1])
           [] reason = "collection" -> CollectionCheck(claim, reports[1])
           [] reason = "source" -> SourceChanged(reports[1])
           [] reason = "scope" -> ScopeWiden(reports[1])
           [] reason = "visa" -> TestVisa(reports[1])
           [] OTHER -> HumanRouting

-----------------------------------------------------------------------------
(* The thread of the approving request runs the strategy without the lock. *)

Move(r, place) == runner' = [runner EXCEPT ![r].at = place]
Report(r, report) ==
    LET reports == Append(runner[r].reports, report)
        more == report # "error" /\ Len(reports) < Runs(rvf[r].reason)
    IN  runner' = [runner EXCEPT ![r] = [at |-> IF more THEN "check" ELSE "settle",
                                         reports |-> reports]]

RunBegins(r) ==
    /\ runner[r].at = "start"
    /\ Move(r, "wait")
    /\ IF rvf[r].status \in {"approved", "replaying"}
       THEN Begin(<<Request(r, [rvf[r] EXCEPT !.status = "replaying"]),
                    Thread(r, IF rvf[r].reason = "other" THEN "settle" ELSE "check")>>)
       ELSE Begin(<<Thread(r, "none")>>)
    /\ UNCHANGED <<Records, chain, torn, lister, source, crashes, witnessed>>

(* Every strategy that experiments compares the source with the reviewed   *)
(* one first (_source_context), for each run again.                        *)
CheckSource(r) ==
    /\ runner[r].at = "check"
    /\ \/ /\ rvf[r].reason = "source"
          /\ Report(r, IF source = "reviewed" THEN "same source" ELSE "other source")
       \/ rvf[r].reason # "source" /\ source = "reviewed" /\ Move(r, "replay")
       \/ rvf[r].reason # "source" /\ source # "reviewed" /\ Report(r, "error")
    /\ UNCHANGED <<Records, chain, torn, todo, lister, source, crashes, witnessed>>

(* The vectors of the experiment come from the ledger: a Fact that is gone *)
(* or not written in the closed set of statuses raises, and never compares *)
(* as different.                                                           *)
Unreadable == {"error"}

(* Intervention, observation and restoration in a worktree of its own; a   *)
(* deadline, an environment or a restoration may fail.                     *)
Replay(r) ==
    /\ runner[r].at = "replay"
    /\ \E report \in Reports(rvf[r].reason) \cup Unreadable :
          Report(r, report) /\ witnessed' = [witnessed EXCEPT ![r] = Append(@, report)]
    /\ UNCHANGED <<Records, chain, torn, todo, lister, source, crashes>>

Settlement(r) ==
    LET rec == rvf[r]
        judged == Judged(rec.reason, rec.claim, runner[r].reports)
    IN  [rec EXCEPT !.status = IF Failed(runner[r].reports) THEN "failed" ELSE "settled", !.outcome = judged[1],
                    !.grade = judged[2], !.crev = NextRevision(rec.claim)]

ProtectedClaim(r, rec) ==
    IF rec.reason = "visa" /\ rec.outcome = "confirmed"
    THEN <<Event(<<"rvf", r>>, [kind |-> "protected"])>> ELSE <<>>

Replayed(r, rec) ==
    IF rec.reason = "flaky" /\ rec.status = "settled"
    THEN [i \in 1..KReruns |-> Event(<<"rvf", r>>, [kind |-> "replayed"])] ELSE <<>>

SettleRecordFirst(r) ==
    /\ runner[r].at = "settle"
    /\ LET rec == Settlement(r)
       IN  Begin(<<Request(r, rec)>> \o Replayed(r, rec) \o <<Outcome(r, rec)>> \o ProtectedClaim(r, rec))
    /\ runner' = [runner EXCEPT ![r] = NoRunner]
    /\ UNCHANGED <<Records, chain, torn, lister, source, crashes, witnessed>>

(* The events of the settlement, then the record.                          *)
Settle(r) ==
    /\ runner[r].at = "settle"
    /\ LET rec == Settlement(r)
       IN  Begin(Replayed(r, rec) \o <<Outcome(r, rec)>> \o ProtectedClaim(r, rec) \o <<Request(r, rec)>>)
    /\ runner' = [runner EXCEPT ![r] = NoRunner]
    /\ UNCHANGED <<Records, chain, torn, lister, source, crashes, witnessed>>

-----------------------------------------------------------------------------

Commenting ==
    \/ \E claim \in Claims \cup {Protected[r] : r \in Requests} : CreateComment(claim)
    \/ \E c \in Comments : ReplyComment(c)
    \/ \E c \in Comments, status \in {"open", "resolved", "withdrawn"} : UpdateComment(c, status)
    \/ \E c \in Comments : ReanchorComment(c)

Listing == ListComments \/ LookAtFile \/ (\E c \in Comments : MarkOutdated(c)) \/ ListDone

Reverifying ==
    \/ \E c \in Comments, reason \in AllReasons : RequestReverification(c, reason)
    \/ \E r \in Requests : ApproveReverification(r) \/ RejectReverification(r)
    \/ \E r \in Requests : RunBegins(r) \/ CheckSource(r) \/ Replay(r) \/ Settle(r)

Writing == WriteComment \/ WriteRequest \/ AppendEvent \/ ChainInvalid \/ Unlock

Next == Commenting \/ Listing \/ Reverifying \/ Writing \/ EditSource \/ Crash

Spec == Init /\ [][Next]_vars

-----------------------------------------------------------------------------
(* Properties.                                                             *)

Said(r, kind) == {i \in DOMAIN chain[<<"rvf", r>>] : chain[<<"rvf", r>>][i].kind = kind}

(* No experiment is run again before the chain holds the confirmation of a *)
(* person, and it is run once however often approval is asked for, before  *)
(* and after a death of the server (approve_reverification: "without this  *)
(* confirmation no experiment should be executed again").                  *)
ReplayedOnceConfirmed ==
    \A r \in Requests :
        witnessed[r] # <<>> => Said(r, "approved") # {} /\ Len(witnessed[r]) <= Runs(rvf[r].reason)

(* A claim that a replay judged is judged the same on the chain, after the *)
(* confirmation, whatever died between two writes: the record never says   *)
(* more than the chain (_run_reverification_locked).                       *)
JudgementOnChain ==
    \A r \in Requests : rvf[r].status \in {"settled", "failed"} =>
        \E i \in Said(r, rvf[r].outcome) :
            /\ chain[<<"rvf", r>>][i].crev = rvf[r].crev
            /\ \E j \in Said(r, "approved") : j < i

(* Two judgements of a claim never have the same revision: an old one is   *)
(* followed, never overwritten (_next_claim_revision), however the replays *)
(* and rejections of the claim overlap.                                    *)
JudgementsDistinct ==
    \A r, q \in Requests :
        r # q /\ rvf[r].claim = rvf[q].claim /\ rvf[r].crev > 0 => rvf[r].crev # rvf[q].crev

(* A challenge of a flaky result ends confirmed only when every rerun was  *)
(* restored and observed the original vector, and revised only when every  *)
(* rerun was restored (_settle_from_replay: "uncertainty can only lower").  *)
UncertaintyWithholds ==
    \A r \in Requests : rvf[r].reason = "flaky" =>
        /\ rvf[r].outcome \in {"confirmed", "revised"} =>
              Len(witnessed[r]) = KReruns /\ \A i \in DOMAIN witnessed[r] : witnessed[r][i] \in {"same", "different"}
        /\ rvf[r].outcome = "confirmed" => \A i \in DOMAIN witnessed[r] : witnessed[r][i] = "same"

(* No strategy grades its evidence above the grade the review gave the     *)
(* claim (ensure_no_promotion).                                            *)
NeverPromoted ==
    \A r \in Requests : rvf[r].grade > 0 => rvf[r].grade >= Grade[rvf[r].claim]

(* A comment that was superseded names a comment that supersedes it, after *)
(* any death of the server between the two records (_reanchor_comment).    *)
LinksAreMutual ==
    \A c \in Comments : comment[c].by # 0 => comment[comment[c].by].supersedes = c

(* Judgements of a claim are asked for, numbered and graded as the chain   *)
(* allows; and the records agree with the chain and with one another.      *)
JudgementSound ==
    ReplayedOnceConfirmed /\ JudgementsDistinct /\ UncertaintyWithholds /\ NeverPromoted
RecordsAgree == JudgementOnChain /\ LinksAreMutual
=============================================================================
