---------------------------- MODULE JudgementProofs ----------------------------
(***************************************************************************)
(* The judgements that others rely on, and what each rests on: the clean   *)
(* verdict of the rule protection on a candidate's tests (RuleProtection), *)
(* what a re-verification settles about a claim that a person's comment    *)
(* challenges (Annotations), the visa of a proposed test (TestProposal,    *)
(* under the names of Proposals), the certificate of delta debugging       *)
(* (DeltaDebug), the verdicts of an analysis session (EvidenceSession) and *)
(* where a target goes when its file was rewritten (TargetMapping, under   *)
(* the names of Targets).                                                  *)
(*                                                                         *)
(* Of Annotations, the comments have an inductive invariant of their own   *)
(* (CommentsIInv), which the re-verifications do not need; theirs          *)
(* (RequestsIInv) says what every status of a record and every place of a  *)
(* thread stand for, and that each of the writes which the holder of the   *)
(* lock has not made yet will find what it needs.                          *)
(*                                                                         *)
(* Of EvidenceSession, the worktrees and the source they hold need only    *)
(* TreeInv. The verdicts need EvidenceIInv: what the search has settled,   *)
(* what it has still to try, and which trial of the ledger each of them    *)
(* rests on.                                                               *)
(*                                                                         *)
(* Of TargetMapping, the count of a file's lines up to a position of the   *)
(* diff carries the proof: the headers of the hunks are counts, the hunks  *)
(* are the largest runs of what is shown, and what they add up to before a *)
(* line is the difference of two counts (Gain).                            *)
(***************************************************************************)
EXTENDS RuleProtection, Annotations, Proposals, DeltaDebug, EvidenceSession, Targets,
        SequenceTheorems, FiniteSetTheorems, WellFoundedInduction, TLAPS

-----------------------------------------------------------------------------
(* The rule protection.                                                    *)

(* What the two runs are runs of, and what a verdict was reached from.     *)
RunsAreOf ==
    /\ baseRun # NoRun => base \in Suites /\ Run(base, baseRun)
    /\ verdict = "clean" =>
          /\ baseRun # NoRun /\ cand \in Suites /\ Run(cand, candRun)
          /\ Judgement(base, cand, FALSE, baseRun, candRun) = "clean"

-----------------------------------------------------------------------------
(* An id a run collected is a case of a test in a file that parses.        *)
LEMMA Collects ==
    ASSUME NEW s \in Suites, NEW run, Run(s, run), NEW id \in DOMAIN run.outcome
    PROVE  /\ id[1] \in Modules /\ id[2] \in Names
           /\ s[id[1]].parses /\ Has(s, id[1], id[2])
<1>1. PICK fails \in SUBSET {f \in Modules : MayBeLost(s, f)} :
        \E outcome \in [Ids(s, fails \cup Broken(s)) -> {"pass", "failure", "skipped"}] :
            run = [outcome |-> outcome,
                   errors |-> fails \cup Broken(s) # {} \/ Ids(s, fails \cup Broken(s)) = {}]
  BY DEF Run
<1>2. DOMAIN run.outcome = Ids(s, fails \cup Broken(s))
  BY <1>1
<1>3. PICK f \in Modules \ (fails \cup Broken(s)), name \in Names :
        id \in {<<f, name, k>> : k \in Cases(s[f].tests[name])}
  BY <1>2 DEF Ids
<1>4. PICK k \in Cases(s[f].tests[name]) : id = <<f, name, k>>
  BY <1>3
<1>5. id[1] = f /\ id[2] = name
  BY <1>4
<1>6. s[f].tests[name].cases \in Nat
  BY <1>3, SuitesAssumption DEF Items, Test
<1>7. s[f].tests[name].cases > 0
  BY <1>4, <1>6 DEF Cases
<1>8. s[f].parses
  BY <1>3 DEF Broken
<1> QED
  BY <1>3, <1>5, <1>7, <1>8 DEF Has

(* In a file both sides of which could be read, a test that is in both     *)
(* keeps its assertions, unless the comparison said something.             *)
LEMMA ReadableKeeps ==
    ASSUME NEW b \in Suites, NEW c \in Suites,
           NEW f \in Modules, f \in Readable(b, c), NEW name \in Names, Both(b, c, f, name),
           ~SourceBlocks(b, c), ~SourceSuspect(b, c),
           NEW i \in 1..Len(Asserts(b, f, name)), Real(Asserts(b, f, name)[i])
    PROVE  /\ i <= Len(Asserts(c, f, name)) /\ Real(Asserts(c, f, name)[i])
           /\ Asserts(b, f, name)[i] = "strict" => Asserts(c, f, name)[i] = "strict"
<1>1. name \in Items
  BY DEF Items
<1>2. /\ Asserts(b, f, name) \in Seq({"strict", "lax", "true"})
      /\ Asserts(c, f, name) \in Seq({"strict", "lax", "true"})
  BY <1>1, SuitesAssumption DEF Test, Asserts
<1>3. ~Tautology(b, c, f, name) /\ ~AssertRemoved(b, c, f, name) /\ ~Relaxed(b, c, f, name)
  BY <1>1 DEF SourceBlocks, SourceSuspect, Weakened
<1>4. Len(Asserts(c, f, name)) >= Len(Asserts(b, f, name))
  BY <1>2, <1>3 DEF AssertRemoved
<1>5. i \in 1..Len(Asserts(c, f, name))
  BY <1>2, <1>4
<1>6. Asserts(c, f, name)[i] # "true"
  BY <1>3, <1>5 DEF Tautology, Both, Real
<1>7. Asserts(c, f, name)[i] \in {"strict", "lax"}
  BY <1>2, <1>5, <1>6
<1>8. ~(Asserts(b, f, name)[i] = "strict" /\ Asserts(c, f, name)[i] = "lax")
  BY <1>3, <1>5 DEF Relaxed
<1> QED
  BY <1>5, <1>7, <1>8 DEF Real

(* A skip mark is only added where the comparison says so.                 *)
LEMMA NoSkipAdded ==
    ASSUME NEW b, NEW c, NEW f, f \in Readable(b, c), NEW name \in Names, Both(b, c, f, name),
           ~SourceBlocks(b, c), Skipped(c, f, name)
    PROVE  Skipped(b, f, name)
  BY DEF SourceBlocks, Weakened, SkipAdded, Items

(* What a clean judgement says of the runs and of the sources.             *)
LEMMA CleanMeans ==
    ASSUME NEW b, NEW c, NEW t \in BOOLEAN, NEW br, NEW cr,
           Judgement(b, c, t, br, cr) = "clean"
    PROVE  /\ With(br, "pass") \subseteq With(cr, "pass")
           /\ ~SourceBlocks(b, c) /\ ~SourceSuspect(b, c) /\ t = FALSE
  BY DEF Judgement, RunBlocks

(* A clean judgement about two runs of two suites is sound.                *)
LEMMA CleanIsSound ==
    ASSUME RunsAreOf PROVE PassedStaysTested
<1> SUFFICES ASSUME verdict = "clean", NEW id \in With(baseRun, "pass")
             PROVE  LET f == id[1]  name == id[2]
                    IN  /\ id \in With(candRun, "pass")
                        /\ Skipped(cand, f, name) => Skipped(base, f, name)
                        /\ \A i \in 1..Len(Asserts(base, f, name)) :
                              Real(Asserts(base, f, name)[i]) =>
                                  /\ i <= Len(Asserts(cand, f, name))
                                  /\ Real(Asserts(cand, f, name)[i])
                                  /\ Asserts(base, f, name)[i] = "strict" =>
                                        Asserts(cand, f, name)[i] = "strict"
  BY DEF PassedStaysTested
<1> DEFINE f == id[1]
           name == id[2]
<1>1. /\ base \in Suites /\ Run(base, baseRun) /\ cand \in Suites /\ Run(cand, candRun)
      /\ Judgement(base, cand, FALSE, baseRun, candRun) = "clean"
  BY DEF RunsAreOf
<1>2. id \in With(candRun, "pass") /\ ~SourceBlocks(base, cand) /\ ~SourceSuspect(base, cand)
  BY <1>1, CleanMeans
<1>3. /\ f \in Modules /\ name \in Names
      /\ base[f].parses /\ Has(base, f, name) /\ cand[f].parses /\ Has(cand, f, name)
  BY <1>1, <1>2, Collects DEF With
<1>4. CASE base[f] = cand[f]
  <2>1. name \in Items
    BY <1>3 DEF Items
  <2>2. Asserts(base, f, name) \in Seq({"strict", "lax", "true"})
    BY <1>1, <1>3, <2>1, SuitesAssumption DEF Test, Asserts
  <2> QED
    BY <1>2, <1>4, <2>2 DEF Asserts, Skipped
<1>5. CASE base[f] # cand[f]
  <2>1. f \in Readable(base, cand) /\ Both(base, cand, f, name)
    BY <1>3, <1>5 DEF Readable, Changed, Both
  <2> QED
    BY <1>1, <1>2, <1>3, <2>1, ReadableKeeps, NoSkipAdded
<1> QED
  BY <1>4, <1>5

-----------------------------------------------------------------------------
(* What a verdict was reached from stays what it was reached from.         *)
THEOREM Invariance == RPSpec => []RunsAreOf
<1>1. RPInit => RunsAreOf
  BY DEF RPInit, RunsAreOf
<1>2. ASSUME RunsAreOf, [RPNext]_rpvars PROVE RunsAreOf'
  <2>1. CASE Baseline
    BY <1>2, <2>1 DEF Baseline, RunsAreOf
  <2>2. ASSUME NEW config \in BOOLEAN, Candidate(config) PROVE RunsAreOf'
    <3>1. UNCHANGED <<base, baseRun>> /\ cand' \in Suites /\ Run(cand', candRun')
      BY <2>2 DEF Candidate
    <3>3. baseRun # NoRun /\ base \in Suites /\ Run(base, baseRun)
      BY <1>2, <2>2 DEF Candidate, RunsAreOf
    <3>4. baseRun' # NoRun /\ base' \in Suites /\ Run(base', baseRun')
      BY <3>1, <3>3
    <3>2. ASSUME verdict' = "clean"
          PROVE  Judgement(base', cand', FALSE, baseRun', candRun') = "clean"
      <4>1. Judgement(base', cand', config, baseRun', candRun') = "clean"
        BY <2>2, <3>2 DEF Candidate
      <4>2. config = FALSE
        BY <4>1, CleanMeans
      <4> QED
        BY <4>1, <4>2
    <3> QED
      BY <3>1, <3>2, <3>4 DEF RunsAreOf
  <2>3. CASE UNCHANGED rpvars
    BY <1>2, <2>3 DEF rpvars, RunsAreOf
  <2> QED
    BY <1>2, <2>1, <2>2, <2>3 DEF RPNext
<1> QED
  BY <1>1, <1>2, PTL DEF RPSpec

(* A clean verdict is sound: every test that passed still passes, under no *)
(* new skip mark, and what its assertions checked they still check.        *)
THEOREM CleanVerdictIsSound == RPSpec => []PassedStaysTested
  BY Invariance, CleanIsSound, PTL


-----------------------------------------------------------------------------
(* Human annotations: types.                                               *)

AllClaims == Claims \cup {Protected[num] : num \in Requests} \cup {"none"}
CommentRecord ==
    [status : {"absent", "open", "resolved", "outdated", "withdrawn"}, rev : Nat, claim : AllClaims,
     supersedes : 0..MaxComments, by : 0..MaxComments]
RequestRecord ==
    [status : {"absent", "planned", "approved", "replaying", "rejected", "settled", "failed"},
     claim : AllClaims, reason : AllReasons, outcome : {"none", "confirmed", "revised", "withheld"},
     crev : Nat, grade : Nat]
Kinds ==
    {"created", "open", "resolved", "outdated", "withdrawn", "superseded", "challenged", "requested",
     "approved", "replayed", "none", "confirmed", "revised", "withheld", "protected"}
EventRecord == [kind : Kinds] \cup [kind : Kinds, claim : AllClaims, crev : Nat]
Places == {"none", "start", "wait", "check", "replay", "settle"}
Reported == (UNION {Reports(reason) : reason \in AllReasons}) \cup {"error", "same source", "other source"}

Writes ==
    [w : {"comment"}, id : Comments, rec : CommentRecord]
        \cup [w : {"rvf"}, id : Requests, rec : RequestRecord]
        \cup [w : {"event"}, id : Subjects, rec : EventRecord]
        \cup [w : {"thread"}, id : Requests, rec : Places] \cup {Listed}

Listings ==
    [at : {"idle", "look", "scan", "mark"}, records : UNION {[S -> CommentRecord] : S \in SUBSET Comments},
     left : SUBSET Comments]

(* Types.  Only finitely many revisions are in use.                        *)
AnnotationsTypeOK ==
    /\ comment \in [Comments -> CommentRecord] /\ rvf \in [Requests -> RequestRecord]
    /\ chain \in [Subjects -> Seq(EventRecord)] /\ torn \in BOOLEAN /\ todo \in Seq(Writes)
    /\ runner \in [Requests -> [at : Places, reports : Seq(Reported)]]
    /\ lister \in Listings /\ lister.left \subseteq DOMAIN lister.records
    /\ witnessed \in [Requests -> Seq(Reported)]
    /\ \E bound \in Nat : \A r \in Requests : rvf[r].crev <= bound

-----------------------------------------------------------------------------
(* Records, counters and the list of writes.                               *)

LEMMA NaturalBounds ==
    /\ MaxComments \in Nat /\ MaxRequests \in Nat /\ KReruns \in Nat /\ KReruns > 0
    /\ Experiments \subseteq Claims
  BY AnnotationsAssumption

LEMMA LeastNumber ==
    ASSUME NEW T \in SUBSET Nat, T # {}
    PROVE  \E x \in T : \A y \in T : x <= y
<1>1. PICK x \in T : \A y \in T : <<y, x>> \notin OpToRel(<, Nat)
  BY WFMin, NatLessThanWellFounded, Zenon
<1>2. \A y \in T : ~(y < x)
  BY <1>1, Zenon DEF OpToRel
<1> QED  BY <1>2

(* A bounded set of numbers has a largest one.                             *)
LEMMA LargestExists ==
    ASSUME NEW S \in SUBSET Nat, S # {}, NEW bound \in Nat, \A x \in S : x <= bound
    PROVE  Largest(S) \in S /\ \A x \in S : x <= Largest(S)
<1> DEFINE T == {b \in Nat : \A x \in S : x <= b}
<1>1. T \in SUBSET Nat /\ bound \in T
  OBVIOUS
<1>2. PICK b \in T : \A y \in T : b <= y
  BY <1>1, LeastNumber
<1>3. b \in S
  <2> SUFFICES ASSUME b \notin S PROVE FALSE
    OBVIOUS
  <2>1. b \in Nat /\ \A x \in S : x <= b
    OBVIOUS
  <2>2. \A x \in S : x < b
    BY <2>1
  <2>3. PICK x \in S : TRUE
    OBVIOUS
  <2>4. b - 1 \in Nat /\ \A y \in S : y <= b - 1
    <3> HIDE DEF T
    <3> QED  BY <2>1, <2>2, <2>3
  <2>5. b - 1 \in T
    BY <2>4
  <2> HIDE DEF T
  <2> QED  BY <1>2, <2>1, <2>5
<1>4. \E x \in S : \A y \in S : y <= x
  BY <1>3
<1> QED  BY <1>4 DEF Largest

(* The next revision of a claim is one that no record of the claim has.    *)
LEMMA NextRevisionIsNew ==
    ASSUME AnnotationsTypeOK, NEW claim
    PROVE  /\ NextRevision(claim) \in Nat /\ NextRevision(claim) > 0
           /\ \A q \in Requests : rvf[q].claim = claim => rvf[q].crev # NextRevision(claim)
<1> DEFINE S == {1} \cup {rvf[r].crev : r \in {q \in Requests : rvf[q].claim = claim}}
<1>1. \A r \in Requests : rvf[r].crev \in Nat
  BY DEF AnnotationsTypeOK, RequestRecord
<1>2. PICK bound \in Nat : \A r \in Requests : rvf[r].crev <= bound
  BY DEF AnnotationsTypeOK
<1>3. S \in SUBSET Nat /\ S # {}
  BY <1>1
<1>4. PICK top \in Nat : \A x \in S : x <= top
  <2>1. CASE bound >= 1
    BY <1>2, <2>1
  <2>2. CASE bound < 1
    <3>1. \A x \in S : x <= 1
      BY <1>1, <1>2, <2>2
    <3> QED  BY <3>1
  <2> QED  BY <1>2, <2>1, <2>2
<1>5. Largest(S) \in S /\ \A x \in S : x <= Largest(S)
  BY <1>3, <1>4, LargestExists
<1>6. NextRevision(claim) = 1 + Largest(S)
  BY DEF NextRevision
<1>7. Largest(S) \in Nat /\ \A q \in Requests : rvf[q].claim = claim => rvf[q].crev <= Largest(S)
  BY <1>3, <1>5
<1> HIDE DEF S
<1> QED  BY <1>1, <1>6, <1>7

(* Numbers given in order leave the next one free.                         *)
LEMMA NextIsFree ==
    ASSUME NEW top \in Nat, NEW S, \E num \in 0..top : S = 1..num
    PROVE  /\ 1 + Cardinality(S) \in Nat \ {0}
           /\ \A c \in 1..top : c \in S <=> c < 1 + Cardinality(S)
<1>1. PICK num \in 0..top : S = 1..num
  OBVIOUS
<1>2. 1 \in Int /\ num \in Int
  BY <1>1
<1>3. Cardinality(1..num) = IF 1 > num THEN 0 ELSE num - 1 + 1
  BY <1>2, FS_Interval
<1>4. Cardinality(S) = num
  BY <1>1, <1>3
<1> QED  BY <1>1, <1>4

(* The first write, and the others.                                        *)
LEMMA FirstWrite ==
    ASSUME AnnotationsTypeOK, todo # <<>>
    PROVE  /\ Len(todo) \in Nat /\ Len(todo) > 0 /\ Head(todo) = todo[1] /\ Head(todo) \in Writes
           /\ Tail(todo) \in Seq(Writes) /\ Len(Tail(todo)) = Len(todo) - 1
           /\ \A i \in 1..Len(Tail(todo)) : Tail(todo)[i] = todo[i + 1] /\ i + 1 \in 1..Len(todo)
<1>1. todo \in Seq(Writes)
  BY DEF AnnotationsTypeOK
<1> QED  BY <1>1, HeadTailProperties, EmptySeq, LenProperties

LEMMA WriteTyped ==
    ASSUME NEW x \in Writes
    PROVE  /\ x.w = "comment" => x.id \in Comments /\ x.rec \in CommentRecord
           /\ x.w = "rvf" => x.id \in Requests /\ x.rec \in RequestRecord
           /\ x.w = "event" => x.id \in Subjects /\ x.rec \in EventRecord
           /\ x.w = "thread" => x.id \in Requests /\ x.rec \in Places
           /\ x.w \in {"comment", "rvf", "event", "thread", "listed"}
  BY DEF Writes, Listed

LEMMA CommentWrite ==
    ASSUME NEW c \in Comments, NEW rec \in CommentRecord
    PROVE  Comment(c, rec) \in Writes /\ Comment(c, rec).w = "comment"
           /\ Comment(c, rec).id = c /\ Comment(c, rec).rec = rec
  BY DEF Writes, Comment

LEMMA RequestWrite ==
    ASSUME NEW r \in Requests, NEW rec \in RequestRecord
    PROVE  Request(r, rec) \in Writes /\ Request(r, rec).w = "rvf"
           /\ Request(r, rec).id = r /\ Request(r, rec).rec = rec
  BY DEF Writes, Request

LEMMA EventWrite ==
    ASSUME NEW s \in Subjects, NEW e \in EventRecord
    PROVE  Event(s, e) \in Writes /\ Event(s, e).w = "event"
           /\ Event(s, e).id = s /\ Event(s, e).rec = e
  BY DEF Writes, Event

LEMMA ThreadWrite ==
    ASSUME NEW r \in Requests, NEW place \in Places
    PROVE  Thread(r, place) \in Writes /\ Thread(r, place).w = "thread"
           /\ Thread(r, place).id = r /\ Thread(r, place).rec = place
  BY DEF Writes, Thread

LEMMA KindWrite ==
    ASSUME NEW kind \in Kinds
    PROVE  /\ \A c \in Comments : LET e == Event(<<"comment", c>>, [kind |-> kind]) IN
              e \in Writes /\ e.w = "event" /\ e.id = <<"comment", c>> /\ e.rec = [kind |-> kind]
           /\ \A r \in Requests : LET e == Event(<<"rvf", r>>, [kind |-> kind]) IN
              e \in Writes /\ e.w = "event" /\ e.id = <<"rvf", r>> /\ e.rec = [kind |-> kind]
<1>1. [kind |-> kind] \in EventRecord
  BY DEF EventRecord
<1>2. ASSUME NEW c \in Comments PROVE <<"comment", c>> \in Subjects
  BY DEF Subjects
<1>3. ASSUME NEW r \in Requests PROVE <<"rvf", r>> \in Subjects
  BY DEF Subjects
<1> QED  BY <1>1, <1>2, <1>3, EventWrite

LEMMA ListedWrite == Listed \in Writes /\ Listed.w = "listed"
  BY DEF Writes, Listed

-----------------------------------------------------------------------------
(* Every step keeps the types.                                             *)

(* A request that takes the lock changes the list of writes.               *)
LEMMA BeginTyped ==
    ASSUME AnnotationsTypeOK, NEW writes \in Seq(Writes), Begin(writes), Quiet
    PROVE  AnnotationsTypeOK'
  BY DEF AnnotationsTypeOK, Begin, Quiet, Records

LEMMA CreatedTyped ==
    ASSUME NextComment \in Comments, NEW claim \in AllClaims, NEW supersedes \in 0..MaxComments
    PROVE  /\ Created(claim, supersedes) \in Seq(Writes) /\ Len(Created(claim, supersedes)) = 2
           /\ Created(claim, supersedes)[1].w = "comment" /\ Created(claim, supersedes)[1].id = NextComment
           /\ Created(claim, supersedes)[1].rec.status = "open" /\ Created(claim, supersedes)[1].rec.by = 0
           /\ Created(claim, supersedes)[1].rec.supersedes = supersedes
           /\ Created(claim, supersedes)[2].w = "event"
<1> DEFINE num == NextComment
           rec == [status |-> "open", rev |-> 1, claim |-> claim, supersedes |-> supersedes, by |-> 0]
<1>1. rec \in CommentRecord /\ rec.status = "open" /\ rec.by = 0 /\ rec.supersedes = supersedes
  BY NaturalBounds DEF CommentRecord
<1>2. Created(claim, supersedes) = <<Comment(num, rec), Event(<<"comment", num>>, [kind |-> "created"])>>
  BY DEF Created
<1> HIDE DEF num, rec
<1>3. num \in Comments
  BY DEF num
<1>4. /\ Comment(num, rec) \in Writes /\ Comment(num, rec).w = "comment"
      /\ Comment(num, rec).id = num /\ Comment(num, rec).rec = rec
  BY <1>1, <1>3, CommentWrite
<1>5. /\ Event(<<"comment", num>>, [kind |-> "created"]) \in Writes
      /\ Event(<<"comment", num>>, [kind |-> "created"]).w = "event"
  <2>1. "created" \in Kinds
    BY DEF Kinds
  <2> QED  BY <1>3, <2>1, KindWrite
<1> QED  BY <1>1, <1>2, <1>4, <1>5 DEF num

LEMMA RevisedTyped ==
    ASSUME NEW rec \in CommentRecord PROVE Revised(rec) \in CommentRecord
  BY DEF CommentRecord, Revised

LEMMA CommentingTyped ==
    ASSUME AnnotationsTypeOK, Commenting PROVE AnnotationsTypeOK'
<1> USE NaturalBounds
<1>1. ASSUME NEW claim, CreateComment(claim) PROVE AnnotationsTypeOK'
  <2>1. claim \in AllClaims
    BY <1>1 DEF CreateComment, ClaimSurface, AllClaims
  <2>2. 0 \in 0..MaxComments
    OBVIOUS
  <2> QED  BY <1>1, <2>1, <2>2, CreatedTyped, BeginTyped DEF CreateComment
<1>2. ASSUME NEW c \in Comments, ReplyComment(c) PROVE AnnotationsTypeOK'
  <2>1. comment[c].claim \in AllClaims
    BY DEF AnnotationsTypeOK, CommentRecord
  <2>2. 0 \in 0..MaxComments
    OBVIOUS
  <2> QED  BY <1>2, <2>1, <2>2, CreatedTyped, BeginTyped DEF ReplyComment
<1>3. ASSUME NEW c \in Comments, NEW status \in {"open", "resolved", "withdrawn"}, UpdateComment(c, status)
      PROVE  AnnotationsTypeOK'
  <2> DEFINE v == [comment[c] EXCEPT !.status = status]  rec == Revised(v)
  <2>1. rec \in CommentRecord
    <3>1. v \in CommentRecord
      BY DEF AnnotationsTypeOK, CommentRecord
    <3> QED  BY <3>1, RevisedTyped
  <2> HIDE DEF rec
  <2>2. Comment(c, rec) \in Writes /\ Event(<<"comment", c>>, [kind |-> status]) \in Writes
    <3>1. status \in Kinds
      BY DEF Kinds
    <3> QED  BY <2>1, <3>1, CommentWrite, KindWrite
  <2>3. <<Comment(c, rec), Event(<<"comment", c>>, [kind |-> status])>> \in Seq(Writes)
    BY <2>2
  <2> QED  BY <1>3, <2>3, BeginTyped DEF UpdateComment, rec
<1>4. ASSUME NEW c \in Comments, ReanchorComment(c) PROVE AnnotationsTypeOK'
  <2> DEFINE v == [comment[c] EXCEPT !.by = NextComment]  rec == Revised(v)
             link == <<Comment(c, rec), Event(<<"comment", c>>, [kind |-> "superseded"])>>
  <2>1. rec \in CommentRecord
    <3>1. NextComment \in 0..MaxComments
      BY <1>4 DEF ReanchorComment, Comments
    <3>2. v \in CommentRecord
      BY <3>1 DEF AnnotationsTypeOK, CommentRecord
    <3> QED  BY <3>2, RevisedTyped
  <2> HIDE DEF rec
  <2>2. Comment(c, rec) \in Writes /\ Event(<<"comment", c>>, [kind |-> "superseded"]) \in Writes
    <3>1. "superseded" \in Kinds
      BY DEF Kinds
    <3> QED  BY <2>1, <3>1, CommentWrite, KindWrite
  <2>3. link \in Seq(Writes)
    BY <2>2
  <2>4. comment[c].claim \in AllClaims /\ c \in 0..MaxComments
    BY DEF AnnotationsTypeOK, CommentRecord, Comments
  <2>5. Created(comment[c].claim, c) \in Seq(Writes)
    BY <1>4, <2>4, CreatedTyped DEF ReanchorComment
  <2>6. Created(comment[c].claim, c) \o link \in Seq(Writes)
    BY <2>3, <2>5, ConcatProperties
  <2> QED  BY <1>4, <2>6, BeginTyped DEF ReanchorComment, rec
<1> QED  BY <1>1, <1>2, <1>3, <1>4 DEF Commenting

LEMMA NoListerTyped == NoLister \in Listings /\ NoLister.left \subseteq DOMAIN NoLister.records
  BY DEF NoLister, Listings

LEMMA ListingTyped ==
    ASSUME AnnotationsTypeOK, Listing PROVE AnnotationsTypeOK'
<1>1. NoLister \in Listings /\ NoLister.left \subseteq DOMAIN NoLister.records
  BY NoListerTyped
<1>2. CASE ListComments
  <2> DEFINE unmet == {c \in Comments : comment[c].status = "open"}
              now == [at |-> "look", records |-> [c \in unmet |-> comment[c]], left |-> unmet]
  <2>1. [c \in unmet |-> comment[c]] \in [unmet -> CommentRecord] /\ unmet \in SUBSET Comments
    BY DEF AnnotationsTypeOK
  <2>2. lister' = now /\ UNCHANGED <<Records, chain, torn, todo, runner, source, crashes, witnessed>>
    BY <1>2 DEF ListComments
  <2>3. now \in Listings /\ now.left \subseteq DOMAIN now.records
    BY <2>1 DEF Listings
  <2> HIDE DEF now
  <2> QED  BY <2>2, <2>3 DEF AnnotationsTypeOK, Records
<1>3. CASE LookAtFile \/ ListDone
  <2>1. /\ lister' = NoLister \/ lister' = [lister EXCEPT !.at = "scan"]
        /\ UNCHANGED <<Records, chain, torn, todo, runner, source, crashes, witnessed>>
    BY <1>3 DEF LookAtFile, ListDone
  <2>2. lister' \in Listings /\ lister'.left \subseteq DOMAIN lister'.records
    BY <1>1, <2>1 DEF AnnotationsTypeOK, Listings
  <2> QED  BY <2>1, <2>2 DEF AnnotationsTypeOK, Records
<1>4. ASSUME NEW c \in Comments, MarkOutdated(c) PROVE AnnotationsTypeOK'
  <2> DEFINE v == [lister.records[c] EXCEPT !.status = "outdated"]  rec == Revised(v)
  <2>1. lister.records[c] \in CommentRecord
    BY <1>4 DEF AnnotationsTypeOK, Listings, MarkOutdated
  <2>2. rec \in CommentRecord
    <3>1. v \in CommentRecord
      BY <2>1 DEF CommentRecord
    <3> QED  BY <3>1, RevisedTyped
  <2> HIDE DEF rec
  <2>3. /\ Comment(c, rec) \in Writes /\ Event(<<"comment", c>>, [kind |-> "outdated"]) \in Writes
        /\ Listed \in Writes
    <3>1. "outdated" \in Kinds
      BY DEF Kinds
    <3> QED  BY <2>2, <3>1, CommentWrite, KindWrite, ListedWrite
  <2>4. <<Comment(c, rec), Event(<<"comment", c>>, [kind |-> "outdated"]), Listed>> \in Seq(Writes)
    BY <2>3
  <2>5. lister' = [lister EXCEPT !.at = "mark", !.left = @ \ {c}]
    BY <1>4 DEF MarkOutdated
  <2>6. lister' \in Listings /\ lister'.left \subseteq DOMAIN lister'.records
    BY <2>5 DEF AnnotationsTypeOK, Listings
  <2>7. todo' \in Seq(Writes) /\ UNCHANGED <<Records, chain, torn, runner, source, crashes, witnessed>>
    BY <1>4, <2>4 DEF MarkOutdated, Begin, rec
  <2> QED  BY <2>6, <2>7 DEF AnnotationsTypeOK, Records
<1> QED  BY <1>2, <1>3, <1>4 DEF Listing

(* What the records of a re-verification become.                           *)
LEMMA StatusTyped ==
    ASSUME NEW rec \in RequestRecord,
           NEW status \in {"absent", "planned", "approved", "replaying", "rejected", "settled", "failed"}
    PROVE  LET v == [rec EXCEPT !.status = status] IN
              /\ v \in RequestRecord /\ v.status = status /\ v.claim = rec.claim /\ v.reason = rec.reason
              /\ v.outcome = rec.outcome /\ v.crev = rec.crev /\ v.grade = rec.grade
  BY DEF RequestRecord

LEMMA RejectionTyped ==
    ASSUME NEW rec \in RequestRecord, NEW crev \in Nat
    PROVE  LET v == [rec EXCEPT !.status = "rejected", !.outcome = "withheld", !.crev = crev] IN
              /\ v \in RequestRecord /\ v.status = "rejected" /\ v.claim = rec.claim /\ v.reason = rec.reason
              /\ v.outcome = "withheld" /\ v.crev = crev /\ v.grade = rec.grade
<1> DEFINE a == [rec EXCEPT !.status = "rejected"]  b == [a EXCEPT !.outcome = "withheld"]
           v == [b EXCEPT !.crev = crev]
<1>1. /\ a \in RequestRecord /\ a.status = "rejected" /\ a.claim = rec.claim /\ a.reason = rec.reason
      /\ a.grade = rec.grade
  BY DEF RequestRecord
<1> HIDE DEF a
<1>2. /\ b \in RequestRecord /\ b.status = "rejected" /\ b.claim = rec.claim /\ b.reason = rec.reason
      /\ b.outcome = "withheld" /\ b.grade = rec.grade
  BY <1>1 DEF RequestRecord
<1> HIDE DEF b
<1>3. /\ v \in RequestRecord /\ v.status = "rejected" /\ v.claim = rec.claim /\ v.reason = rec.reason
      /\ v.outcome = "withheld" /\ v.crev = crev /\ v.grade = rec.grade
  BY <1>2 DEF RequestRecord
<1> QED  BY <1>3 DEF a, b

(* No strategy grades above the report.                                    *)
LEMMA NotAbove ==
    ASSUME NEW claim \in Claims, NEW grade \in Nat
    PROVE  Graded(claim, grade) >= Grade[claim]
<1>1. Grade[claim] \in 0..4
  BY AnnotationsAssumption
<1> QED  BY <1>1 DEF Graded, EnsureNoPromotion

LEMMA JudgedTyped ==
    ASSUME NEW reason, NEW claim, NEW reports
    PROVE  /\ Judged(reason, claim, reports)[1] \in {"confirmed", "revised", "withheld"}
           /\ Judged(reason, claim, reports)[2] \in Nat
<1>1. \A all : Verdict(all) \in {"confirmed", "revised", "withheld"}
  BY DEF Verdict
<1>2. SettleFromReplay(reports) \in {"confirmed", "revised", "withheld"}
  BY <1>1 DEF SettleFromReplay
<1>3. Graded(claim, 1) \in Nat /\ Graded(claim, 2) \in Nat /\ Graded(claim, 3) \in Nat
  BY DEF Graded, EnsureNoPromotion
<1>4. CASE Failed(reports)
  BY <1>4 DEF Judged
<1>5. CASE ~Failed(reports)
  <2>1. CASE reason = "flaky"
    BY <1>2, <1>5, <2>1 DEF Judged
  <2>2. CASE reason = "coverage"
    BY <1>3, <1>5, <2>2 DEF Judged, CoverageCheck
  <2>3. CASE reason = "collection"
    BY <1>3, <1>5, <2>3 DEF Judged, CollectionCheck
  <2>4. CASE reason \in {"source", "scope", "visa"}
    BY <1>5, <2>4 DEF Judged, SourceChanged, ScopeWiden, TestVisa
  <2>5. CASE reason \notin {"flaky", "coverage", "collection", "source", "scope", "visa"}
    BY <1>5, <2>5 DEF Judged, HumanRouting
  <2> QED  BY <2>1, <2>2, <2>3, <2>4, <2>5
<1> QED  BY <1>4, <1>5

(* The list of writes of a settlement: events, the outcome among them, and *)
(* the record at last.                                                     *)
LEMMA SettleWrites ==
    ASSUME NEW r \in Requests, NEW rec \in RequestRecord
    PROVE  LET writes == Replayed(r, rec) \o <<Outcome(r, rec)>> \o ProtectedClaim(r, rec) \o <<Request(r, rec)>>
               event == [kind |-> rec.outcome, claim |-> rec.claim, crev |-> rec.crev]
           IN  /\ writes \in Seq(Writes) /\ Len(writes) > 0 /\ writes[Len(writes)] = Request(r, rec)
               /\ \A i \in 1..Len(writes) - 1 : writes[i].w = "event"
               /\ \E i \in 1..Len(writes) - 1 : writes[i] = Event(<<"rvf", r>>, event)
<1> DEFINE event == [kind |-> rec.outcome, claim |-> rec.claim, crev |-> rec.crev]
           Events == {x \in Writes : x.w = "event"}
           a == Replayed(r, rec)  b == <<Outcome(r, rec)>>  d == ProtectedClaim(r, rec)
           e == <<Request(r, rec)>>
<1>1. <<"rvf", r>> \in Subjects
  BY DEF Subjects
<1>2. event \in EventRecord
  <2>1. rec.outcome \in Kinds /\ rec.claim \in AllClaims /\ rec.crev \in Nat
    BY DEF RequestRecord, Kinds
  <2> QED  BY <2>1 DEF EventRecord
<1>3. Outcome(r, rec) = Event(<<"rvf", r>>, event) /\ Outcome(r, rec) \in Events
  <2>1. Outcome(r, rec) = Event(<<"rvf", r>>, event)
    BY DEF Outcome
  <2> HIDE DEF event
  <2> QED  BY <1>1, <1>2, <2>1, EventWrite
<1>4. "replayed" \in Kinds /\ "protected" \in Kinds
  BY DEF Kinds
<1>5. Event(<<"rvf", r>>, [kind |-> "replayed"]) \in Events /\ Event(<<"rvf", r>>, [kind |-> "protected"]) \in Events
  BY <1>4, KindWrite
<1>6. a \in Seq(Events)
  <2> DEFINE x == Event(<<"rvf", r>>, [kind |-> "replayed"])
  <2> DEFINE rows == [i \in 1..KReruns |-> x]
  <2>1. a = rows \/ a = <<>>
    BY DEF Replayed
  <2>2. x \in Events
    BY <1>5
  <2> HIDE DEF x, a, Events
  <2>3. rows \in Seq(Events)
    BY <2>2, NaturalBounds
  <2> HIDE DEF rows
  <2> QED  BY <2>1, <2>3, EmptySeq
<1>7. b \in Seq(Events) /\ Len(b) = 1 /\ b[1] = Event(<<"rvf", r>>, event)
  BY <1>3
<1>8. d \in Seq(Events)
  BY <1>5 DEF ProtectedClaim
<1>9. Request(r, rec) \in Writes
  BY RequestWrite
<1>10. e \in Seq(Writes) /\ Len(e) = 1 /\ e[1] = Request(r, rec)
  BY <1>9
<1> DEFINE ab == a \o b  abd == ab \o d
<1> HIDE DEF a, b, d, e, event
<1>11. /\ ab \in Seq(Events) /\ Len(ab) = Len(a) + 1 /\ Len(a) \in Nat /\ ab[Len(a) + 1] = b[1]
  <2>1. Len(a) \in Nat /\ Len(a) + 1 \in 1..Len(a) + Len(b) /\ ~(Len(a) + 1 <= Len(a))
    BY <1>6, <1>7, LenProperties
  <2>2. /\ a \o b \in Seq(Events) /\ Len(a \o b) = Len(a) + Len(b)
        /\ \A i \in 1..Len(a) + Len(b) : (a \o b)[i] = IF i <= Len(a) THEN a[i] ELSE b[i - Len(a)]
    BY <1>6, <1>7, ConcatProperties
  <2> QED  BY <1>7, <2>1, <2>2
<1> HIDE DEF ab
<1>12. /\ abd \in Seq(Events) /\ Len(abd) \in Nat
       /\ \E i \in 1..Len(abd) : abd[i] = Event(<<"rvf", r>>, event)
  <2>1. /\ ab \o d \in Seq(Events) /\ Len(ab \o d) = Len(ab) + Len(d)
        /\ \A i \in 1..Len(ab) + Len(d) : (ab \o d)[i] = IF i <= Len(ab) THEN ab[i] ELSE d[i - Len(ab)]
    BY <1>8, <1>11, ConcatProperties
  <2>2. Len(d) \in Nat /\ Len(a) + 1 \in 1..Len(ab) + Len(d) /\ Len(a) + 1 <= Len(ab)
    BY <1>8, <1>11, LenProperties
  <2> QED  BY <1>7, <1>11, <2>1, <2>2
<1> HIDE DEF abd
<1>13. abd \in Seq(Writes) /\ \A i \in 1..Len(abd) : abd[i].w = "event"
  <2>1. Events \subseteq Writes
    OBVIOUS
  <2>2. \A i \in 1..Len(abd) : abd[i] \in Events
    BY <1>12, ElementOfSeq
  <2>3. abd \in Seq(Writes)
    BY <1>12, <2>1, SeqMonotonic
  <2> QED  BY <2>2, <2>3
<1> HIDE DEF Events
<1>14. /\ abd \o e \in Seq(Writes) /\ Len(abd \o e) = Len(abd) + 1
       /\ \A i \in 1..Len(abd) + 1 : (abd \o e)[i] = IF i <= Len(abd) THEN abd[i] ELSE e[i - Len(abd)]
  <2>1. e \in Seq(Writes) /\ abd \in Seq(Writes)
    BY <1>10, <1>13
  <2>2. /\ abd \o e \in Seq(Writes) /\ Len(abd \o e) = Len(abd) + Len(e)
        /\ \A i \in 1..Len(abd) + Len(e) : (abd \o e)[i] = IF i <= Len(abd) THEN abd[i] ELSE e[i - Len(abd)]
    BY <2>1, ConcatProperties
  <2> QED  BY <1>10, <2>2
<1>15. /\ (abd \o e)[Len(abd) + 1] = e[1]
       /\ \A i \in 1..Len(abd) : (abd \o e)[i] = abd[i]
  <2>1. ~(Len(abd) + 1 <= Len(abd)) /\ Len(abd) + 1 \in 1..Len(abd) + 1 /\ Len(abd) + 1 - Len(abd) = 1
    BY <1>12
  <2>2. \A i \in 1..Len(abd) : i \in 1..Len(abd) + 1 /\ i <= Len(abd)
    BY <1>12
  <2> QED  BY <1>14, <2>1, <2>2
<1>16. Len(abd \o e) - 1 = Len(abd) /\ Len(abd \o e) > 0
  BY <1>12, <1>14
<1> QED
  BY <1>10, <1>12, <1>13, <1>14, <1>15, <1>16 DEF a, b, d, e, ab, abd, event

(* A report of the thread.                                                 *)
LEMMA ReportTyped ==
    ASSUME AnnotationsTypeOK, NEW r \in Requests, NEW report \in Reported, Report(r, report)
    PROVE  /\ runner' \in [Requests -> [at : Places, reports : Seq(Reported)]]
           /\ runner'[r].reports = Append(runner[r].reports, report)
           /\ runner'[r].at = IF report # "error" /\ Len(runner[r].reports) + 1 < Runs(rvf[r].reason)
                              THEN "check" ELSE "settle"
           /\ \A q \in Requests : q # r => runner'[q] = runner[q]
<1> DEFINE reports == Append(runner[r].reports, report)
           place == IF report # "error" /\ Len(reports) < Runs(rvf[r].reason) THEN "check" ELSE "settle"
           w == [at |-> place, reports |-> reports]
<1>1. runner[r].reports \in Seq(Reported) /\ runner \in [Requests -> [at : Places, reports : Seq(Reported)]]
  BY DEF AnnotationsTypeOK
<1>2. reports \in Seq(Reported) /\ Len(reports) = Len(runner[r].reports) + 1
  BY <1>1
<1>3. place \in Places
  BY DEF Places
<1>4. runner' = [runner EXCEPT ![r] = w]
  BY DEF Report
<1> HIDE DEF reports
<1>5. w \in [at : Places, reports : Seq(Reported)] /\ w.reports = reports /\ w.at = place
  BY <1>2, <1>3
<1> HIDE DEF w
<1> QED  BY <1>1, <1>2, <1>4, <1>5 DEF reports

LEMMA ReportedReports ==
    /\ \A reason \in AllReasons : Reports(reason) \subseteq Reported
    /\ {"error", "same source", "other source"} \subseteq Reported
<1>1. \A reason \in AllReasons : Reports(reason) \subseteq UNION {Reports(q) : q \in AllReasons}
  OBVIOUS
<1> QED  BY <1>1 DEF Reported

LEMMA SettlementTyped ==
    ASSUME AnnotationsTypeOK, NEW r \in Requests
    PROVE  LET rec == rvf[r]  end == Settlement(r)
               judged == Judged(rec.reason, rec.claim, runner[r].reports) IN
           /\ end \in RequestRecord /\ end.claim = rec.claim /\ end.reason = rec.reason
           /\ end.status = IF Failed(runner[r].reports) THEN "failed" ELSE "settled"
           /\ end.outcome = judged[1] /\ end.grade = judged[2] /\ end.crev = NextRevision(rec.claim)
<1> DEFINE rec == rvf[r]  judged == Judged(rec.reason, rec.claim, runner[r].reports)
           status == IF Failed(runner[r].reports) THEN "failed" ELSE "settled"
           outcome == judged[1]  grade == judged[2]  revision == NextRevision(rec.claim)
<1>1. rec \in RequestRecord
  BY DEF AnnotationsTypeOK
<1>2. outcome \in {"confirmed", "revised", "withheld"} /\ grade \in Nat
  BY JudgedTyped
<1>3. revision \in Nat
  BY NextRevisionIsNew
<1>4. status \in {"rejected", "settled", "failed"}
  OBVIOUS
<1> DEFINE a == [rec EXCEPT !.status = status]  b == [a EXCEPT !.outcome = outcome]
           d == [b EXCEPT !.grade = grade]  v == [d EXCEPT !.crev = revision]
<1>5. Settlement(r) = v
  BY DEF Settlement
<1> HIDE DEF rec, status, outcome, grade, revision
<1>6. /\ a \in RequestRecord /\ a.status = status /\ a.claim = rec.claim /\ a.reason = rec.reason
      /\ a.grade = rec.grade
  BY <1>1, <1>4 DEF RequestRecord
<1> HIDE DEF a
<1>7. /\ b \in RequestRecord /\ b.status = status /\ b.claim = rec.claim /\ b.reason = rec.reason
      /\ b.outcome = outcome /\ b.grade = rec.grade
  BY <1>2, <1>6 DEF RequestRecord
<1> HIDE DEF b
<1>8. /\ d \in RequestRecord /\ d.status = status /\ d.claim = rec.claim /\ d.reason = rec.reason
      /\ d.outcome = outcome /\ d.grade = grade
  BY <1>2, <1>7 DEF RequestRecord
<1> HIDE DEF d
<1>9. /\ v \in RequestRecord /\ v.status = status /\ v.claim = rec.claim /\ v.reason = rec.reason
      /\ v.outcome = outcome /\ v.crev = revision /\ v.grade = grade
  BY <1>3, <1>8 DEF RequestRecord
<1> HIDE DEF v
<1> QED  BY <1>5, <1>9 DEF rec, status, outcome, grade, revision

(* What a request for a re-verification has to write.                      *)
LEMMA ChallengeWrites ==
    ASSUME AnnotationsTypeOK, NEW c \in Comments, NEW reason \in AllReasons, RequestReverification(c, reason)
    PROVE  \E rec \in RequestRecord :
              /\ rec.status = "planned" /\ rec.claim \in Experiments /\ rec.reason = reason
              /\ rec.outcome = "none" /\ rec.crev = 0 /\ rec.grade = 0 /\ NextRequest \in Requests
              /\ todo = <<>> /\ todo' \in Seq(Writes) /\ Len(todo') = 3
              /\ todo'[1] = Request(NextRequest, rec) /\ todo'[2].w = "event" /\ todo'[3].w = "event"
<1> DEFINE num == NextRequest
           rec == [status |-> "planned", claim |-> comment[c].claim, reason |-> reason,
                   outcome |-> "none", crev |-> 0, grade |-> 0]
           e1 == Event(<<"rvf", num>>, [kind |-> "challenged"])
           e2 == Event(<<"rvf", num>>, [kind |-> "requested"])
<1>1. comment[c].claim \in AllClaims /\ comment[c].claim \in Experiments
  BY DEF AnnotationsTypeOK, CommentRecord, RequestReverification, Replayable
<1>2. /\ rec \in RequestRecord /\ rec.status = "planned" /\ rec.claim \in Experiments /\ rec.reason = reason
      /\ rec.outcome = "none" /\ rec.crev = 0 /\ rec.grade = 0
  BY <1>1 DEF RequestRecord
<1>3. todo = <<>> /\ todo' = <<Request(num, rec), e1, e2>> /\ num \in Requests
  BY DEF RequestReverification, Begin, Unlocked
<1> HIDE DEF num, rec
<1>4. "challenged" \in Kinds /\ "requested" \in Kinds
  BY DEF Kinds
<1>5. e1 \in Writes /\ e1.w = "event" /\ e2 \in Writes /\ e2.w = "event"
  BY <1>3, <1>4, KindWrite
<1>6. Request(num, rec) \in Writes
  BY <1>2, <1>3, RequestWrite
<1> HIDE DEF e1, e2
<1>7. /\ todo' \in Seq(Writes) /\ Len(todo') = 3
      /\ todo'[1] = Request(num, rec) /\ todo'[2].w = "event" /\ todo'[3].w = "event"
  BY <1>3, <1>5, <1>6
<1> QED  BY <1>2, <1>3, <1>7 DEF num

LEMMA ApprovalWrites ==
    ASSUME AnnotationsTypeOK, NEW r \in Requests, ApproveReverification(r)
    PROVE  \E rec \in RequestRecord :
              /\ rec.status = "approved" /\ rec.claim = rvf[r].claim /\ rec.reason = rvf[r].reason
              /\ rec.outcome = rvf[r].outcome /\ rec.crev = rvf[r].crev /\ rec.grade = rvf[r].grade
              /\ todo = <<>> /\ todo' \in Seq(Writes) /\ Len(todo') = 3
              /\ todo'[1] = Event(<<"rvf", r>>, [kind |-> "approved"])
              /\ todo'[2] = Request(r, rec) /\ todo'[3] = Thread(r, "start")
<1> DEFINE rec == [rvf[r] EXCEPT !.status = "approved"]
           e == Event(<<"rvf", r>>, [kind |-> "approved"])
<1>1. rvf[r] \in RequestRecord
  BY DEF AnnotationsTypeOK
<1>2. /\ rec \in RequestRecord /\ rec.status = "approved" /\ rec.claim = rvf[r].claim
      /\ rec.reason = rvf[r].reason /\ rec.outcome = rvf[r].outcome /\ rec.crev = rvf[r].crev
      /\ rec.grade = rvf[r].grade
  BY <1>1 DEF RequestRecord
<1>3. todo = <<>> /\ todo' = <<e, Request(r, rec), Thread(r, "start")>>
  BY DEF ApproveReverification, Approval, Begin, Unlocked
<1> HIDE DEF rec
<1>4. "approved" \in Kinds /\ "start" \in Places
  BY DEF Kinds, Places
<1>5. e \in Writes /\ Request(r, rec) \in Writes /\ Thread(r, "start") \in Writes
  BY <1>2, <1>4, KindWrite, RequestWrite, ThreadWrite
<1> HIDE DEF e
<1>6. /\ todo' \in Seq(Writes) /\ Len(todo') = 3
      /\ todo'[1] = e /\ todo'[2] = Request(r, rec) /\ todo'[3] = Thread(r, "start")
  BY <1>3, <1>5
<1> QED  BY <1>2, <1>3, <1>6 DEF e

LEMMA RejectionWrites ==
    ASSUME AnnotationsTypeOK, NEW r \in Requests, RejectReverification(r)
    PROVE  \E rec \in RequestRecord :
              /\ rec.status = "rejected" /\ rec.claim = rvf[r].claim /\ rec.reason = rvf[r].reason
              /\ rec.outcome = "withheld" /\ rec.crev = NextRevision(rvf[r].claim) /\ rec.grade = rvf[r].grade
              /\ todo = <<>> /\ todo' \in Seq(Writes) /\ Len(todo') = 2
              /\ todo'[1] = Request(r, rec) /\ todo'[2].w = "event"
<1> DEFINE crev == NextRevision(rvf[r].claim)
           rec == [rvf[r] EXCEPT !.status = "rejected", !.outcome = "withheld", !.crev = crev]
           event == [kind |-> rec.outcome, claim |-> rec.claim, crev |-> rec.crev]
<1>1. rvf[r] \in RequestRecord /\ crev \in Nat
  BY NextRevisionIsNew DEF AnnotationsTypeOK
<1>2. todo = <<>> /\ todo' = <<Request(r, rec), Event(<<"rvf", r>>, event)>>
  BY DEF RejectReverification, Outcome, Begin, Unlocked
<1> HIDE DEF crev
<1>3. /\ rec \in RequestRecord /\ rec.status = "rejected" /\ rec.claim = rvf[r].claim
      /\ rec.reason = rvf[r].reason /\ rec.outcome = "withheld" /\ rec.crev = crev /\ rec.grade = rvf[r].grade
  BY <1>1, RejectionTyped
<1> HIDE DEF rec
<1>4. event \in EventRecord
  <2>1. rec.outcome \in Kinds /\ rec.claim \in AllClaims /\ rec.crev \in Nat
    BY <1>3 DEF RequestRecord, Kinds
  <2> QED  BY <2>1 DEF EventRecord
<1>5. <<"rvf", r>> \in Subjects
  BY DEF Subjects
<1> HIDE DEF event
<1>6. Request(r, rec) \in Writes /\ Event(<<"rvf", r>>, event) \in Writes /\ Event(<<"rvf", r>>, event).w = "event"
  BY <1>3, <1>4, <1>5, RequestWrite, EventWrite
<1>7. /\ todo' \in Seq(Writes) /\ Len(todo') = 2 /\ todo'[1] = Request(r, rec) /\ todo'[2].w = "event"
  BY <1>2, <1>6
<1> QED  BY <1>2, <1>3, <1>7 DEF crev

(* The thread of the approving request has the lock for the first time.    *)
LEMMA RunWrites ==
    ASSUME AnnotationsTypeOK, NEW r \in Requests, RunBegins(r)
    PROVE  /\ todo = <<>> /\ todo' \in Seq(Writes)
           /\ runner' = [runner EXCEPT ![r].at = "wait"]
           /\ rvf[r].status \in {"approved", "replaying"} =>
                 \E rec \in RequestRecord :
                    /\ rec.status = "replaying" /\ rec.claim = rvf[r].claim /\ rec.reason = rvf[r].reason
                    /\ rec.outcome = rvf[r].outcome /\ rec.crev = rvf[r].crev /\ rec.grade = rvf[r].grade
                    /\ Len(todo') = 2 /\ todo'[1] = Request(r, rec)
                    /\ todo'[2] = Thread(r, IF rvf[r].reason = "other" THEN "settle" ELSE "check")
<1> DEFINE rec == [rvf[r] EXCEPT !.status = "replaying"]
           place == IF rvf[r].reason = "other" THEN "settle" ELSE "check"
<1>1. rvf[r] \in RequestRecord
  BY DEF AnnotationsTypeOK
<1>2. /\ rec \in RequestRecord /\ rec.status = "replaying" /\ rec.claim = rvf[r].claim
      /\ rec.reason = rvf[r].reason /\ rec.outcome = rvf[r].outcome /\ rec.crev = rvf[r].crev
      /\ rec.grade = rvf[r].grade
  BY <1>1 DEF RequestRecord
<1>3. place \in Places /\ "none" \in Places
  BY DEF Places
<1>4. todo = <<>> /\ runner' = [runner EXCEPT ![r].at = "wait"]
  BY DEF RunBegins, Begin, Unlocked, Move
<1>5. CASE rvf[r].status \in {"approved", "replaying"}
  <2>1. todo' = <<Request(r, rec), Thread(r, place)>>
    BY <1>5 DEF RunBegins, Begin
  <2> HIDE DEF rec, place
  <2>2. Request(r, rec) \in Writes /\ Thread(r, place) \in Writes
    BY <1>2, <1>3, RequestWrite, ThreadWrite
  <2>3. /\ todo' \in Seq(Writes) /\ Len(todo') = 2 /\ todo'[1] = Request(r, rec)
        /\ todo'[2] = Thread(r, place)
    BY <2>1, <2>2
  <2> QED  BY <1>2, <1>4, <2>3 DEF place
<1>6. CASE rvf[r].status \notin {"approved", "replaying"}
  <2>1. todo' = <<Thread(r, "none")>>
    BY <1>6 DEF RunBegins, Begin
  <2>2. Thread(r, "none") \in Writes
    BY <1>3, ThreadWrite
  <2>3. todo' \in Seq(Writes)
    BY <2>1, <2>2
  <2> QED  BY <1>4, <1>6, <2>3
<1> QED  BY <1>5, <1>6

LEMMA ReverifyingTyped ==
    ASSUME AnnotationsTypeOK, Reverifying PROVE AnnotationsTypeOK'
<1>1. ASSUME NEW c \in Comments, NEW reason \in AllReasons, RequestReverification(c, reason)
      PROVE  AnnotationsTypeOK'
  <2>1. todo' \in Seq(Writes) /\ Quiet
    BY <1>1, ChallengeWrites DEF RequestReverification
  <2> QED  BY <2>1 DEF AnnotationsTypeOK, Quiet, Records
<1>2. ASSUME NEW r \in Requests, ApproveReverification(r) PROVE AnnotationsTypeOK'
  <2>1. todo' \in Seq(Writes) /\ Quiet
    BY <1>2, ApprovalWrites DEF ApproveReverification
  <2> QED  BY <2>1 DEF AnnotationsTypeOK, Quiet, Records
<1>3. ASSUME NEW r \in Requests, RejectReverification(r) PROVE AnnotationsTypeOK'
  <2>1. todo' \in Seq(Writes) /\ Quiet
    BY <1>3, RejectionWrites DEF RejectReverification
  <2> QED  BY <2>1 DEF AnnotationsTypeOK, Quiet, Records
<1>4. ASSUME NEW r \in Requests, RunBegins(r) PROVE AnnotationsTypeOK'
  <2>1. /\ todo' \in Seq(Writes) /\ runner' = [runner EXCEPT ![r].at = "wait"]
        /\ UNCHANGED <<comment, rvf, chain, torn, lister, witnessed>>
    BY <1>4, RunWrites DEF RunBegins, Records
  <2>2. "wait" \in Places
    BY DEF Places
  <2>3. runner' \in [Requests -> [at : Places, reports : Seq(Reported)]]
    BY <2>1, <2>2 DEF AnnotationsTypeOK
  <2> QED  BY <2>1, <2>3 DEF AnnotationsTypeOK
<1>5. ASSUME NEW r \in Requests, CheckSource(r) PROVE AnnotationsTypeOK'
  <2>1. UNCHANGED <<comment, rvf, chain, torn, todo, lister, witnessed>>
    BY <1>5 DEF CheckSource, Records
  <2>2. "replay" \in Places
    BY DEF Places
  <2>3. runner' \in [Requests -> [at : Places, reports : Seq(Reported)]]
    <3>1. CASE Move(r, "replay")
      BY <2>2, <3>1 DEF AnnotationsTypeOK, Move
    <3>2. ASSUME NEW report \in Reported, Report(r, report)
          PROVE  runner' \in [Requests -> [at : Places, reports : Seq(Reported)]]
      BY <3>2, ReportTyped
    <3>3. \/ Move(r, "replay")
          \/ \E report \in {"error", "same source", "other source"} : Report(r, report)
      BY <1>5 DEF CheckSource
    <3> QED  BY <3>1, <3>2, <3>3, ReportedReports
  <2> QED  BY <2>1, <2>3 DEF AnnotationsTypeOK
<1>6. ASSUME NEW r \in Requests, Replay(r) PROVE AnnotationsTypeOK'
  <2>1. UNCHANGED <<comment, rvf, chain, torn, todo, lister>>
    BY <1>6 DEF Replay, Records
  <2>2. PICK report \in Reports(rvf[r].reason) \cup Unreadable :
           Report(r, report) /\ witnessed' = [witnessed EXCEPT ![r] = Append(@, report)]
    BY <1>6 DEF Replay
  <2>3. rvf[r].reason \in AllReasons
    BY DEF AnnotationsTypeOK, RequestRecord
  <2>4. report \in Reported
    BY <2>3, ReportedReports DEF Unreadable
  <2>5. runner' \in [Requests -> [at : Places, reports : Seq(Reported)]]
    BY <2>2, <2>4, ReportTyped
  <2>6. witnessed' \in [Requests -> Seq(Reported)]
    BY <2>2, <2>4 DEF AnnotationsTypeOK
  <2> QED  BY <2>1, <2>5, <2>6 DEF AnnotationsTypeOK
<1>7. ASSUME NEW r \in Requests, Settle(r) PROVE AnnotationsTypeOK'
  <2> DEFINE rec == Settlement(r)
  <2>1. /\ todo' = Replayed(r, rec) \o <<Outcome(r, rec)>> \o ProtectedClaim(r, rec) \o <<Request(r, rec)>>
        /\ runner' = [runner EXCEPT ![r] = NoRunner] /\ UNCHANGED <<comment, rvf, chain, torn, lister, witnessed>>
    BY <1>7 DEF Settle, Begin, Records
  <2>2. rec \in RequestRecord
    BY SettlementTyped
  <2> HIDE DEF rec
  <2>3. todo' \in Seq(Writes)
    BY <2>1, <2>2, SettleWrites
  <2>4. NoRunner \in [at : Places, reports : Seq(Reported)]
    BY DEF NoRunner, Places
  <2>5. runner' \in [Requests -> [at : Places, reports : Seq(Reported)]]
    BY <2>1, <2>4 DEF AnnotationsTypeOK
  <2> QED  BY <2>1, <2>3, <2>5 DEF AnnotationsTypeOK
<1> QED  BY <1>1, <1>2, <1>3, <1>4, <1>5, <1>6, <1>7 DEF Reverifying

LEMMA WritingTyped ==
    ASSUME AnnotationsTypeOK, Writing PROVE AnnotationsTypeOK'
<1>1. ASSUME NEW kind, Pending(kind)
      PROVE  todo # <<>> /\ Head(todo) \in Writes /\ Head(todo).w = kind /\ Tail(todo) \in Seq(Writes)
  BY <1>1, FirstWrite DEF Pending
<1>2. CASE WriteComment
  <2>1. Head(todo).id \in Comments /\ Head(todo).rec \in CommentRecord /\ Tail(todo) \in Seq(Writes)
    BY <1>1, <1>2, WriteTyped DEF WriteComment
  <2>2. comment' \in [Comments -> CommentRecord]
    BY <1>2, <2>1 DEF WriteComment, AnnotationsTypeOK
  <2> QED  BY <1>2, <2>1, <2>2 DEF WriteComment, AnnotationsTypeOK
<1>3. CASE WriteRequest
  <2> DEFINE r == Head(todo).id  rec == Head(todo).rec
  <2>1. r \in Requests /\ rec \in RequestRecord /\ Tail(todo) \in Seq(Writes)
    BY <1>1, <1>3, WriteTyped DEF WriteRequest
  <2>2. rvf' = [rvf EXCEPT ![r] = rec] /\ todo' = Tail(todo)
        /\ UNCHANGED <<comment, chain, torn, runner, lister, witnessed>>
    BY <1>3 DEF WriteRequest
  <2> HIDE DEF r, rec
  <2>3. rvf' \in [Requests -> RequestRecord]
    BY <2>1, <2>2 DEF AnnotationsTypeOK
  <2>4. PICK bound \in Nat : \A q \in Requests : rvf[q].crev <= bound
    BY DEF AnnotationsTypeOK
  <2>5. rec.crev \in Nat /\ \A q \in Requests : rvf[q].crev \in Nat
    BY <2>1 DEF RequestRecord, AnnotationsTypeOK
  <2>6. \A q \in Requests : rvf'[q] = IF q = r THEN rec ELSE rvf[q]
    BY <2>1, <2>2 DEF AnnotationsTypeOK
  <2>7. bound + rec.crev \in Nat /\ \A q \in Requests : rvf'[q].crev <= bound + rec.crev
    BY <2>4, <2>5, <2>6
  <2> QED  BY <2>1, <2>2, <2>3, <2>7 DEF AnnotationsTypeOK
<1>4. CASE AppendEvent
  <2> DEFINE s == Head(todo).id  e == Head(todo).rec
  <2>1. s \in Subjects /\ e \in EventRecord /\ Tail(todo) \in Seq(Writes)
    BY <1>1, <1>4, WriteTyped DEF AppendEvent
  <2>2. chain' = [chain EXCEPT ![s] = Append(@, e)] /\ todo' = Tail(todo)
        /\ UNCHANGED <<comment, rvf, torn, runner, lister, witnessed>>
    BY <1>4 DEF AppendEvent, Records
  <2> HIDE DEF s, e
  <2>3. chain' \in [Subjects -> Seq(EventRecord)]
    BY <2>1, <2>2 DEF AnnotationsTypeOK
  <2> QED  BY <2>1, <2>2, <2>3 DEF AnnotationsTypeOK
<1>5. CASE ChainInvalid
  <2>1. NoLister \in Listings /\ NoLister.left \subseteq DOMAIN NoLister.records
    BY NoListerTyped
  <2>2. todo' \in Seq(Writes) /\ UNCHANGED <<comment, rvf, chain, torn, runner, witnessed>>
    BY <1>5 DEF ChainInvalid, Records
  <2>3. lister' \in Listings /\ lister'.left \subseteq DOMAIN lister'.records
    BY <1>5, <2>1 DEF ChainInvalid, AnnotationsTypeOK
  <2> QED  BY <2>2, <2>3 DEF AnnotationsTypeOK
<1>6. CASE Unlock
  <2>1. todo' \in Seq(Writes) /\ UNCHANGED <<comment, rvf, chain, torn, witnessed>>
    BY <1>1, <1>6 DEF Unlock, Records
  <2>2. CASE Pending("thread") /\ runner' = [runner EXCEPT ![Head(todo).id].at = Head(todo).rec] /\ UNCHANGED lister
    <3>1. Head(todo).id \in Requests /\ Head(todo).rec \in Places
      BY <1>1, <2>2, WriteTyped
    <3>2. runner' \in [Requests -> [at : Places, reports : Seq(Reported)]]
      BY <2>2, <3>1 DEF AnnotationsTypeOK
    <3> QED  BY <2>1, <2>2, <3>2 DEF AnnotationsTypeOK
  <2>3. CASE lister' = [lister EXCEPT !.at = "scan"] /\ UNCHANGED runner
    <3>1. lister' \in Listings /\ lister'.left \subseteq DOMAIN lister'.records
      BY <2>3 DEF AnnotationsTypeOK, Listings
    <3> QED  BY <2>1, <2>3, <3>1 DEF AnnotationsTypeOK
  <2> QED  BY <1>6, <2>2, <2>3 DEF Unlock
<1> QED  BY <1>2, <1>3, <1>4, <1>5, <1>6 DEF Writing

LEMMA RestTyped ==
    ASSUME AnnotationsTypeOK, EditSource \/ Crash \/ UNCHANGED vars PROVE AnnotationsTypeOK'
<1>1. CASE EditSource \/ UNCHANGED vars
  BY <1>1 DEF EditSource, Records, vars, AnnotationsTypeOK
<1>2. CASE Crash
  <2>1. NoLister \in Listings /\ NoLister.left \subseteq DOMAIN NoLister.records
    BY NoListerTyped
  <2>2. NoRunner \in [at : Places, reports : Seq(Reported)]
    BY DEF NoRunner, Places
  <2>3. runner' \in [Requests -> [at : Places, reports : Seq(Reported)]]
    BY <1>2, <2>2 DEF Crash
  <2>4. lister' = NoLister /\ UNCHANGED <<comment, rvf, chain, witnessed>> /\ todo' = <<>>
    BY <1>2 DEF Crash, Records
  <2>5. torn' \in BOOLEAN
    BY <1>2 DEF Crash, AnnotationsTypeOK
  <2>6. todo' \in Seq(Writes)
    BY <2>4
  <2> QED  BY <2>1, <2>3, <2>4, <2>5, <2>6 DEF AnnotationsTypeOK
<1> QED  BY <1>1, <1>2

(* Every variable stays in its type.                                       *)
LEMMA NextTyped ==
    ASSUME AnnotationsTypeOK, [Next]_vars PROVE AnnotationsTypeOK'
  BY CommentingTyped, ListingTyped, ReverifyingTyped, WritingTyped, RestTyped DEF Next

LEMMA InitTyped == Init => AnnotationsTypeOK
<1> SUFFICES ASSUME Init PROVE AnnotationsTypeOK
  OBVIOUS
<1>1. NoComment \in CommentRecord
  BY NaturalBounds DEF NoComment, CommentRecord, AllClaims
<1>2. NoRequest \in RequestRecord
  BY DEF NoRequest, RequestRecord, AllClaims, AllReasons
<1>3. NoRunner \in [at : Places, reports : Seq(Reported)]
  BY DEF NoRunner, Places
<1>4. NoLister \in Listings /\ NoLister.left \subseteq DOMAIN NoLister.records
  BY NoListerTyped
<1>5. rvf \in [Requests -> RequestRecord] /\ \A r \in Requests : rvf[r].crev <= 0
  <2>1. NoRequest.crev = 0
    BY DEF NoRequest
  <2> QED  BY <1>2, <2>1 DEF Init
<1>6. comment \in [Comments -> CommentRecord] /\ runner \in [Requests -> [at : Places, reports : Seq(Reported)]]
  BY <1>1, <1>3 DEF Init
<1>7. chain \in [Subjects -> Seq(EventRecord)] /\ witnessed \in [Requests -> Seq(Reported)] /\ todo \in Seq(Writes)
  BY DEF Init
<1>8. lister = NoLister /\ torn \in BOOLEAN /\ 0 \in Nat
  BY DEF Init
<1> QED  BY <1>4, <1>5, <1>6, <1>7, <1>8 DEF AnnotationsTypeOK

-----------------------------------------------------------------------------
(* Human annotations: the comments.                                        *)

(* A comment that was never created is blank, and comments are created in  *)
(* the order of their numbers.                                             *)
CommentsNumbered ==
    /\ \E num \in 0..MaxComments : \A c \in Comments : Exists(c) <=> c <= num
    /\ \A c \in Comments : ~Exists(c) => comment[c].supersedes = 0 /\ comment[c].by = 0

(* A record that comment c has or may have: its link leads to a comment    *)
(* that supersedes c.                                                      *)
Version(c, rec) ==
    /\ Exists(c) /\ rec.status # "absent" /\ rec.supersedes = comment[c].supersedes
    /\ rec.by # 0 => comment[rec.by].supersedes = c

VersionsOnDisk == \A c \in Comments : Exists(c) => Version(c, comment[c])
VersionsListed == \A c \in DOMAIN lister.records : Version(c, lister.records[c])

(* The creation of a comment is the first write of its request, and the    *)
(* link to it comes later.                                                 *)
Creates(i) ==
    /\ i = 1 /\ todo[i].rec.status # "absent" /\ todo[i].rec.by = 0
    /\ \A c \in Comments : Exists(c) <=> c < todo[i].id

Relinks(i) ==
    /\ i > 1 /\ Exists(todo[i].id) /\ todo[i].rec.status # "absent"
    /\ todo[i].rec.supersedes = comment[todo[i].id].supersedes
    /\ todo[1].w = "comment" /\ todo[1].id = todo[i].rec.by /\ todo[1].rec.supersedes = todo[i].id

VersionsToWrite ==
    \A i \in 1..Len(todo) : todo[i].w = "comment" =>
        Creates(i) \/ Relinks(i) \/ Version(todo[i].id, todo[i].rec)

CommentsIInv ==
    AnnotationsTypeOK /\ CommentsNumbered /\ VersionsOnDisk /\ VersionsListed /\ VersionsToWrite

(* What is said of the comments stays true while they rest.                *)
LEMMA CommentsRest ==
    ASSUME CommentsIInv, UNCHANGED comment, AnnotationsTypeOK',
           lister'.records = lister.records \/ VersionsListed',
           VersionsToWrite'
    PROVE  CommentsIInv'
<1>1. CommentsNumbered' /\ VersionsOnDisk'
  BY DEF CommentsIInv, CommentsNumbered, VersionsOnDisk, Version, Exists
<1>2. VersionsListed'
  BY DEF CommentsIInv, VersionsListed, Version, Exists
<1> QED  BY <1>1, <1>2 DEF CommentsIInv

(* The first write done, the others are as sound as before.                *)
LEMMA OthersRest ==
    ASSUME CommentsIInv, UNCHANGED comment, todo # <<>>, todo' = Tail(todo), todo[1].w # "comment"
    PROVE  VersionsToWrite'
<1> SUFFICES ASSUME NEW i \in 1..Len(todo'), todo'[i].w = "comment"
             PROVE  Version(todo[i].id, todo[i].rec)'
  BY DEF VersionsToWrite
<1>1. /\ Len(todo) \in Nat /\ todo'[i] = todo[i + 1] /\ i + 1 \in 1..Len(todo) /\ i \in Nat /\ i > 0
  BY FirstWrite DEF CommentsIInv
<1>2. Creates(i + 1) \/ Relinks(i + 1) \/ Version(todo[i + 1].id, todo[i + 1].rec)
  BY <1>1 DEF CommentsIInv, VersionsToWrite
<1>3. ~Creates(i + 1) /\ ~Relinks(i + 1)
  BY <1>1 DEF Creates, Relinks
<1> QED  BY <1>1, <1>2, <1>3 DEF Version, Exists

(* A version of a comment stays one when another comment is written, or a  *)
(* version of this one.                                                    *)
LEMMA VersionKept ==
    ASSUME CommentsNumbered,
           \A d \in Comments : Exists(d) => Exists(d)' /\ comment'[d].supersedes = comment[d].supersedes,
           NEW c \in Comments, NEW rec \in CommentRecord, Version(c, rec)
    PROVE  Version(c, rec)'
<1>1. rec.by \in 0..MaxComments /\ MaxComments \in Nat /\ c > 0
  BY NaturalBounds DEF CommentRecord, Comments
<1>2. rec.by # 0 => rec.by \in Comments /\ Exists(rec.by)
  BY <1>1 DEF Comments, Version, CommentsNumbered
<1> QED  BY <1>2 DEF Version

LEMMA WriteCommentStep ==
    ASSUME CommentsIInv, AnnotationsTypeOK', WriteComment PROVE CommentsIInv'
<1> DEFINE c == Head(todo).id  rec == Head(todo).rec
<1>1. /\ todo # <<>> /\ comment' = [comment EXCEPT ![c] = rec] /\ todo' = Tail(todo) /\ lister' = lister
      /\ Head(todo).w = "comment"
  BY DEF WriteComment, Pending
<1>2. /\ Len(todo) \in Nat /\ Len(todo) > 0 /\ todo[1].w = "comment" /\ todo[1].id = c /\ todo[1].rec = rec
      /\ Len(todo') = Len(todo) - 1
      /\ \A i \in 1..Len(todo') : todo'[i] = todo[i + 1] /\ i + 1 \in 1..Len(todo)
      /\ todo[1] \in Writes
  BY <1>1, FirstWrite DEF CommentsIInv
<1>3. c \in Comments /\ rec \in CommentRecord
  BY <1>2, WriteTyped
<1>4. Creates(1) \/ Version(c, rec)
  <2>1. 1 \in 1..Len(todo)
    BY <1>2
  <2>2. Creates(1) \/ Relinks(1) \/ Version(c, rec)
    BY <1>2, <2>1 DEF CommentsIInv, VersionsToWrite
  <2> QED  BY <2>2 DEF Relinks
<1>5. PICK id, new : id = c /\ new = rec
  OBVIOUS
<1> HIDE DEF c, rec
<1>6. \A d \in Comments : comment'[d] = IF d = c THEN rec ELSE comment[d]
  BY <1>1, <1>3 DEF CommentsIInv, AnnotationsTypeOK
<1>7. rec.status # "absent" /\ (Creates(1) => ~Exists(c) /\ rec.by = 0)
  BY <1>2, <1>3, <1>4 DEF Creates, Version, Comments
<1>8. \A d \in Comments : Exists(d) => Exists(d)' /\ comment'[d].supersedes = comment[d].supersedes
  BY <1>4, <1>6, <1>7 DEF Exists, Version
<1>9. CommentsNumbered'
  <2>1. \A d \in Comments : ~Exists(d)' => comment'[d].supersedes = 0 /\ comment'[d].by = 0
    BY <1>6, <1>7, <1>8 DEF Exists, CommentsIInv, CommentsNumbered
  <2>2. CASE Creates(1)
    <3>1. \A d \in Comments : Exists(d) <=> d < c
      BY <1>2, <2>2 DEF Creates
    <3>2. \A d \in Comments : Exists(d)' <=> d <= c
      BY <1>3, <1>6, <1>7, <3>1 DEF Exists, Comments
    <3>3. c \in 0..MaxComments
      BY <1>3, NaturalBounds DEF Comments
    <3> QED  BY <2>1, <3>2, <3>3 DEF CommentsNumbered
  <2>3. CASE Version(c, rec)
    <3>1. \A d \in Comments : Exists(d)' <=> Exists(d)
      BY <1>6, <1>7, <2>3 DEF Exists, Version
    <3> QED  BY <2>1, <3>1 DEF CommentsIInv, CommentsNumbered
  <2> QED  BY <1>4, <2>2, <2>3
<1>10. CommentsNumbered
  BY DEF CommentsIInv
<1>11. Version(id, new)'
  <2>1. CASE Version(id, new)
    BY <1>3, <1>5, <1>8, <1>10, <2>1, VersionKept
  <2>2. CASE Creates(1)
    BY <1>3, <1>5, <1>6, <1>7, <2>2 DEF Version, Exists
  <2> QED  BY <1>4, <1>5, <2>1, <2>2
<1>12. VersionsOnDisk'
  <2> SUFFICES ASSUME NEW d \in Comments, Exists(d)' PROVE Version(d, comment[d])'
    BY DEF VersionsOnDisk
  <2>1. CASE d = c
    BY <1>5, <1>6, <1>11, <2>1 DEF Version, Exists
  <2>2. CASE d # c
    <3>1. PICK old : old = comment[d]
      OBVIOUS
    <3>2. old \in CommentRecord /\ Version(d, old) /\ comment'[d] = old
      BY <1>6, <2>2, <3>1 DEF Exists, CommentsIInv, VersionsOnDisk, AnnotationsTypeOK
    <3>3. Version(d, old)'
      BY <1>8, <1>10, <3>2, VersionKept
    <3> QED  BY <3>2, <3>3 DEF Version
  <2> QED  BY <2>1, <2>2
<1>13. VersionsListed'
  <2> SUFFICES ASSUME NEW d \in DOMAIN lister'.records PROVE Version(d, lister.records[d])'
    BY DEF VersionsListed
  <2>1. PICK old : old = lister.records[d]
    OBVIOUS
  <2>2. d \in Comments /\ old \in CommentRecord /\ Version(d, old)
    BY <1>1, <2>1 DEF CommentsIInv, VersionsListed, AnnotationsTypeOK, Listings
  <2>3. Version(d, old)'
    BY <1>8, <1>10, <2>2, VersionKept
  <2> QED  BY <1>1, <2>1, <2>3 DEF Version
<1>14. VersionsToWrite'
  <2> SUFFICES ASSUME NEW i \in 1..Len(todo'), todo'[i].w = "comment"
               PROVE  Version(todo[i].id, todo[i].rec)'
    BY DEF VersionsToWrite
  <2>1. PICK d, linked : d = todo[i + 1].id /\ linked = todo[i + 1].rec
    OBVIOUS
  <2>2. /\ todo'[i] = todo[i + 1] /\ i + 1 \in 1..Len(todo) /\ i + 1 > 1 /\ todo[i + 1].w = "comment"
        /\ todo[i + 1] \in Writes
    BY <1>2 DEF CommentsIInv, AnnotationsTypeOK
  <2>3. d \in Comments /\ linked \in CommentRecord
    BY <2>1, <2>2, WriteTyped
  <2>4. Relinks(i + 1) \/ Version(d, linked)
    BY <2>1, <2>2 DEF CommentsIInv, VersionsToWrite, Creates
  <2>5. Version(d, linked)'
    <3>1. CASE Version(d, linked)
      BY <1>8, <1>10, <2>3, <3>1, VersionKept
    <3>2. CASE Relinks(i + 1)
      <4>1. /\ Exists(d) /\ linked.status # "absent" /\ linked.supersedes = comment[d].supersedes
            /\ linked.by = c /\ rec.supersedes = d
        BY <1>2, <2>1, <3>2 DEF Relinks
      <4>2. Exists(d)' /\ comment'[d].supersedes = comment[d].supersedes /\ comment'[c] = rec
        BY <1>3, <1>6, <1>8, <2>3, <4>1
      <4> QED  BY <4>1, <4>2 DEF Version
    <3> QED  BY <2>4, <3>1, <3>2
  <2> QED  BY <2>1, <2>2, <2>5 DEF Version
<1> QED  BY <1>9, <1>12, <1>13, <1>14 DEF CommentsIInv

LEMMA NextCommentIsFree ==
    ASSUME CommentsNumbered
    PROVE  \A c \in Comments : Exists(c) <=> c < NextComment
<1> DEFINE S == {c \in Comments : Exists(c)}
<1>1. PICK num \in 0..MaxComments : \A c \in Comments : Exists(c) <=> c <= num
  BY DEF CommentsNumbered
<1>2. S = 1..num
  BY <1>1, NaturalBounds DEF Comments
<1> HIDE DEF S
<1>3. \E m \in 0..MaxComments : S = 1..m
  BY <1>1, <1>2
<1>4. \A c \in 1..MaxComments : c \in S <=> c < 1 + Cardinality(S)
  BY <1>3, NaturalBounds, NextIsFree
<1> QED  BY <1>4 DEF S, NextComment, Comments

LEMMA RevisedKeeps ==
    ASSUME NEW rec \in CommentRecord
    PROVE  /\ Revised(rec) \in CommentRecord /\ Revised(rec).status = rec.status
           /\ Revised(rec).supersedes = rec.supersedes /\ Revised(rec).by = rec.by
  BY DEF CommentRecord, Revised

(* Requests about comments.                                                *)
LEMMA CreateStep ==
    ASSUME CommentsIInv, AnnotationsTypeOK', NEW claim, claim \in AllClaims, NextComment \in Comments,
           Begin(Created(claim, 0)), Quiet
    PROVE  CommentsIInv'
<1>1. /\ todo' = Created(claim, 0) /\ UNCHANGED <<comment, lister>>
  BY DEF Begin, Quiet, Records
<1>2. 0 \in 0..MaxComments
  BY NaturalBounds
<1>3. /\ Len(todo') = 2 /\ todo'[1].w = "comment" /\ todo'[1].id = NextComment
      /\ todo'[1].rec.status = "open" /\ todo'[1].rec.by = 0 /\ todo'[2].w = "event"
  BY <1>1, <1>2, CreatedTyped
<1>4. \A c \in Comments : Exists(c) <=> c < NextComment
  BY NextCommentIsFree DEF CommentsIInv
<1>5. Creates(1)'
  BY <1>1, <1>3, <1>4 DEF Creates, Exists
<1>6. \A i \in 1..Len(todo') : i = 1 \/ todo'[i].w # "comment"
  BY <1>3
<1>7. VersionsToWrite'
  BY <1>5, <1>6 DEF VersionsToWrite
<1> QED  BY <1>1, <1>7, CommentsRest

LEMMA UpdateStep ==
    ASSUME CommentsIInv, AnnotationsTypeOK', NEW c \in Comments,
           NEW status \in {"open", "resolved", "withdrawn"}, UpdateComment(c, status)
    PROVE  CommentsIInv'
<1> DEFINE v == [comment[c] EXCEPT !.status = status]  rec == Revised(v)
           e == Event(<<"comment", c>>, [kind |-> status])
<1>1. todo' = <<Comment(c, rec), e>> /\ UNCHANGED <<comment, lister>>
  BY DEF UpdateComment, Begin, Quiet, Records
<1>2. Exists(c)
  BY DEF UpdateComment, Transitions, Exists
<1>3. comment[c] \in CommentRecord
  BY DEF CommentsIInv, AnnotationsTypeOK
<1>4. v \in CommentRecord /\ v.status = status /\ v.supersedes = comment[c].supersedes /\ v.by = comment[c].by
  BY <1>3 DEF CommentRecord
<1> HIDE DEF v
<1>5. rec \in CommentRecord /\ rec.status = status /\ rec.supersedes = comment[c].supersedes /\ rec.by = comment[c].by
  BY <1>4, RevisedKeeps
<1> HIDE DEF rec
<1>6. Comment(c, rec).w = "comment" /\ Comment(c, rec).id = c /\ Comment(c, rec).rec = rec
  BY <1>5, CommentWrite
<1>7. e.w = "event"
  BY DEF Event
<1> HIDE DEF e
<1>8. Version(c, rec)
  BY <1>2, <1>3, <1>5 DEF CommentsIInv, VersionsOnDisk, Version
<1>9. /\ Len(todo') = 2 /\ todo'[1].w = "comment" /\ todo'[1].id = c /\ todo'[1].rec = rec
      /\ todo'[2].w # "comment"
  BY <1>1, <1>6, <1>7
<1>10. Version(todo[1].id, todo[1].rec)'
  BY <1>1, <1>8, <1>9 DEF Version, Exists
<1>11. \A i \in 1..Len(todo') : i = 1 \/ todo'[i].w # "comment"
  BY <1>9
<1>12. VersionsToWrite'
  BY <1>10, <1>11 DEF VersionsToWrite
<1> QED  BY <1>1, <1>12, CommentsRest

LEMMA ReanchorStep ==
    ASSUME CommentsIInv, AnnotationsTypeOK', NEW c \in Comments, ReanchorComment(c)
    PROVE  CommentsIInv'
<1> DEFINE num == NextComment  v == [comment[c] EXCEPT !.by = num]  rec == Revised(v)
           e == Event(<<"comment", c>>, [kind |-> "superseded"])
           first == Created(comment[c].claim, c)  link == <<Comment(c, rec), e>>
<1>1. todo' = first \o link /\ UNCHANGED <<comment, lister>> /\ Exists(c) /\ num \in Comments
  BY DEF ReanchorComment, Begin, Quiet, Records
<1>2. comment[c] \in CommentRecord /\ c \in 0..MaxComments
  BY NaturalBounds DEF CommentsIInv, AnnotationsTypeOK, Comments
<1>3. comment[c].claim \in AllClaims
  BY <1>2 DEF CommentRecord
<1>4. \A d \in Comments : Exists(d) <=> d < num
  BY NextCommentIsFree DEF CommentsIInv
<1>5. /\ first \in Seq(Writes) /\ Len(first) = 2 /\ first[1].w = "comment" /\ first[1].id = num
      /\ first[1].rec.status = "open" /\ first[1].rec.by = 0 /\ first[1].rec.supersedes = c
      /\ first[2].w = "event"
  BY <1>1, <1>2, <1>3, CreatedTyped
<1> HIDE DEF num, first
<1>6. v \in CommentRecord /\ v.status = comment[c].status /\ v.supersedes = comment[c].supersedes /\ v.by = num
  <2>1. num \in 0..MaxComments
    BY <1>1 DEF Comments
  <2> QED  BY <1>2, <2>1 DEF CommentRecord
<1> HIDE DEF v
<1>7. rec \in CommentRecord /\ rec.status # "absent" /\ rec.supersedes = comment[c].supersedes /\ rec.by = num
  BY <1>1, <1>6, RevisedKeeps DEF Exists
<1> HIDE DEF rec
<1>8. /\ Comment(c, rec) \in Writes /\ Comment(c, rec).w = "comment"
      /\ Comment(c, rec).id = c /\ Comment(c, rec).rec = rec
  BY <1>7, CommentWrite
<1>9. e \in Writes /\ e.w = "event"
  BY KindWrite DEF Kinds
<1> HIDE DEF e
<1>10. link \in Seq(Writes) /\ Len(link) = 2 /\ link[1] = Comment(c, rec) /\ link[2] = e
  BY <1>8, <1>9
<1> HIDE DEF link
<1>11. /\ Len(first \o link) = 4
       /\ \A i \in 1..4 : (first \o link)[i] = IF i <= 2 THEN first[i] ELSE link[i - 2]
  <2>1. /\ Len(first \o link) = Len(first) + Len(link)
        /\ \A i \in 1..Len(first) + Len(link) :
              (first \o link)[i] = IF i <= Len(first) THEN first[i] ELSE link[i - Len(first)]
    BY <1>5, <1>10, ConcatProperties
  <2> QED  BY <1>5, <1>10, <2>1
<1>12. Len(todo') = 4 /\ todo'[1] = first[1] /\ todo'[2] = first[2] /\ todo'[3] = link[1] /\ todo'[4] = link[2]
  BY <1>1, <1>11
<1>13. Creates(1)'
  BY <1>1, <1>4, <1>5, <1>12 DEF Creates, Exists
<1>14. Relinks(3)'
  BY <1>1, <1>5, <1>7, <1>8, <1>10, <1>12 DEF Relinks, Exists
<1>15. \A i \in 1..Len(todo') : i \in {1, 3} \/ todo'[i].w # "comment"
  BY <1>5, <1>9, <1>10, <1>12
<1>16. VersionsToWrite'
  BY <1>13, <1>14, <1>15 DEF VersionsToWrite
<1> QED  BY <1>1, <1>16, CommentsRest

LEMMA MarkStep ==
    ASSUME CommentsIInv, AnnotationsTypeOK', NEW c \in Comments, MarkOutdated(c)
    PROVE  CommentsIInv'
<1> DEFINE old == lister.records[c]  v == [old EXCEPT !.status = "outdated"]  rec == Revised(v)
           e == Event(<<"comment", c>>, [kind |-> "outdated"])
<1>1. /\ todo' = <<Comment(c, rec), e, Listed>> /\ UNCHANGED comment /\ lister'.records = lister.records
  BY DEF MarkOutdated, Begin, Records, CommentsIInv, AnnotationsTypeOK, Listings
<1>2. c \in DOMAIN lister.records
  BY DEF MarkOutdated, CommentsIInv, AnnotationsTypeOK
<1>3. old \in CommentRecord /\ Version(c, old)
  BY <1>2 DEF CommentsIInv, AnnotationsTypeOK, Listings, VersionsListed
<1> HIDE DEF old
<1>4. v \in CommentRecord /\ v.status = "outdated" /\ v.supersedes = old.supersedes /\ v.by = old.by
  BY <1>3 DEF CommentRecord
<1> HIDE DEF v
<1>5. rec \in CommentRecord /\ rec.status = "outdated" /\ rec.supersedes = old.supersedes /\ rec.by = old.by
  BY <1>4, RevisedKeeps
<1> HIDE DEF rec
<1>6. Comment(c, rec).w = "comment" /\ Comment(c, rec).id = c /\ Comment(c, rec).rec = rec
  BY <1>5, CommentWrite
<1>7. e.w = "event" /\ Listed.w = "listed"
  BY DEF Event, Listed
<1> HIDE DEF e
<1>8. Version(c, rec)
  BY <1>3, <1>5 DEF Version
<1>9. /\ Len(todo') = 3 /\ todo'[1].w = "comment" /\ todo'[1].id = c /\ todo'[1].rec = rec
      /\ todo'[2].w # "comment" /\ todo'[3].w # "comment"
  BY <1>1, <1>6, <1>7
<1>10. Version(todo[1].id, todo[1].rec)'
  BY <1>1, <1>8, <1>9 DEF Version, Exists
<1>11. \A i \in 1..Len(todo') : i = 1 \/ todo'[i].w # "comment"
  BY <1>9
<1>12. VersionsToWrite'
  BY <1>10, <1>11 DEF VersionsToWrite
<1> QED  BY <1>1, <1>12, CommentsRest

(* A step that writes no comment and asks for none.                        *)
LEMMA NoComments ==
    ASSUME CommentsIInv, AnnotationsTypeOK', UNCHANGED comment,
           lister' = lister \/ lister'.records = lister.records \/ lister' = NoLister,
           todo' = todo \/ \A i \in 1..Len(todo') : todo'[i].w # "comment"
    PROVE  CommentsIInv'
<1>1. lister'.records = lister.records \/ VersionsListed'
  BY DEF NoLister, VersionsListed
<1>2. VersionsToWrite'
  BY DEF CommentsIInv, VersionsToWrite, Creates, Relinks, Version, Exists
<1> QED  BY <1>1, <1>2, CommentsRest

LEMMA WritingKeepsComments ==
    ASSUME CommentsIInv, AnnotationsTypeOK', Writing PROVE CommentsIInv'
<1>1. ASSUME NEW kind, Pending(kind), kind # "comment", todo' = Tail(todo), UNCHANGED comment
      PROVE  VersionsToWrite'
  <2>1. todo # <<>> /\ todo[1].w = kind
    BY <1>1, FirstWrite DEF Pending, CommentsIInv
  <2> QED  BY <1>1, <2>1, OthersRest
<1>2. CASE WriteComment
  BY <1>2, WriteCommentStep
<1>3. CASE WriteRequest \/ AppendEvent \/ Unlock
  <2>1. UNCHANGED comment /\ lister'.records = lister.records
    BY <1>3 DEF WriteRequest, AppendEvent, Unlock, Records, CommentsIInv, AnnotationsTypeOK, Listings
  <2>2. VersionsToWrite'
    BY <1>1, <1>3, <2>1 DEF WriteRequest, AppendEvent, Unlock
  <2> QED  BY <2>1, <2>2, CommentsRest
<1>4. CASE ChainInvalid
  <2>1. UNCHANGED comment /\ todo' = <<>> /\ (lister' = lister \/ lister' = NoLister)
    BY <1>4 DEF ChainInvalid, Records
  <2>2. \A i \in 1..Len(todo') : todo'[i].w # "comment"
    BY <2>1
  <2> QED  BY <2>1, <2>2, NoComments
<1> QED  BY <1>2, <1>3, <1>4 DEF Writing

(* Requests about re-verifications write no comment.                       *)
LEMMA ReverifyingKeepsComments ==
    ASSUME CommentsIInv, AnnotationsTypeOK', Reverifying PROVE CommentsIInv'
<1>1. AnnotationsTypeOK
  BY DEF CommentsIInv
<1>2. UNCHANGED <<comment, lister>>
  BY DEF Reverifying, RequestReverification, ApproveReverification, RejectReverification, RunBegins,
         CheckSource, Replay, Settle, Quiet, Records
<1>3. \A r, rec : Request(r, rec).w = "rvf"
  BY DEF Request
<1>4. \A r, place : Thread(r, place).w = "thread"
  BY DEF Thread
<1>5. \A s, e : Event(s, e).w = "event"
  BY DEF Event
<1>6. todo' = todo \/ \A i \in 1..Len(todo') : todo'[i].w # "comment"
  <2>1. ASSUME NEW c \in Comments, NEW reason \in AllReasons, RequestReverification(c, reason)
        PROVE  \A i \in 1..Len(todo') : todo'[i].w # "comment"
    <3>1. PICK rec \in RequestRecord :
            /\ NextRequest \in Requests /\ Len(todo') = 3
            /\ todo'[1] = Request(NextRequest, rec) /\ todo'[2].w = "event" /\ todo'[3].w = "event"
      BY <1>1, <2>1, ChallengeWrites
    <3> QED  BY <1>3, <3>1
  <2>2. ASSUME NEW r \in Requests, ApproveReverification(r)
        PROVE  \A i \in 1..Len(todo') : todo'[i].w # "comment"
    <3>1. PICK rec \in RequestRecord :
            /\ Len(todo') = 3 /\ todo'[1] = Event(<<"rvf", r>>, [kind |-> "approved"])
            /\ todo'[2] = Request(r, rec) /\ todo'[3] = Thread(r, "start")
      BY <1>1, <2>2, ApprovalWrites
    <3> QED  BY <1>3, <1>4, <1>5, <3>1
  <2>3. ASSUME NEW r \in Requests, RejectReverification(r)
        PROVE  \A i \in 1..Len(todo') : todo'[i].w # "comment"
    <3>1. PICK rec \in RequestRecord :
            Len(todo') = 2 /\ todo'[1] = Request(r, rec) /\ todo'[2].w = "event"
      BY <1>1, <2>3, RejectionWrites
    <3> QED  BY <1>3, <3>1
  <2>4. ASSUME NEW r \in Requests, RunBegins(r)
        PROVE  \A i \in 1..Len(todo') : todo'[i].w # "comment"
    <3> DEFINE rec == [rvf[r] EXCEPT !.status = "replaying"]
               place == IF rvf[r].reason = "other" THEN "settle" ELSE "check"
    <3>1. todo' = <<Request(r, rec), Thread(r, place)>> \/ todo' = <<Thread(r, "none")>>
      BY <2>4 DEF RunBegins, Begin
    <3>2. Request(r, rec).w = "rvf" /\ Thread(r, place).w = "thread" /\ Thread(r, "none").w = "thread"
      BY <1>3, <1>4
    <3> HIDE DEF rec, place
    <3> QED  BY <3>1, <3>2
  <2>5. ASSUME NEW r \in Requests, CheckSource(r) \/ Replay(r) PROVE todo' = todo
    BY <2>5 DEF CheckSource, Replay
  <2>6. ASSUME NEW r \in Requests, Settle(r)
        PROVE  \A i \in 1..Len(todo') : todo'[i].w # "comment"
    <3> DEFINE rec == Settlement(r)
    <3>1. rec \in RequestRecord
      BY <1>1, SettlementTyped
    <3>2. todo' = Replayed(r, rec) \o <<Outcome(r, rec)>> \o ProtectedClaim(r, rec) \o <<Request(r, rec)>>
      BY <2>6 DEF Settle, Begin
    <3> HIDE DEF rec
    <3>3. /\ todo'[Len(todo')] = Request(r, rec) /\ todo' \in Seq(Writes)
          /\ \A i \in 1..Len(todo') - 1 : todo'[i].w = "event"
      BY <3>1, <3>2, SettleWrites
    <3>4. Request(r, rec).w = "rvf"
      BY <1>3
    <3> QED  BY <3>3, <3>4
  <2> QED  BY <2>1, <2>2, <2>3, <2>4, <2>5, <2>6 DEF Reverifying
<1> QED  BY <1>2, <1>6, NoComments

LEMMA NextCommentsIInv == ASSUME CommentsIInv, [Next]_vars PROVE CommentsIInv'
<1>1. AnnotationsTypeOK'
  BY NextTyped DEF CommentsIInv
<1>2. ASSUME NEW claim, CreateComment(claim) PROVE CommentsIInv'
  <2>1. claim \in AllClaims
    BY <1>2 DEF CreateComment, ClaimSurface, AllClaims
  <2> QED  BY <1>1, <1>2, <2>1, CreateStep DEF CreateComment
<1>3. ASSUME NEW c \in Comments, ReplyComment(c) PROVE CommentsIInv'
  <2>1. comment[c].claim \in AllClaims
    BY DEF CommentsIInv, AnnotationsTypeOK, CommentRecord
  <2> QED  BY <1>1, <1>3, <2>1, CreateStep DEF ReplyComment
<1>4. ASSUME NEW c \in Comments, NEW status \in {"open", "resolved", "withdrawn"}, UpdateComment(c, status)
      PROVE  CommentsIInv'
  BY <1>1, <1>4, UpdateStep
<1>5. ASSUME NEW c \in Comments, ReanchorComment(c) PROVE CommentsIInv'
  BY <1>1, <1>5, ReanchorStep
<1>6. CASE Commenting
  BY <1>2, <1>3, <1>4, <1>5, <1>6 DEF Commenting
<1>7. CASE ListComments
  <2> DEFINE unmet == {c \in Comments : comment[c].status = "open"}  records == [c \in unmet |-> comment[c]]
  <2>1. UNCHANGED <<comment, todo>> /\ lister'.records = records
    BY <1>7 DEF ListComments, Records
  <2>2. \A c \in unmet : Version(c, comment[c])
    BY DEF CommentsIInv, VersionsOnDisk, Exists
  <2>3. DOMAIN records = unmet /\ \A c \in unmet : records[c] = comment[c]
    OBVIOUS
  <2> HIDE DEF unmet, records
  <2>4. VersionsListed'
    BY <2>1, <2>2, <2>3 DEF VersionsListed, Version, Exists
  <2>5. VersionsToWrite'
    BY <2>1 DEF CommentsIInv, VersionsToWrite, Creates, Relinks, Version, Exists
  <2> QED  BY <1>1, <2>1, <2>4, <2>5, CommentsRest
<1>8. CASE LookAtFile \/ ListDone
  <2>1. /\ UNCHANGED <<comment, todo>>
        /\ lister'.records = lister.records \/ lister' = NoLister
    BY <1>8 DEF LookAtFile, ListDone, Records, CommentsIInv, AnnotationsTypeOK, Listings
  <2> QED  BY <1>1, <2>1, NoComments
<1>9. ASSUME NEW c \in Comments, MarkOutdated(c) PROVE CommentsIInv'
  BY <1>1, <1>9, MarkStep
<1>10. CASE Listing
  BY <1>7, <1>8, <1>9, <1>10 DEF Listing
<1>11. CASE Reverifying
  BY <1>1, <1>11, ReverifyingKeepsComments
<1>12. CASE Writing
  BY <1>1, <1>12, WritingKeepsComments
<1>13. CASE EditSource \/ UNCHANGED vars
  <2>1. UNCHANGED <<comment, lister, todo>>
    BY <1>13 DEF EditSource, vars, Records
  <2> QED  BY <1>1, <2>1, NoComments
<1>14. CASE Crash
  <2>1. UNCHANGED comment /\ lister' = NoLister /\ todo' = <<>>
    BY <1>14 DEF Crash, Records
  <2>2. \A i \in 1..Len(todo') : todo'[i].w # "comment"
    BY <2>1
  <2> QED  BY <1>1, <2>1, <2>2, NoComments
<1> QED  BY <1>6, <1>10, <1>11, <1>12, <1>13, <1>14 DEF Next

LEMMA InitCommentsIInv == Init => CommentsIInv
<1> SUFFICES ASSUME Init PROVE CommentsIInv
  OBVIOUS
<1>1. \A c \in Comments : comment[c].status = "absent" /\ comment[c].supersedes = 0 /\ comment[c].by = 0
  BY DEF Init, NoComment
<1>2. CommentsNumbered
  <2>1. \A c \in Comments : Exists(c) <=> c <= 0
    BY <1>1 DEF Exists, Comments
  <2>2. 0 \in 0..MaxComments
    BY NaturalBounds
  <2> QED  BY <1>1, <2>1, <2>2 DEF CommentsNumbered
<1>3. VersionsOnDisk
  BY <1>1 DEF VersionsOnDisk, Exists
<1>4. VersionsListed
  BY DEF Init, NoLister, VersionsListed
<1>5. VersionsToWrite
  BY DEF Init, VersionsToWrite
<1> QED  BY <1>2, <1>3, <1>4, <1>5, InitTyped DEF CommentsIInv

(* The inductive invariant of the comments: what is on disk, what a        *)
(* listing read and what has still to be written agree on who supersedes   *)
(* whom, in any order of the writes and with any of them lost.             *)
THEOREM CommentsIInvHolds == Spec => []CommentsIInv
  BY InitCommentsIInv, NextCommentsIInv, PTL DEF Spec

-----------------------------------------------------------------------------
(* Human annotations: the re-verifications.                                *)

Confirmed(r) == Said(r, "approved") # {}

(* The chain holds the outcome of rec, after a confirmation.               *)
OnChain(r, rec) ==
    \E i \in Said(r, rec.outcome) :
        /\ chain[<<"rvf", r>>][i].crev = rec.crev
        /\ \E j \in Said(r, "approved") : j < i

(* The reruns from which a challenge of a flaky result is judged.          *)
Certain(r, rec) ==
    rec.reason = "flaky" =>
        /\ rec.outcome \in {"confirmed", "revised"} =>
              Len(witnessed[r]) = KReruns /\ \A i \in DOMAIN witnessed[r] : witnessed[r][i] \in {"same", "different"}
        /\ rec.outcome = "confirmed" => \A i \in DOMAIN witnessed[r] : witnessed[r][i] = "same"

NotPromoted(rec) == rec.grade > 0 => rec.grade >= Grade[rec.claim]
Unjudged(rec) == rec.outcome = "none" /\ rec.crev = 0 /\ rec.grade = 0

(* A revision of the claim that no other record has.                       *)
Fresh(r, rec) ==
    rec.crev > 0 /\ \A q \in Requests : q # r /\ rvf[q].claim = rec.claim => rvf[q].crev # rec.crev

RequestsNumbered == \E num \in 0..MaxRequests : \A r \in Requests : Requested(r) <=> r <= num

(* What the status of a record says.                                       *)
RequestSound(r) ==
    LET rec == rvf[r] IN
    /\ rec.status # "absent" => rec.claim \in Experiments
    /\ rec.status \in {"absent", "planned", "approved", "replaying"} => Unjudged(rec)
    /\ rec.status \in {"absent", "planned", "approved", "rejected"} => witnessed[r] = <<>>
    /\ rec.status \in {"approved", "replaying", "settled", "failed"} => Confirmed(r)
    /\ rec.status \in {"settled", "failed"} => OnChain(r, rec)
    /\ rec.crev > 0 => Fresh(r, rec)
    /\ Certain(r, rec) /\ NotPromoted(rec) /\ Len(witnessed[r]) <= Runs(rec.reason)

(* What the place of the thread that replays r says.                       *)
RunnerSound(r) ==
    LET run == runner[r] IN
    /\ run.at \in {"none", "start", "wait"} => run.reports = <<>>
    /\ run.at \in {"start", "wait"} => witnessed[r] = <<>> /\ rvf[r].status \in {"approved", "replaying"}
    /\ run.at \in {"check", "replay", "settle"} =>
          /\ rvf[r].status = "replaying"
          /\ Failed(run.reports) \/ rvf[r].reason = "source" \/ witnessed[r] = run.reports
          /\ rvf[r].reason = "source" => witnessed[r] = <<>>
          /\ rvf[r].reason = "flaky" => \A i \in DOMAIN run.reports : run.reports[i] \in ReplayOnce \cup {"error"}
    /\ run.at \in {"check", "replay"} => Len(run.reports) < Runs(rvf[r].reason) /\ ~Failed(run.reports)
    /\ run.at = "replay" => rvf[r].reason # "source"
    /\ run.at = "settle" => Failed(run.reports) \/ Len(run.reports) = Runs(rvf[r].reason)

(* A record to be written: a new one, or the next of an old one.           *)
Before(i, r, event) ==
    \E j \in 1..i - 1 : todo[j].w = "event" /\ todo[j].id = <<"rvf", r>> /\ todo[j].rec = event

Challenges(i, r, rec) ==
    /\ i = 1 /\ rec.status = "planned" /\ rec.claim \in Experiments /\ Unjudged(rec)
    /\ \A q \in Requests : Requested(q) <=> q < r

Approves(i, r, rec) ==
    /\ rec.status = "approved" /\ rvf[r].status = "planned" /\ Unjudged(rec)
    /\ Confirmed(r) \/ Before(i, r, [kind |-> "approved"])

Replays(i, r, rec) ==
    i = 1 /\ rec.status = "replaying" /\ runner[r].at = "wait" /\ Unjudged(rec)

Rejects(r, rec) ==
    /\ rec.status = "rejected" /\ rvf[r].status = "planned" /\ rec.outcome = "withheld" /\ rec.grade = 0
    /\ Fresh(r, rec)

Settles(i, r, rec) ==
    /\ rec.status \in {"settled", "failed"} /\ rvf[r].status = "replaying" /\ runner[r].at = "none"
    /\ OnChain(r, rec) \/ Before(i, r, [kind |-> rec.outcome, claim |-> rec.claim, crev |-> rec.crev])
    /\ Fresh(r, rec) /\ Certain(r, rec) /\ NotPromoted(rec)

Advances(i, r, rec) ==
    /\ Requested(r) /\ rec.claim = rvf[r].claim /\ rec.reason = rvf[r].reason
    /\ Approves(i, r, rec) \/ Replays(i, r, rec) \/ Rejects(r, rec) \/ Settles(i, r, rec)

RecordFits(i) ==
    todo[i].w = "rvf" => Challenges(i, todo[i].id, todo[i].rec) \/ Advances(i, todo[i].id, todo[i].rec)

(* A thread goes on at last, when its record is written.                   *)
Written(i, r, status) ==
    \/ rvf[r].status = status
    \/ \E j \in 1..i - 1 : todo[j].w = "rvf" /\ todo[j].id = r /\ todo[j].rec.status = status

MayGo(i, r, place) ==
    \/ place = "start" /\ runner[r].at = "none" /\ Written(i, r, "approved")
    \/ /\ runner[r].at = "wait" /\ Written(i, r, "replaying")
       /\ place = IF rvf[r].reason = "other" THEN "settle" ELSE "check"

ThreadFits(i) == todo[i].w = "thread" => i = Len(todo) /\ MayGo(i, todo[i].id, todo[i].rec)

OneRecord == \A i, j \in 1..Len(todo) : todo[i].w = "rvf" /\ todo[j].w = "rvf" => i = j

RequestsSound == \A r \in Requests : RequestSound(r)
RunnersSound == \A r \in Requests : RunnerSound(r)
WritesFit == \A i \in 1..Len(todo) : RecordFits(i) /\ ThreadFits(i)

RequestsIInv ==
    AnnotationsTypeOK /\ RequestsNumbered /\ RequestsSound /\ RunnersSound /\ OneRecord /\ WritesFit

(* What the chain holds it keeps.                                          *)
Grows ==
    \A r \in Requests : \A i \in DOMAIN chain[<<"rvf", r>>] :
        i \in DOMAIN chain'[<<"rvf", r>>] /\ chain'[<<"rvf", r>>][i] = chain[<<"rvf", r>>][i]

LEMMA SaidStays ==
    ASSUME NEW r \in Requests, Grows
    PROVE  /\ Confirmed(r) => Confirmed(r)'
           /\ \A rec : OnChain(r, rec) => OnChain(r, rec)'
<1>1. \A kind : Said(r, kind) \subseteq Said(r, kind)'
  BY DEF Grows, Said
<1>2. Confirmed(r) => Confirmed(r)'
  BY <1>1 DEF Confirmed
<1>3. ASSUME NEW rec, OnChain(r, rec) PROVE OnChain(r, rec)'
  <2>1. PICK i \in Said(r, rec.outcome), j \in Said(r, "approved") :
           chain[<<"rvf", r>>][i].crev = rec.crev /\ j < i
    BY <1>3 DEF OnChain
  <2>2. i \in Said(r, rec.outcome)' /\ j \in Said(r, "approved")'
    BY <1>1, <2>1
  <2>3. chain'[<<"rvf", r>>][i].crev = rec.crev
    BY <2>1 DEF Grows, Said
  <2> QED  BY <2>1, <2>2, <2>3 DEF OnChain
<1> QED  BY <1>2, <1>3

(* A request that nothing happens to.                                      *)
LEMMA RequestStays ==
    ASSUME NEW r \in Requests, RequestSound(r), Grows, rvf'[r] = rvf[r], witnessed'[r] = witnessed[r],
           rvf[r].crev > 0 =>
               \A q \in Requests : q # r /\ rvf'[q].claim = rvf[r].claim => rvf'[q].crev # rvf[r].crev
    PROVE  RequestSound(r)'
<1>1. PICK rec : rec = rvf[r]
  OBVIOUS
<1>2. /\ rec.status \in {"approved", "replaying", "settled", "failed"} => Confirmed(r)'
      /\ rec.status \in {"settled", "failed"} => OnChain(r, rec)'
  BY <1>1, SaidStays DEF RequestSound
<1>3. rec.crev > 0 => Fresh(r, rec)'
  BY <1>1 DEF RequestSound, Fresh
<1>4. Certain(r, rec)' /\ NotPromoted(rec) /\ Len(witnessed'[r]) <= Runs(rec.reason)
  BY <1>1 DEF RequestSound, Certain
<1>5. /\ rec.status # "absent" => rec.claim \in Experiments
      /\ rec.status \in {"absent", "planned", "approved", "replaying"} => Unjudged(rec)
      /\ rec.status \in {"absent", "planned", "approved", "rejected"} => witnessed'[r] = <<>>
  BY <1>1 DEF RequestSound
<1>6. rvf'[r] = rec
  BY <1>1
<1> HIDE <1>1
<1>7. OnChain(r, rvf[r])' <=> OnChain(r, rec)'
  BY <1>6 DEF OnChain
<1>8. Fresh(r, rvf[r])' <=> Fresh(r, rec)'
  BY <1>6 DEF Fresh
<1>9. Certain(r, rvf[r])' <=> Certain(r, rec)'
  BY <1>6 DEF Certain
<1> QED  BY <1>2, <1>3, <1>4, <1>5, <1>6, <1>7, <1>8, <1>9 DEF RequestSound, Unjudged, NotPromoted

LEMMA RunnerStays ==
    ASSUME NEW r \in Requests, RunnerSound(r), runner'[r] = runner[r], witnessed'[r] = witnessed[r],
           rvf'[r] = rvf[r]
    PROVE  RunnerSound(r)'
  BY DEF RunnerSound, Failed

(* A record to be written stays in order while its request rests.          *)
LEMMA AdvancesStays ==
    ASSUME NEW r \in Requests, NEW rec, NEW i, NEW k, Advances(k, r, rec),
           rvf' = rvf, Grows, k = 1 => i = 1,
           runner[r].at \in {"none", "wait"} => runner'[r].at = runner[r].at /\ witnessed'[r] = witnessed[r],
           Before(k, r, [kind |-> "approved"]) => Confirmed(r)' \/ Before(i, r, [kind |-> "approved"])',
           Before(k, r, [kind |-> rec.outcome, claim |-> rec.claim, crev |-> rec.crev]) /\ rvf[r].status = "replaying"
               => OnChain(r, rec)' \/ Before(i, r, [kind |-> rec.outcome, claim |-> rec.claim, crev |-> rec.crev])'
    PROVE  Advances(i, r, rec)'
<1>1. Requested(r)' /\ rec.claim = rvf'[r].claim /\ rec.reason = rvf'[r].reason
  BY DEF Advances, Requested
<1>2. (Confirmed(r) => Confirmed(r)') /\ (OnChain(r, rec) => OnChain(r, rec)')
  BY SaidStays
<1>3. CASE Approves(k, r, rec)
  <2>1. Approves(i, r, rec)'
    BY <1>2, <1>3 DEF Approves
  <2> QED  BY <1>1, <2>1 DEF Advances
<1>4. CASE Replays(k, r, rec)
  <2>1. Replays(i, r, rec)'
    BY <1>4 DEF Replays
  <2> QED  BY <1>1, <2>1 DEF Advances
<1>5. CASE Rejects(r, rec)
  <2>1. Rejects(r, rec)'
    BY <1>5 DEF Rejects, Fresh
  <2> QED  BY <1>1, <2>1 DEF Advances
<1>6. CASE Settles(k, r, rec)
  <2>1. Settles(i, r, rec)'
    BY <1>2, <1>6 DEF Settles, Fresh, Certain
  <2> QED  BY <1>1, <2>1 DEF Advances
<1> QED  BY <1>3, <1>4, <1>5, <1>6 DEF Advances

(* Where the first write goes, the others move up.                         *)
LEMMA MovedUp ==
    ASSUME AnnotationsTypeOK, todo # <<>>, todo' = Tail(todo), NEW i \in 1..Len(todo')
    PROVE  /\ i \in Nat /\ i + 1 \in 1..Len(todo) /\ i + 1 # 1 /\ todo'[i] = todo[i + 1]
           /\ i + 1 = Len(todo) => i = Len(todo')
           /\ \A r, event : Before(i + 1, r, event) =>
                 \/ Before(i, r, event)'
                 \/ todo[1].w = "event" /\ todo[1].id = <<"rvf", r>> /\ todo[1].rec = event
           /\ \A r, status : Written(i + 1, r, status) =>
                 \/ rvf[r].status = status
                 \/ todo[1].w = "rvf" /\ todo[1].id = r /\ todo[1].rec.status = status
                 \/ \E j \in 1..i - 1 : todo'[j].w = "rvf" /\ todo'[j].id = r /\ todo'[j].rec.status = status
<1>1. /\ Len(todo) \in Nat /\ Len(todo') = Len(todo) - 1 /\ i \in Nat /\ i > 0
      /\ \A j \in 1..Len(todo') : todo'[j] = todo[j + 1] /\ j + 1 \in 1..Len(todo)
  BY FirstWrite
<1>2. \A j \in 1..i + 1 - 1 : j = 1 \/ (j - 1 \in 1..i - 1 /\ j - 1 \in 1..Len(todo') /\ todo[j] = todo'[j - 1])
  <2> SUFFICES ASSUME NEW j \in 1..i + 1 - 1, j # 1
               PROVE  j - 1 \in 1..i - 1 /\ j - 1 \in 1..Len(todo') /\ todo[j] = todo'[j - 1]
    OBVIOUS
  <2>1. j - 1 \in 1..i - 1 /\ j - 1 \in 1..Len(todo') /\ j - 1 + 1 = j
    BY <1>1
  <2> QED  BY <1>1, <2>1
<1>3. ASSUME NEW r, NEW event, Before(i + 1, r, event)
      PROVE  Before(i, r, event)' \/ (todo[1].w = "event" /\ todo[1].id = <<"rvf", r>> /\ todo[1].rec = event)
  <2>1. PICK j \in 1..i + 1 - 1 : todo[j].w = "event" /\ todo[j].id = <<"rvf", r>> /\ todo[j].rec = event
    BY <1>3 DEF Before
  <2>2. CASE j = 1
    BY <2>1, <2>2
  <2>3. CASE j # 1
    <3>1. j - 1 \in 1..i - 1 /\ todo'[j - 1] = todo[j]
      BY <1>2, <2>3
    <3>2. Before(i, r, event)'
      BY <2>1, <3>1 DEF Before
    <3> QED  BY <3>2
  <2> QED  BY <2>2, <2>3
<1>4. ASSUME NEW r, NEW status, Written(i + 1, r, status)
      PROVE  \/ rvf[r].status = status
             \/ todo[1].w = "rvf" /\ todo[1].id = r /\ todo[1].rec.status = status
             \/ \E j \in 1..i - 1 : todo'[j].w = "rvf" /\ todo'[j].id = r /\ todo'[j].rec.status = status
  BY <1>2, <1>4 DEF Written
<1>5. i + 1 \in 1..Len(todo) /\ i + 1 # 1 /\ (i + 1 = Len(todo) => i = Len(todo'))
  <2>1. i + 1 \in 1..Len(todo)
    BY <1>1
  <2>2. i + 1 # 1
    BY <1>1
  <2>3. i + 1 = Len(todo) => i = Len(todo')
    <3>1. PICK num \in Nat : Len(todo) = num
      BY <1>1
    <3> QED  BY <1>1, <3>1
  <2> QED  BY <2>1, <2>2, <2>3
<1>6. todo'[i] = todo[i + 1]
  BY <1>1
<1> QED  BY <1>1, <1>3, <1>4, <1>5, <1>6

LEMMA OneRecordStays ==
    ASSUME AnnotationsTypeOK, OneRecord, todo # <<>>, todo' = Tail(todo) PROVE OneRecord'
<1> SUFFICES ASSUME NEW i \in 1..Len(todo'), NEW j \in 1..Len(todo'), todo'[i].w = "rvf", todo'[j].w = "rvf"
             PROVE  i = j
  BY DEF OneRecord
<1>1. i + 1 \in 1..Len(todo) /\ todo'[i] = todo[i + 1] /\ i \in Nat
  BY MovedUp
<1>2. j + 1 \in 1..Len(todo) /\ todo'[j] = todo[j + 1] /\ j \in Nat
  BY MovedUp
<1>3. i + 1 = j + 1
  BY <1>1, <1>2 DEF OneRecord
<1> QED  BY <1>1, <1>2, <1>3


(* The first write is done, and it is not a record of a re-verification.   *)
LEMMA OthersFit ==
    ASSUME RequestsIInv, todo # <<>>, todo' = Tail(todo), todo[1].w # "rvf", todo[1].w # "thread",
           UNCHANGED <<rvf, witnessed, runner>>, Grows,
           \A r \in Requests : todo[1].w = "event" /\ todo[1].id = <<"rvf", r>> =>
              /\ todo[1].rec = [kind |-> "approved"] => Confirmed(r)'
              /\ \A rec : todo[1].rec = [kind |-> rec.outcome, claim |-> rec.claim, crev |-> rec.crev] /\ Confirmed(r)
                    => OnChain(r, rec)'
    PROVE  OneRecord' /\ WritesFit'
<1>1. OneRecord'
  BY OneRecordStays DEF RequestsIInv
<1>2. ASSUME NEW i \in 1..Len(todo'), todo'[i].w = "rvf"
      PROVE  Advances(i, todo[i].id, todo[i].rec)'
  <2>1. /\ i \in Nat /\ i + 1 \in 1..Len(todo) /\ i + 1 # 1 /\ todo'[i] = todo[i + 1]
        /\ \A r, event : Before(i + 1, r, event) =>
              Before(i, r, event)' \/ (todo[1].w = "event" /\ todo[1].id = <<"rvf", r>> /\ todo[1].rec = event)
    BY MovedUp DEF RequestsIInv
  <2>2. PICK r, rec : r = todo[i + 1].id /\ rec = todo[i + 1].rec
    OBVIOUS
  <2>3. r \in Requests
    <3>1. todo[i + 1] \in Writes
      BY <2>1 DEF RequestsIInv, AnnotationsTypeOK
    <3> QED  BY <1>2, <2>1, <2>2, <3>1, WriteTyped
  <2>4. Advances(i + 1, r, rec)
    BY <1>2, <2>1, <2>2 DEF RequestsIInv, WritesFit, RecordFits, Challenges
  <2>5. rvf[r].status = "replaying" => Confirmed(r)
    BY <2>3 DEF RequestsIInv, RequestsSound, RequestSound
  <2>6. Before(i + 1, r, [kind |-> "approved"]) => Confirmed(r)' \/ Before(i, r, [kind |-> "approved"])'
    BY <2>1, <2>3
  <2>7. Before(i + 1, r, [kind |-> rec.outcome, claim |-> rec.claim, crev |-> rec.crev])
             /\ rvf[r].status = "replaying"
           => OnChain(r, rec)' \/ Before(i, r, [kind |-> rec.outcome, claim |-> rec.claim, crev |-> rec.crev])'
    BY <2>1, <2>3, <2>5
  <2>8. Advances(i, r, rec)'
    BY <2>1, <2>3, <2>4, <2>6, <2>7, AdvancesStays
  <2>9. r = todo'[i].id /\ rec = todo'[i].rec
    BY <2>1, <2>2
  <2> QED  BY <2>8, <2>9
<1>3. ASSUME NEW i \in 1..Len(todo'), todo'[i].w = "thread"
      PROVE  i = Len(todo') /\ MayGo(i, todo[i].id, todo[i].rec)'
  <2>1. /\ i \in Nat /\ i + 1 \in 1..Len(todo) /\ todo'[i] = todo[i + 1]
        /\ i + 1 = Len(todo) => i = Len(todo')
        /\ \A r, status : Written(i + 1, r, status) =>
              \/ rvf[r].status = status
              \/ todo[1].w = "rvf" /\ todo[1].id = r /\ todo[1].rec.status = status
              \/ \E j \in 1..i - 1 : todo'[j].w = "rvf" /\ todo'[j].id = r /\ todo'[j].rec.status = status
    BY MovedUp DEF RequestsIInv
  <2>2. i + 1 = Len(todo) /\ MayGo(i + 1, todo[i + 1].id, todo[i + 1].rec)
    BY <1>3, <2>1 DEF RequestsIInv, WritesFit, ThreadFits
  <2>3. PICK r, place : r = todo[i + 1].id /\ place = todo[i + 1].rec
    OBVIOUS
  <2>4. \A status : Written(i + 1, r, status) => Written(i, r, status)'
    BY <2>1 DEF Written
  <2>5. MayGo(i, r, place)'
    BY <2>2, <2>3, <2>4 DEF MayGo
  <2>6. r = todo'[i].id /\ place = todo'[i].rec
    BY <2>1, <2>3
  <2> QED  BY <2>1, <2>2, <2>5, <2>6
<1>4. WritesFit'
  BY <1>2, <1>3 DEF WritesFit, RecordFits, ThreadFits
<1> QED  BY <1>1, <1>4

(* Nothing happens to the requests: only what is to be written changes.    *)
LEMMA RequestsRest ==
    ASSUME RequestsIInv, AnnotationsTypeOK', UNCHANGED <<rvf, witnessed, runner>>, Grows, OneRecord', WritesFit'
    PROVE  RequestsIInv'
<1>1. RequestsNumbered'
  BY DEF RequestsIInv, RequestsNumbered, Requested
<1>2. ASSUME NEW r \in Requests PROVE RequestSound(r)'
  <2>1. rvf[r].crev > 0 =>
           \A q \in Requests : q # r /\ rvf'[q].claim = rvf[r].claim => rvf'[q].crev # rvf[r].crev
    BY DEF RequestsIInv, RequestsSound, RequestSound, Fresh
  <2> QED  BY <2>1, RequestStays DEF RequestsIInv, RequestsSound
<1>3. ASSUME NEW r \in Requests PROVE RunnerSound(r)'
  BY RunnerStays DEF RequestsIInv, RunnersSound
<1> QED  BY <1>1, <1>2, <1>3 DEF RequestsIInv, RequestsSound, RunnersSound

LEMMA NoRequestsFit ==
    ASSUME \A i \in 1..Len(todo') : todo'[i].w \notin {"rvf", "thread"}
    PROVE  OneRecord' /\ WritesFit'
  BY DEF OneRecord, WritesFit, RecordFits, ThreadFits

LEMMA SameFit ==
    ASSUME RequestsIInv, UNCHANGED <<rvf, witnessed, runner, chain, todo>>
    PROVE  OneRecord' /\ WritesFit'
<1>1. OneRecord'
  BY DEF RequestsIInv, OneRecord
<1>2. ASSUME NEW i \in 1..Len(todo') PROVE RecordFits(i)' /\ ThreadFits(i)'
  <2>1. RecordFits(i) /\ ThreadFits(i)
    BY DEF RequestsIInv, WritesFit
  <2>2. ThreadFits(i)'
    BY <2>1 DEF ThreadFits, MayGo, Written
  <2>3. RecordFits(i)'
    BY <2>1 DEF RecordFits, Challenges, Advances, Approves, Replays, Rejects, Settles, Unjudged, Requested, Before,
                Confirmed, Said, OnChain, Fresh, Certain, NotPromoted
  <2> QED  BY <2>2, <2>3
<1> QED  BY <1>1, <1>2 DEF WritesFit

LEMMA AppendEventStep ==
    ASSUME RequestsIInv, AnnotationsTypeOK', AppendEvent PROVE RequestsIInv'
<1> DEFINE s == Head(todo).id  e == Head(todo).rec
<1>1. /\ todo # <<>> /\ todo' = Tail(todo) /\ chain' = [chain EXCEPT ![s] = Append(@, e)]
      /\ UNCHANGED <<rvf, witnessed, runner>> /\ Head(todo).w = "event"
  BY DEF AppendEvent, Pending, Records
<1>2. /\ todo[1].w = "event" /\ todo[1].id = s /\ todo[1].rec = e /\ todo[1] \in Writes
  BY <1>1, FirstWrite DEF RequestsIInv
<1>3. s \in Subjects
  BY <1>2, WriteTyped
<1> HIDE DEF s, e
<1>4. \A q \in Requests : <<"rvf", q>> \in Subjects
  BY DEF Subjects
<1>5. chain \in [Subjects -> Seq(EventRecord)]
  BY DEF RequestsIInv, AnnotationsTypeOK
<1>6. ASSUME NEW q \in Requests, NEW i \in DOMAIN chain[<<"rvf", q>>]
      PROVE  i \in DOMAIN chain'[<<"rvf", q>>] /\ chain'[<<"rvf", q>>][i] = chain[<<"rvf", q>>][i]
  <2>1. CASE s = <<"rvf", q>>
    <3>1. PICK said \in Seq(EventRecord) : said = chain[<<"rvf", q>>]
      BY <1>4, <1>5
    <3>2. chain'[<<"rvf", q>>] = Append(said, e)
      BY <1>1, <1>3, <1>5, <2>1, <3>1
    <3>3. i \in 1..Len(said) /\ DOMAIN Append(said, e) = 1..Len(said) + 1
      BY <3>1
    <3>4. Append(said, e)[i] = said[i] /\ i \in 1..Len(said) + 1
      BY <3>3
    <3> QED  BY <3>1, <3>2, <3>3, <3>4
  <2>2. CASE s # <<"rvf", q>>
    <3>1. chain'[<<"rvf", q>>] = chain[<<"rvf", q>>]
      BY <1>1, <1>4, <1>5, <2>2
    <3> QED  BY <3>1
  <2> QED  BY <2>1, <2>2
<1>7. Grows
  BY <1>6 DEF Grows
<1>8. ASSUME NEW r \in Requests, todo[1].id = <<"rvf", r>>
      PROVE  /\ e = [kind |-> "approved"] => Confirmed(r)'
             /\ \A rec : e = [kind |-> rec.outcome, claim |-> rec.claim, crev |-> rec.crev] /\ Confirmed(r)
                   => OnChain(r, rec)'
  <2>1. PICK said \in Seq(EventRecord) : said = chain[<<"rvf", r>>]
    BY <1>4, <1>5
  <2>2. chain'[<<"rvf", r>>] = Append(said, e)
    BY <1>1, <1>2, <1>3, <1>5, <1>8, <2>1
  <2>3. PICK num \in Nat : num = Len(said)
    BY <2>1
  <2>4. DOMAIN said = 1..num /\ DOMAIN Append(said, e) = 1..num + 1 /\ Append(said, e)[num + 1] = e
    BY <2>1, <2>3
  <2>5. num + 1 \in DOMAIN chain'[<<"rvf", r>>] /\ chain'[<<"rvf", r>>][num + 1] = e
    BY <2>2, <2>4
  <2>6. ASSUME e = [kind |-> "approved"] PROVE Confirmed(r)'
    <3>1. num + 1 \in Said(r, "approved")'
      BY <2>5, <2>6 DEF Said
    <3> QED  BY <3>1 DEF Confirmed
  <2>7. ASSUME NEW rec, e = [kind |-> rec.outcome, claim |-> rec.claim, crev |-> rec.crev], Confirmed(r)
        PROVE  OnChain(r, rec)'
    <3>1. PICK j \in Said(r, "approved") : TRUE
      BY <2>7 DEF Confirmed
    <3>2. j \in DOMAIN chain[<<"rvf", r>>] /\ chain[<<"rvf", r>>][j].kind = "approved"
      BY <3>1 DEF Said
    <3>3. j \in 1..num
      BY <2>1, <2>4, <3>2
    <3>4. j \in Said(r, "approved")'
      BY <3>2, <1>6 DEF Said
    <3>5. j < num + 1
      BY <3>3
    <3>6. num + 1 \in Said(r, rec.outcome)' /\ chain'[<<"rvf", r>>][num + 1].crev = rec.crev
      BY <2>5, <2>7 DEF Said
    <3> QED  BY <3>4, <3>5, <3>6 DEF OnChain
  <2> QED  BY <2>6, <2>7
<1>9. OneRecord' /\ WritesFit'
  BY <1>1, <1>2, <1>7, <1>8, OthersFit
<1> QED  BY <1>1, <1>7, <1>9, RequestsRest

LEMMA GrowsNot ==
    ASSUME UNCHANGED chain PROVE Grows
  BY DEF Grows

(* The holder of the lock dies or gives up.                                *)
LEMMA StopStep ==
    ASSUME RequestsIInv, AnnotationsTypeOK', Crash \/ ChainInvalid PROVE RequestsIInv'
<1>1. UNCHANGED <<rvf, chain, witnessed>> /\ todo' = <<>>
  BY DEF Crash, ChainInvalid, Records
<1>2. OneRecord' /\ WritesFit'
  BY <1>1 DEF OneRecord, WritesFit
<1>3. CASE ChainInvalid
  BY <1>1, <1>2, <1>3, GrowsNot, RequestsRest DEF ChainInvalid
<1>4. CASE Crash
  <2>1. RequestsNumbered'
    BY <1>1 DEF RequestsIInv, RequestsNumbered, Requested
  <2>2. ASSUME NEW r \in Requests PROVE RequestSound(r)'
    <3>1. rvf[r].crev > 0 =>
             \A q \in Requests : q # r /\ rvf'[q].claim = rvf[r].claim => rvf'[q].crev # rvf[r].crev
      BY <1>1 DEF RequestsIInv, RequestsSound, RequestSound, Fresh
    <3> QED  BY <1>1, <3>1, GrowsNot, RequestStays DEF RequestsIInv, RequestsSound
  <2>3. ASSUME NEW r \in Requests PROVE RunnerSound(r)'
    <3>1. runner'[r].at = "none" /\ runner'[r].reports = <<>>
      BY <1>4 DEF Crash, NoRunner
    <3> QED  BY <3>1 DEF RunnerSound
  <2> QED  BY <1>2, <2>1, <2>2, <2>3 DEF RequestsIInv, RequestsSound, RunnersSound
<1> QED  BY <1>3, <1>4

(* Comments and lists of comments leave the re-verifications alone.        *)
LEMMA CreatedKinds ==
    ASSUME NEW claim, NEW supersedes
    PROVE  /\ Len(Created(claim, supersedes)) = 2
           /\ Created(claim, supersedes)[1].w = "comment" /\ Created(claim, supersedes)[2].w = "event"
  BY DEF Created, Comment, Event

LEMMA CommentingStep ==
    ASSUME RequestsIInv, AnnotationsTypeOK', Commenting PROVE RequestsIInv'
<1>1. ASSUME NEW writes, Begin(writes), Quiet,
             \A i \in 1..Len(writes) : writes[i].w \in {"comment", "event"}
      PROVE  RequestsIInv'
  <2>1. UNCHANGED <<rvf, witnessed, runner, chain>> /\ todo' = writes
    BY <1>1 DEF Begin, Quiet, Records
  <2>2. OneRecord' /\ WritesFit'
    BY <1>1, <2>1, NoRequestsFit
  <2> QED  BY <2>1, <2>2, GrowsNot, RequestsRest
<1>2. ASSUME NEW claim, NEW supersedes, NEW i \in 1..Len(Created(claim, supersedes))
      PROVE  Created(claim, supersedes)[i].w \in {"comment", "event"}
  <2>1. Len(Created(claim, supersedes)) = 2
    BY CreatedKinds
  <2>2. i \in 1..2
    BY <2>1
  <2>3. i = 1 \/ i = 2
    BY <2>2
  <2> QED  BY <2>3, CreatedKinds
<1>3. ASSUME NEW claim, CreateComment(claim) PROVE RequestsIInv'
  BY <1>1, <1>2, <1>3 DEF CreateComment
<1>4. ASSUME NEW c \in Comments, ReplyComment(c) PROVE RequestsIInv'
  BY <1>1, <1>2, <1>4 DEF ReplyComment
<1>5. ASSUME NEW c \in Comments, NEW status, UpdateComment(c, status) PROVE RequestsIInv'
  <2> DEFINE a == Comment(c, Revised([comment[c] EXCEPT !.status = status]))
             b == Event(<<"comment", c>>, [kind |-> status])
  <2>1. Begin(<<a, b>>) /\ Quiet /\ a.w = "comment" /\ b.w = "event"
    BY <1>5 DEF UpdateComment, Comment, Event
  <2> HIDE DEF a, b
  <2>2. \A i \in 1..Len(<<a, b>>) : <<a, b>>[i].w \in {"comment", "event"}
    BY <2>1
  <2> QED  BY <1>1, <2>1, <2>2
<1>6. ASSUME NEW c \in Comments, ReanchorComment(c) PROVE RequestsIInv'
  <2> DEFINE a == Comment(c, Revised([comment[c] EXCEPT !.by = NextComment]))
             b == Event(<<"comment", c>>, [kind |-> "superseded"])
             first == Created(comment[c].claim, c)
  <2>1. Begin(first \o <<a, b>>) /\ Quiet
    BY <1>6 DEF ReanchorComment
  <2>2. a.w = "comment" /\ b.w = "event"
    BY DEF Comment, Event
  <2>3. Len(first) = 2 /\ first[1].w = "comment" /\ first[2].w = "event"
    BY CreatedKinds
  <2> DEFINE S == {first[1], first[2], a, b}  link == <<a, b>>
  <2>4. first \in Seq(S)
    BY DEF Created
  <2>5. link \in Seq(S) /\ Len(link) = 2 /\ link[1] = a /\ link[2] = b
    OBVIOUS
  <2> HIDE DEF a, b, first, S, link
  <2>6. /\ Len(first \o link) = 4
        /\ \A i \in 1..4 : (first \o link)[i] = IF i <= 2 THEN first[i] ELSE link[i - 2]
    <3>1. /\ Len(first \o link) = Len(first) + Len(link)
          /\ \A i \in 1..Len(first) + Len(link) :
                (first \o link)[i] = IF i <= Len(first) THEN first[i] ELSE link[i - Len(first)]
      BY <2>4, <2>5, ConcatProperties
    <3> QED  BY <2>3, <2>5, <3>1
  <2>7. \A i \in 1..4 : (first \o link)[i].w \in {"comment", "event"}
    <3>1. (first \o link)[1] = first[1]
      BY <2>6
    <3>2. (first \o link)[2] = first[2]
      BY <2>6
    <3>3. (first \o link)[3] = a
      BY <2>5, <2>6
    <3>4. (first \o link)[4] = b
      BY <2>5, <2>6
    <3>5. \A i \in 1..4 : i = 1 \/ i = 2 \/ i = 3 \/ i = 4
      OBVIOUS
    <3> QED  BY <2>2, <2>3, <3>1, <3>2, <3>3, <3>4, <3>5
  <2>8. first \o link = first \o <<a, b>>
    BY DEF link
  <2> QED  BY <1>1, <2>1, <2>6, <2>7, <2>8
<1> QED  BY <1>3, <1>4, <1>5, <1>6 DEF Commenting

LEMMA ListingStep ==
    ASSUME RequestsIInv, AnnotationsTypeOK', Listing PROVE RequestsIInv'
<1>1. CASE ListComments \/ LookAtFile \/ ListDone
  <2>1. UNCHANGED <<rvf, witnessed, runner, chain, todo>>
    BY <1>1 DEF ListComments, LookAtFile, ListDone, Records
  <2> QED  BY <2>1, SameFit, GrowsNot, RequestsRest
<1>2. ASSUME NEW c \in Comments, MarkOutdated(c) PROVE RequestsIInv'
  <2> DEFINE a == Comment(c, Revised([lister.records[c] EXCEPT !.status = "outdated"]))
             b == Event(<<"comment", c>>, [kind |-> "outdated"])
  <2>1. UNCHANGED <<rvf, witnessed, runner, chain>> /\ todo' = <<a, b, Listed>>
    BY <1>2 DEF MarkOutdated, Begin, Records
  <2>2. a.w = "comment" /\ b.w = "event" /\ Listed.w = "listed"
    BY DEF Comment, Event, Listed
  <2> HIDE DEF a, b
  <2>3. \A i \in 1..Len(todo') : todo'[i].w \notin {"rvf", "thread"}
    BY <2>1, <2>2
  <2> QED  BY <2>1, <2>3, NoRequestsFit, GrowsNot, RequestsRest
<1> QED  BY <1>1, <1>2 DEF Listing

LEMMA WriteCommentRests ==
    ASSUME RequestsIInv, AnnotationsTypeOK', WriteComment PROVE RequestsIInv'
<1>1. /\ todo # <<>> /\ todo' = Tail(todo) /\ UNCHANGED <<rvf, witnessed, runner, chain>>
      /\ Head(todo).w = "comment"
  BY DEF WriteComment, Pending
<1>2. todo[1].w = "comment"
  BY <1>1, FirstWrite DEF RequestsIInv
<1>3. OneRecord' /\ WritesFit'
  BY <1>1, <1>2, GrowsNot, OthersFit
<1> QED  BY <1>1, <1>3, GrowsNot, RequestsRest

LEMMA NothingReported ==
    /\ ~Failed(<<>>) /\ Len(<<>>) = 0 /\ \A i \in DOMAIN <<>> : FALSE
    /\ \A reason : Runs(reason) = 0 <=> reason = "other"
    /\ \A reason : Runs(reason) \in Nat
  BY NaturalBounds DEF Failed, Runs

(* A thread goes on.                                                       *)
LEMMA UnlockStep ==
    ASSUME RequestsIInv, AnnotationsTypeOK', Unlock PROVE RequestsIInv'
<1>1. todo # <<>> /\ todo' = Tail(todo) /\ UNCHANGED <<rvf, chain, witnessed>>
  BY DEF Unlock, Pending, Records
<1>2. CASE Pending("listed") /\ UNCHANGED runner
  <2>1. todo[1].w = "listed"
    BY <1>1, <1>2, FirstWrite DEF RequestsIInv, Pending
  <2>2. OneRecord' /\ WritesFit'
    BY <1>1, <1>2, <2>1, GrowsNot, OthersFit
  <2> QED  BY <1>1, <1>2, <2>2, GrowsNot, RequestsRest
<1>3. CASE Pending("thread") /\ runner' = [runner EXCEPT ![Head(todo).id].at = Head(todo).rec]
  <2>1. PICK r, place : r = todo[1].id /\ place = todo[1].rec
    OBVIOUS
  <2>2. /\ todo[1].w = "thread" /\ todo[1] \in Writes /\ runner' = [runner EXCEPT ![r].at = place]
        /\ Len(todo) \in Nat /\ Len(todo) > 0 /\ Len(todo') = Len(todo) - 1
    BY <1>1, <1>3, <2>1, FirstWrite DEF RequestsIInv, Pending
  <2>3. r \in Requests
    BY <2>1, <2>2, WriteTyped
  <2>4. Len(todo) = 1 /\ MayGo(1, r, place)
    BY <2>1, <2>2 DEF RequestsIInv, WritesFit, ThreadFits
  <2>5. todo' \in Seq(Writes) /\ Len(todo') = 0
    BY <2>2, <2>4 DEF AnnotationsTypeOK
  <2>6. OneRecord' /\ WritesFit'
    BY <2>5 DEF OneRecord, WritesFit
  <2>7. \A status : Written(1, r, status) => rvf[r].status = status
    BY DEF Written
  <2>8. runner \in [Requests -> [at : Places, reports : Seq(Reported)]]
    BY DEF RequestsIInv, AnnotationsTypeOK
  <2>9. /\ runner'[r].at = place /\ runner'[r].reports = runner[r].reports
        /\ \A q \in Requests : q # r => runner'[q] = runner[q]
    BY <2>2, <2>3, <2>8
  <2>10. RequestSound(r) /\ RunnerSound(r)
    BY <2>3 DEF RequestsIInv, RequestsSound, RunnersSound
  <2>11. runner[r].at \in {"none", "wait"} /\ runner[r].reports = <<>>
    BY <2>4, <2>10 DEF MayGo, RunnerSound
  <2>12. RunnerSound(r)'
    <3>1. CASE place = "start" /\ rvf[r].status = "approved"
      <4>1. witnessed[r] = <<>>
        BY <2>10, <3>1 DEF RequestSound
      <4> QED  BY <1>1, <2>9, <2>11, <3>1, <4>1 DEF RunnerSound
    <3>2. CASE runner[r].at = "wait" /\ rvf[r].status = "replaying"
               /\ place = IF rvf[r].reason = "other" THEN "settle" ELSE "check"
      <4>1. witnessed[r] = <<>>
        BY <2>10, <3>2 DEF RunnerSound
      <4>2. rvf[r].reason \in AllReasons
        BY <2>3 DEF RequestsIInv, AnnotationsTypeOK, RequestRecord
      <4>3. place \in {"check", "settle"} /\ (place = "settle" <=> rvf[r].reason = "other")
        BY <3>2
      <4> QED  BY <1>1, <2>9, <2>11, <3>2, <4>1, <4>3, NothingReported DEF RunnerSound
    <3> QED  BY <2>4, <2>7, <3>1, <3>2 DEF MayGo
  <2>13. ASSUME NEW q \in Requests PROVE RunnerSound(q)'
    <3>1. CASE q = r
      BY <2>12, <3>1
    <3>2. CASE q # r
      BY <1>1, <2>9, <3>2, RunnerStays DEF RequestsIInv, RunnersSound
    <3> QED  BY <3>1, <3>2
  <2>14. ASSUME NEW q \in Requests PROVE RequestSound(q)'
    <3>1. rvf[q].crev > 0 =>
             \A p \in Requests : p # q /\ rvf'[p].claim = rvf[q].claim => rvf'[p].crev # rvf[q].crev
      BY <1>1 DEF RequestsIInv, RequestsSound, RequestSound, Fresh
    <3> QED  BY <1>1, <3>1, GrowsNot, RequestStays DEF RequestsIInv, RequestsSound
  <2>15. RequestsNumbered'
    BY <1>1 DEF RequestsIInv, RequestsNumbered, Requested
  <2> QED  BY <2>6, <2>13, <2>14, <2>15 DEF RequestsIInv, RequestsSound, RunnersSound
<1> QED  BY <1>2, <1>3 DEF Unlock

(* What is begun writes one record, and a thread goes on at last.          *)
LEMMA RecordBegins ==
    ASSUME Len(todo') \in Nat, NEW r \in Requests, NEW rec \in RequestRecord, NEW k \in 1..Len(todo'),
           todo'[k] = Request(r, rec),
           \A i \in 1..Len(todo') : i # k => todo'[i].w = "event" \/ (todo'[i].w = "thread" /\ ThreadFits(i)'),
           Challenges(k, r, rec)' \/ Advances(k, r, rec)'
    PROVE  OneRecord' /\ WritesFit'
<1>1. todo'[k].w = "rvf" /\ todo'[k].id = r /\ todo'[k].rec = rec
  BY RequestWrite
<1>2. \A i \in 1..Len(todo') : todo'[i].w = "rvf" => i = k
  OBVIOUS
<1>3. OneRecord'
  BY <1>2 DEF OneRecord
<1>4. ASSUME NEW i \in 1..Len(todo') PROVE RecordFits(i)'
  <2>1. CASE i = k
    BY <1>1, <2>1 DEF RecordFits
  <2>2. CASE i # k
    BY <1>2, <2>2 DEF RecordFits
  <2> QED  BY <2>1, <2>2
<1>5. ASSUME NEW i \in 1..Len(todo') PROVE ThreadFits(i)'
  <2>1. CASE i = k
    BY <1>1, <2>1 DEF ThreadFits
  <2>2. CASE i # k
    BY <2>2 DEF ThreadFits
  <2> QED  BY <2>1, <2>2
<1> QED  BY <1>3, <1>4, <1>5 DEF WritesFit

LEMMA NextRequestIsFree ==
    ASSUME RequestsNumbered
    PROVE  \A r \in Requests : Requested(r) <=> r < NextRequest
<1> DEFINE S == {r \in Requests : Requested(r)}
<1>1. PICK num \in 0..MaxRequests : \A r \in Requests : Requested(r) <=> r <= num
  BY DEF RequestsNumbered
<1>2. S = 1..num
  BY <1>1, NaturalBounds DEF Requests
<1> HIDE DEF S
<1>3. \E m \in 0..MaxRequests : S = 1..m
  BY <1>1, <1>2
<1>4. \A r \in 1..MaxRequests : r \in S <=> r < 1 + Cardinality(S)
  BY <1>3, NaturalBounds, NextIsFree
<1> QED  BY <1>4 DEF S, NextRequest, Requests

LEMMA ChallengeStep ==
    ASSUME RequestsIInv, AnnotationsTypeOK', NEW c \in Comments, NEW reason \in AllReasons,
           RequestReverification(c, reason)
    PROVE  RequestsIInv'
<1>1. UNCHANGED <<rvf, witnessed, runner, chain>>
  BY DEF RequestReverification, Quiet, Records
<1>2. PICK rec \in RequestRecord :
         /\ rec.status = "planned" /\ rec.claim \in Experiments /\ Unjudged(rec)
         /\ NextRequest \in Requests /\ Len(todo') = 3
         /\ todo'[1] = Request(NextRequest, rec) /\ todo'[2].w = "event" /\ todo'[3].w = "event"
  BY ChallengeWrites DEF RequestsIInv, Unjudged
<1>3. PICK r \in Requests : r = NextRequest
  BY <1>2
<1>4. \A q \in Requests : Requested(q) <=> q < r
  BY <1>3, NextRequestIsFree DEF RequestsIInv
<1>5. \A q \in Requests : Requested(q)' <=> q < r
  BY <1>1, <1>4 DEF Requested
<1>6. Challenges(1, r, rec)'
  BY <1>2, <1>5 DEF Challenges, Unjudged
<1>7. \A i \in 1..Len(todo') : i # 1 => todo'[i].w = "event"
  <2>1. \A i \in 1..3 : i = 1 \/ i = 2 \/ i = 3
    OBVIOUS
  <2> QED  BY <1>2, <2>1
<1>8. 1 \in 1..Len(todo') /\ Len(todo') \in Nat /\ todo'[1] = Request(r, rec)
  BY <1>2, <1>3
<1>9. OneRecord' /\ WritesFit'
  BY <1>6, <1>7, <1>8, RecordBegins
<1> QED  BY <1>1, <1>9, GrowsNot, RequestsRest

LEMMA ApproveStep ==
    ASSUME RequestsIInv, AnnotationsTypeOK', NEW r \in Requests, ApproveReverification(r)
    PROVE  RequestsIInv'
<1>1. UNCHANGED <<rvf, witnessed, runner, chain>> /\ rvf[r].status = "planned"
  BY DEF ApproveReverification, Quiet, Records
<1>2. PICK rec \in RequestRecord :
         /\ rec.status = "approved" /\ rec.claim = rvf[r].claim /\ rec.reason = rvf[r].reason
         /\ rec.outcome = rvf[r].outcome /\ rec.crev = rvf[r].crev /\ rec.grade = rvf[r].grade
         /\ Len(todo') = 3 /\ todo'[1] = Event(<<"rvf", r>>, [kind |-> "approved"])
         /\ todo'[2] = Request(r, rec) /\ todo'[3] = Thread(r, "start")
  BY ApprovalWrites DEF RequestsIInv
<1>3. RequestSound(r) /\ RunnerSound(r)
  BY DEF RequestsIInv, RequestsSound, RunnersSound
<1>4. Unjudged(rec)
  BY <1>1, <1>2, <1>3 DEF RequestSound, Unjudged
<1>5. runner[r].at = "none"
  <2>1. runner[r].at \in Places
    BY DEF RequestsIInv, AnnotationsTypeOK
  <2> QED  BY <1>1, <1>3, <2>1 DEF RunnerSound, Places
<1>6. /\ todo'[1].w = "event" /\ todo'[1].id = <<"rvf", r>> /\ todo'[1].rec = [kind |-> "approved"]
      /\ todo'[2].w = "rvf" /\ todo'[2].id = r /\ todo'[2].rec = rec
      /\ todo'[3].w = "thread" /\ todo'[3].id = r /\ todo'[3].rec = "start"
  BY <1>2 DEF Event, Request, Thread
<1>7. Before(2, r, [kind |-> "approved"])'
  <2>1. 1 \in 1..2 - 1
    OBVIOUS
  <2> QED  BY <1>6, <2>1 DEF Before
<1>8. Advances(2, r, rec)'
  <2>1. Approves(2, r, rec)'
    BY <1>1, <1>2, <1>4, <1>7 DEF Approves, Unjudged
  <2> QED  BY <1>1, <1>2, <2>1 DEF Advances, Requested
<1>9. ThreadFits(3)'
  <2>1. 2 \in 1..3 - 1
    OBVIOUS
  <2>2. Written(3, r, "approved")'
    BY <1>2, <1>6, <2>1 DEF Written
  <2>3. MayGo(3, r, "start")'
    BY <1>1, <1>5, <2>2 DEF MayGo
  <2> QED  BY <1>2, <1>6, <2>3 DEF ThreadFits
<1>10. /\ 2 \in 1..Len(todo') /\ Len(todo') \in Nat
       /\ \A i \in 1..Len(todo') : i # 2 => todo'[i].w = "event" \/ (todo'[i].w = "thread" /\ ThreadFits(i)')
  <2>1. \A i \in 1..3 : i = 1 \/ i = 2 \/ i = 3
    OBVIOUS
  <2> QED  BY <1>2, <1>6, <1>9, <2>1
<1>11. OneRecord' /\ WritesFit'
  BY <1>2, <1>8, <1>10, RecordBegins
<1> QED  BY <1>1, <1>11, GrowsNot, RequestsRest

LEMMA RejectStep ==
    ASSUME RequestsIInv, AnnotationsTypeOK', NEW r \in Requests, RejectReverification(r)
    PROVE  RequestsIInv'
<1>1. UNCHANGED <<rvf, witnessed, runner, chain>> /\ rvf[r].status = "planned"
  BY DEF RejectReverification, Quiet, Records
<1>2. PICK rec \in RequestRecord :
         /\ rec.status = "rejected" /\ rec.claim = rvf[r].claim /\ rec.reason = rvf[r].reason
         /\ rec.outcome = "withheld" /\ rec.crev = NextRevision(rvf[r].claim) /\ rec.grade = rvf[r].grade
         /\ Len(todo') = 2 /\ todo'[1] = Request(r, rec) /\ todo'[2].w = "event"
  BY RejectionWrites DEF RequestsIInv
<1>3. RequestSound(r)
  BY DEF RequestsIInv, RequestsSound
<1>4. rec.grade = 0
  BY <1>1, <1>2, <1>3 DEF RequestSound, Unjudged
<1>5. /\ rec.crev \in Nat /\ rec.crev > 0
      /\ \A q \in Requests : rvf[q].claim = rec.claim => rvf[q].crev # rec.crev
  <2>1. PICK claim : claim = rvf[r].claim
    OBVIOUS
  <2> QED  BY <1>2, <2>1, NextRevisionIsNew DEF RequestsIInv
<1>6. Fresh(r, rec)'
  BY <1>1, <1>5 DEF Fresh
<1>7. Rejects(r, rec)'
  BY <1>1, <1>2, <1>4, <1>6 DEF Rejects
<1>8. Advances(1, r, rec)'
  BY <1>1, <1>2, <1>7 DEF Advances, Requested
<1>9. /\ 1 \in 1..Len(todo') /\ Len(todo') \in Nat
      /\ \A i \in 1..Len(todo') : i # 1 => todo'[i].w = "event"
  <2>1. \A i \in 1..2 : i = 1 \/ i = 2
    OBVIOUS
  <2> QED  BY <1>2, <2>1
<1>10. OneRecord' /\ WritesFit'
  BY <1>2, <1>8, <1>9, RecordBegins
<1> QED  BY <1>1, <1>10, GrowsNot, RequestsRest

(* One request moves, the others rest.                                     *)
LEMMA OneMoves ==
    ASSUME RequestsIInv, AnnotationsTypeOK', NEW r \in Requests, UNCHANGED rvf, Grows,
           \A q \in Requests : q # r => runner'[q] = runner[q] /\ witnessed'[q] = witnessed[q],
           RequestSound(r)', RunnerSound(r)', OneRecord', WritesFit'
    PROVE  RequestsIInv'
<1>1. RequestsNumbered'
  BY DEF RequestsIInv, RequestsNumbered, Requested
<1>2. ASSUME NEW q \in Requests, q # r PROVE RequestSound(q)'
  <2>1. rvf[q].crev > 0 =>
           \A p \in Requests : p # q /\ rvf'[p].claim = rvf[q].claim => rvf'[p].crev # rvf[q].crev
    BY DEF RequestsIInv, RequestsSound, RequestSound, Fresh
  <2> QED  BY <1>2, <2>1, RequestStays DEF RequestsIInv, RequestsSound
<1>3. ASSUME NEW q \in Requests, q # r PROVE RunnerSound(q)'
  BY <1>3, RunnerStays DEF RequestsIInv, RunnersSound
<1> QED  BY <1>1, <1>2, <1>3 DEF RequestsIInv, RequestsSound, RunnersSound

LEMMA RunBeginsStep ==
    ASSUME RequestsIInv, AnnotationsTypeOK', NEW r \in Requests, RunBegins(r)
    PROVE  RequestsIInv'
<1>1. UNCHANGED <<rvf, witnessed, chain>> /\ runner[r].at = "start"
  BY DEF RunBegins, Records
<1>2. RequestSound(r) /\ RunnerSound(r)
  BY DEF RequestsIInv, RequestsSound, RunnersSound
<1>3. rvf[r].status \in {"approved", "replaying"} /\ witnessed[r] = <<>> /\ runner[r].reports = <<>>
  BY <1>1, <1>2 DEF RunnerSound
<1>4. runner' = [runner EXCEPT ![r].at = "wait"]
  BY RunWrites DEF RequestsIInv
<1>5. PICK rec \in RequestRecord :
         /\ rec.status = "replaying" /\ rec.claim = rvf[r].claim /\ rec.reason = rvf[r].reason
         /\ rec.outcome = rvf[r].outcome /\ rec.crev = rvf[r].crev /\ rec.grade = rvf[r].grade
         /\ Len(todo') = 2 /\ todo'[1] = Request(r, rec)
         /\ todo'[2] = Thread(r, IF rvf[r].reason = "other" THEN "settle" ELSE "check")
  BY <1>3, RunWrites DEF RequestsIInv
<1>6. /\ runner'[r].at = "wait" /\ runner'[r].reports = <<>>
      /\ \A q \in Requests : q # r => runner'[q] = runner[q]
  <2>1. runner \in [Requests -> [at : Places, reports : Seq(Reported)]]
    BY DEF RequestsIInv, AnnotationsTypeOK
  <2> QED  BY <1>3, <1>4, <2>1
<1>7. RunnerSound(r)'
  BY <1>1, <1>3, <1>6 DEF RunnerSound
<1>8. RequestSound(r)'
  <2>1. rvf[r].crev > 0 =>
           \A q \in Requests : q # r /\ rvf'[q].claim = rvf[r].claim => rvf'[q].crev # rvf[r].crev
    BY <1>1, <1>2 DEF RequestSound, Fresh
  <2> QED  BY <1>1, <1>2, <2>1, GrowsNot, RequestStays
<1>9. Unjudged(rec)
  BY <1>2, <1>3, <1>5 DEF RequestSound, Unjudged
<1>10. Advances(1, r, rec)'
  <2>1. Replays(1, r, rec)'
    BY <1>5, <1>6, <1>9 DEF Replays, Unjudged
  <2> QED  BY <1>1, <1>3, <1>5, <2>1 DEF Advances, Requested
<1>11. PICK place : place = IF rvf[r].reason = "other" THEN "settle" ELSE "check"
  OBVIOUS
<1>12. /\ todo'[1].w = "rvf" /\ todo'[1].id = r /\ todo'[1].rec = rec
       /\ todo'[2].w = "thread" /\ todo'[2].id = r /\ todo'[2].rec = place
  BY <1>5, <1>11 DEF Request, Thread
<1>13. ThreadFits(2)'
  <2>1. 1 \in 1..2 - 1
    OBVIOUS
  <2>2. Written(2, r, "replaying")'
    BY <1>5, <1>12, <2>1 DEF Written
  <2>3. MayGo(2, r, place)'
    BY <1>1, <1>6, <1>11, <2>2 DEF MayGo
  <2> QED  BY <1>5, <1>12, <2>3 DEF ThreadFits
<1>14. /\ 1 \in 1..Len(todo') /\ Len(todo') \in Nat
       /\ \A i \in 1..Len(todo') : i # 1 => todo'[i].w = "event" \/ (todo'[i].w = "thread" /\ ThreadFits(i)')
  <2>1. \A i \in 1..2 : i = 1 \/ i = 2
    OBVIOUS
  <2> QED  BY <1>5, <1>12, <1>13, <2>1
<1>15. OneRecord' /\ WritesFit'
  BY <1>5, <1>10, <1>14, RecordBegins
<1> QED  BY <1>1, <1>6, <1>7, <1>8, <1>15, GrowsNot, OneMoves

(* A thread that replays is not waited for by any write.                   *)
LEMMA ReplayFits ==
    ASSUME RequestsIInv, NEW r \in Requests, UNCHANGED <<rvf, chain, todo>>, runner[r].at \in {"check", "replay"},
           \A q \in Requests : q # r => runner'[q] = runner[q] /\ witnessed'[q] = witnessed[q]
    PROVE  OneRecord' /\ WritesFit'
<1>1. OneRecord'
  BY DEF RequestsIInv, OneRecord
<1>2. todo \in Seq(Writes) /\ Len(todo) \in Nat
  BY DEF RequestsIInv, AnnotationsTypeOK
<1>3. ASSUME NEW i \in 1..Len(todo), todo[i].w = "rvf"
      PROVE  Challenges(i, todo[i].id, todo[i].rec)' \/ Advances(i, todo[i].id, todo[i].rec)'
  <2>1. PICK q, rec : q = todo[i].id /\ rec = todo[i].rec
    OBVIOUS
  <2>2. q \in Requests
    <3>1. todo[i] \in Writes
      BY <1>2
    <3> QED  BY <1>3, <2>1, <3>1, WriteTyped
  <2>3. q = todo'[i].id /\ rec = todo'[i].rec
    BY <2>1
  <2>4. Challenges(i, q, rec) \/ Advances(i, q, rec)
    BY <1>3, <2>1 DEF RequestsIInv, WritesFit, RecordFits
  <2>5. CASE Challenges(i, q, rec)
    <3>1. Challenges(i, q, rec)'
      BY <2>5 DEF Challenges, Requested, Unjudged
    <3> QED  BY <2>3, <3>1
  <2>6. CASE Advances(i, q, rec)
    <3>1. runner[q].at \in {"none", "wait"} => runner'[q].at = runner[q].at /\ witnessed'[q] = witnessed[q]
      BY <2>2
    <3>2. \A event : Before(i, q, event) => Before(i, q, event)'
      BY DEF Before
    <3>3. Advances(i, q, rec)'
      BY <2>2, <2>6, <3>1, <3>2, GrowsNot, AdvancesStays
    <3> QED  BY <2>3, <3>3
  <2> QED  BY <2>4, <2>5, <2>6
<1>4. ASSUME NEW i \in 1..Len(todo), todo[i].w = "thread"
      PROVE  i = Len(todo) /\ MayGo(i, todo[i].id, todo[i].rec)'
  <2>1. PICK q, place : q = todo[i].id /\ place = todo[i].rec
    OBVIOUS
  <2>2. q \in Requests
    <3>1. todo[i] \in Writes
      BY <1>2
    <3> QED  BY <1>4, <2>1, <3>1, WriteTyped
  <2>3. i = Len(todo) /\ MayGo(i, q, place)
    BY <1>4, <2>1 DEF RequestsIInv, WritesFit, ThreadFits
  <2>4. runner'[q] = runner[q]
    <3>1. q # r
      BY <2>3 DEF MayGo
    <3> QED  BY <2>2, <3>1
  <2>5. \A status : Written(i, q, status) => Written(i, q, status)'
    BY DEF Written
  <2>6. MayGo(i, q, place)'
    BY <2>3, <2>4, <2>5 DEF MayGo
  <2>7. q = todo'[i].id /\ place = todo'[i].rec
    BY <2>1
  <2> QED  BY <2>3, <2>6, <2>7
<1>5. ASSUME NEW i \in 1..Len(todo') PROVE RecordFits(i)' /\ ThreadFits(i)'
  <2>1. RecordFits(i)'
    BY <1>3 DEF RecordFits
  <2>2. ThreadFits(i)'
    BY <1>4 DEF ThreadFits
  <2> QED  BY <2>1, <2>2
<1> QED  BY <1>1, <1>5 DEF WritesFit

LEMMA ReportAdded ==
    ASSUME NEW S, NEW reports \in Seq(S), NEW report \in S
    PROVE  /\ Append(reports, report) \in Seq(S) /\ Len(Append(reports, report)) = Len(reports) + 1
           /\ Failed(Append(reports, report)) <=> Failed(reports) \/ report = "error"
           /\ \A T : (\A i \in DOMAIN reports : reports[i] \in T) /\ report \in T =>
                 \A i \in DOMAIN Append(reports, report) : Append(reports, report)[i] \in T
<1> DEFINE more == Append(reports, report)
<1>1. PICK num \in Nat : num = Len(reports)
  OBVIOUS
<1>2. /\ more \in Seq(S) /\ Len(more) = num + 1 /\ DOMAIN reports = 1..num /\ DOMAIN more = 1..num + 1
      /\ more[num + 1] = report /\ \A i \in 1..num : more[i] = reports[i]
  BY <1>1
<1> HIDE DEF more
<1>3. \A i \in 1..num + 1 : i \in 1..num \/ i = num + 1
  OBVIOUS
<1>4. num + 1 \in 1..num + 1 /\ \A i \in 1..num : i \in 1..num + 1
  OBVIOUS
<1>5. Failed(more) <=> Failed(reports) \/ report = "error"
  BY <1>2, <1>3, <1>4 DEF Failed
<1>6. ASSUME NEW T, \A i \in DOMAIN reports : reports[i] \in T, report \in T
      PROVE  \A i \in DOMAIN more : more[i] \in T
  BY <1>2, <1>3, <1>6
<1>7. Len(more) = Len(reports) + 1
  BY <1>1, <1>2
<1> QED  BY <1>2, <1>5, <1>6, <1>7 DEF more

(* A thread that gets one report more.                                     *)
LEMMA ReportSound ==
    ASSUME RequestsIInv, NEW r \in Requests, NEW report \in Reported, Report(r, report), UNCHANGED rvf,
           runner[r].at \in {"check", "replay"},
           report = "error" \/ rvf[r].reason = "source" \/ witnessed'[r] = Append(witnessed[r], report),
           rvf[r].reason = "source" => witnessed'[r] = <<>>,
           rvf[r].reason = "flaky" => report \in ReplayOnce \cup {"error"}
    PROVE  RunnerSound(r)'
<1>1. PICK reports, more : reports = runner[r].reports /\ more = Append(reports, report)
  OBVIOUS
<1>2. reports \in Seq(Reported)
  BY <1>1 DEF RequestsIInv, AnnotationsTypeOK
<1>3. RunnerSound(r)
  BY DEF RequestsIInv, RunnersSound
<1>4. /\ rvf[r].status = "replaying" /\ Len(reports) < Runs(rvf[r].reason) /\ ~Failed(reports)
      /\ rvf[r].reason = "source" \/ witnessed[r] = reports
      /\ rvf[r].reason = "flaky" => \A i \in DOMAIN reports : reports[i] \in ReplayOnce \cup {"error"}
  BY <1>1, <1>3 DEF RunnerSound
<1>5. /\ runner'[r].reports = more
      /\ runner'[r].at = IF report # "error" /\ Len(reports) + 1 < Runs(rvf[r].reason) THEN "check" ELSE "settle"
  BY <1>1, ReportTyped DEF RequestsIInv
<1>6. /\ Len(more) = Len(reports) + 1 /\ (Failed(more) <=> report = "error")
      /\ \A T : (\A i \in DOMAIN reports : reports[i] \in T) /\ report \in T => \A i \in DOMAIN more : more[i] \in T
  BY <1>1, <1>2, <1>4, ReportAdded
<1>7. Len(reports) \in Nat /\ Runs(rvf[r].reason) \in Nat
  BY <1>2, NothingReported
<1>8. Failed(more) \/ rvf[r].reason = "source" \/ witnessed'[r] = more
  BY <1>1, <1>4, <1>6
<1>9. rvf[r].reason = "flaky" => \A i \in DOMAIN more : more[i] \in ReplayOnce \cup {"error"}
  BY <1>4, <1>6
<1>10. runner'[r].at = "check" => Len(more) < Runs(rvf[r].reason) /\ ~Failed(more)
  BY <1>5, <1>6
<1>11. runner'[r].at = "settle" => Failed(more) \/ Len(more) = Runs(rvf[r].reason)
  BY <1>4, <1>5, <1>6, <1>7
<1>12. runner'[r].at \in {"check", "settle"} /\ rvf'[r] = rvf[r]
  BY <1>5
<1> HIDE DEF ReplayOnce
<1> QED  BY <1>4, <1>5, <1>8, <1>9, <1>10, <1>11, <1>12 DEF RunnerSound

LEMMA CheckSourceStep ==
    ASSUME RequestsIInv, AnnotationsTypeOK', NEW r \in Requests, CheckSource(r)
    PROVE  RequestsIInv'
<1>1. UNCHANGED <<rvf, witnessed, chain, todo>> /\ runner[r].at = "check"
  BY DEF CheckSource, Records
<1>2. RequestSound(r) /\ RunnerSound(r)
  BY DEF RequestsIInv, RequestsSound, RunnersSound
<1>3. RequestSound(r)'
  <2>1. rvf[r].crev > 0 =>
           \A q \in Requests : q # r /\ rvf'[q].claim = rvf[r].claim => rvf'[q].crev # rvf[r].crev
    BY <1>1, <1>2 DEF RequestSound, Fresh
  <2> QED  BY <1>1, <1>2, <2>1, GrowsNot, RequestStays
<1>4. rvf[r].reason = "source" => witnessed[r] = <<>>
  BY <1>1, <1>2 DEF RunnerSound
<1>5. RunnerSound(r)' /\ \A q \in Requests : q # r => runner'[q] = runner[q]
  <2>1. ASSUME NEW report \in {"same source", "other source"}, rvf[r].reason = "source", Report(r, report)
        PROVE  RunnerSound(r)' /\ \A q \in Requests : q # r => runner'[q] = runner[q]
    <3>1. report \in Reported
      BY ReportedReports
    <3> QED  BY <1>1, <1>4, <2>1, <3>1, ReportSound, ReportTyped DEF RequestsIInv
  <2>2. ASSUME rvf[r].reason # "source", Report(r, "error")
        PROVE  RunnerSound(r)' /\ \A q \in Requests : q # r => runner'[q] = runner[q]
    <3>1. "error" \in Reported
      BY ReportedReports
    <3> QED  BY <1>1, <2>2, <3>1, ReportSound, ReportTyped DEF RequestsIInv
  <2>3. ASSUME rvf[r].reason # "source", Move(r, "replay")
        PROVE  RunnerSound(r)' /\ \A q \in Requests : q # r => runner'[q] = runner[q]
    <3>1. runner \in [Requests -> [at : Places, reports : Seq(Reported)]]
      BY DEF RequestsIInv, AnnotationsTypeOK
    <3>2. /\ runner'[r].at = "replay" /\ runner'[r].reports = runner[r].reports
          /\ \A q \in Requests : q # r => runner'[q] = runner[q]
      BY <2>3, <3>1 DEF Move
    <3>3. RunnerSound(r)'
      BY <1>1, <1>2, <2>3, <3>2 DEF RunnerSound, Failed
    <3> QED  BY <3>2, <3>3
  <2>4. \/ rvf[r].reason = "source" /\ \E report \in {"same source", "other source"} : Report(r, report)
        \/ rvf[r].reason # "source" /\ (Move(r, "replay") \/ Report(r, "error"))
    BY DEF CheckSource
  <2> QED  BY <2>1, <2>2, <2>3, <2>4
<1>6. OneRecord' /\ WritesFit'
  BY <1>1, <1>5, ReplayFits
<1> QED  BY <1>1, <1>3, <1>5, <1>6, GrowsNot, OneMoves

LEMMA ReplayStep ==
    ASSUME RequestsIInv, AnnotationsTypeOK', NEW r \in Requests, Replay(r)
    PROVE  RequestsIInv'
<1>1. UNCHANGED <<rvf, chain, todo>> /\ runner[r].at = "replay"
  BY DEF Replay, Records
<1>2. PICK report \in Reports(rvf[r].reason) \cup Unreadable :
         Report(r, report) /\ witnessed' = [witnessed EXCEPT ![r] = Append(@, report)]
  BY DEF Replay
<1>3. RequestSound(r) /\ RunnerSound(r)
  BY DEF RequestsIInv, RequestsSound, RunnersSound
<1>4. /\ rvf[r].status = "replaying" /\ rvf[r].reason # "source" /\ witnessed[r] = runner[r].reports
      /\ Len(witnessed[r]) < Runs(rvf[r].reason)
  BY <1>1, <1>3 DEF RunnerSound
<1>5. witnessed \in [Requests -> Seq(Reported)] /\ rvf[r].reason \in AllReasons
  BY DEF RequestsIInv, AnnotationsTypeOK, RequestRecord
<1>6. report \in Reported
  BY <1>5, ReportedReports DEF Unreadable
<1>7. witnessed'[r] = Append(witnessed[r], report) /\ \A q \in Requests : q # r => witnessed'[q] = witnessed[q]
  BY <1>2, <1>5
<1>8. rvf[r].reason = "flaky" => report \in ReplayOnce \cup {"error"}
  BY DEF Reports, Unreadable
<1>9. RunnerSound(r)' /\ \A q \in Requests : q # r => runner'[q] = runner[q]
  <2>1. \A q \in Requests : q # r => runner'[q] = runner[q]
    BY <1>2, <1>6, ReportTyped DEF RequestsIInv
  <2>2. RunnerSound(r)'
    BY <1>1, <1>2, <1>4, <1>6, <1>7, <1>8, ReportSound
  <2> QED  BY <2>1, <2>2
<1>10. Len(witnessed'[r]) <= Runs(rvf[r].reason)
  <2>1. PICK s \in Seq(Reported) : s = witnessed[r]
    BY <1>5
  <2>2. Len(Append(s, report)) = Len(s) + 1
    BY <2>1
  <2> QED  BY <1>4, <1>7, <2>1, <2>2, NothingReported
<1>11. RequestSound(r)'
  <2>1. Confirmed(r)'
    BY <1>1, <1>3, <1>4, GrowsNot, SaidStays DEF RequestSound
  <2>2. Unjudged(rvf[r]) /\ rvf[r].claim \in Experiments
    BY <1>3, <1>4 DEF RequestSound
  <2>3. rvf'[r] = rvf[r] /\ Unjudged(rvf[r])'
    BY <1>1, <2>2 DEF Unjudged
  <2>4. Certain(r, rvf[r])' /\ NotPromoted(rvf[r])'
    BY <1>1, <2>2 DEF Certain, NotPromoted, Unjudged
  <2>5. ~(rvf'[r].crev > 0)
    BY <1>1, <2>2 DEF Unjudged
  <2> QED  BY <1>4, <1>10, <2>1, <2>2, <2>3, <2>4, <2>5 DEF RequestSound
<1>12. OneRecord' /\ WritesFit'
  BY <1>1, <1>7, <1>9, ReplayFits
<1> QED  BY <1>1, <1>7, <1>9, <1>11, <1>12, GrowsNot, OneMoves

LEMMA JudgedNotAbove ==
    ASSUME NEW reason, NEW claim \in Claims, NEW reports
    PROVE  Judged(reason, claim, reports)[2] > 0 => Judged(reason, claim, reports)[2] >= Grade[claim]
<1>1. Graded(claim, 1) >= Grade[claim] /\ Graded(claim, 2) >= Grade[claim] /\ Graded(claim, 3) >= Grade[claim]
  BY NotAbove
<1>2. CASE Failed(reports)
  <2>1. Judged(reason, claim, reports)[2] = 0
    BY <1>2 DEF Judged
  <2> QED  BY <2>1
<1>3. CASE ~Failed(reports)
  <2>1. CASE reason = "coverage"
    <3>1. Judged(reason, claim, reports) = CoverageCheck(claim, reports[1])
      BY <1>3, <2>1 DEF Judged
    <3>2. CoverageCheck(claim, reports[1])[2] \in {0, Graded(claim, 1), Graded(claim, 2)}
      BY DEF CoverageCheck
    <3> QED  BY <1>1, <3>1, <3>2
  <2>2. CASE reason = "collection"
    <3>1. Judged(reason, claim, reports) = CollectionCheck(claim, reports[1])
      BY <1>3, <2>2 DEF Judged
    <3>2. CollectionCheck(claim, reports[1])[2] \in {0, Graded(claim, 1), Graded(claim, 3)}
      BY DEF CollectionCheck
    <3> QED  BY <1>1, <3>1, <3>2
  <2>3. CASE reason \notin {"coverage", "collection"}
    <3>1. Judged(reason, claim, reports)[2] = 0
      BY <1>3, <2>3 DEF Judged, SourceChanged, ScopeWiden, TestVisa, HumanRouting
    <3> QED  BY <3>1
  <2> QED  BY <2>1, <2>2, <2>3
<1> QED  BY <1>2, <1>3

(* What a flaky result is judged from.                                     *)
LEMMA VerdictIsCertain ==
    ASSUME NEW claim, NEW reports \in Seq(Reported),
           \A i \in DOMAIN reports : reports[i] \in ReplayOnce \cup {"error"},
           NEW outcome, outcome = Judged("flaky", claim, reports)[1]
    PROVE  /\ outcome \in {"confirmed", "revised"} =>
                 ~Failed(reports) /\ \A i \in DOMAIN reports : reports[i] \in {"same", "different"}
           /\ outcome = "confirmed" => \A i \in DOMAIN reports : reports[i] = "same"
<1> DEFINE all == {reports[i] : i \in DOMAIN reports}
<1>1. outcome = IF Failed(reports) THEN "withheld" ELSE Verdict(all)
  BY DEF Judged, SettleFromReplay
<1>2. CASE Failed(reports)
  BY <1>1, <1>2
<1>3. CASE ~Failed(reports)
  <2>1. outcome = Verdict(all)
    BY <1>1, <1>3
  <2>2. outcome \in {"confirmed", "revised"} => "not restored" \notin all
    <3> HIDE DEF all
    <3> QED  BY <2>1 DEF Verdict
  <2>3. outcome = "confirmed" => "different" \notin all
    <3> HIDE DEF all
    <3> QED  BY <2>1 DEF Verdict
  <2>4. \A i \in DOMAIN reports : reports[i] # "error"
    BY <1>3 DEF Failed
  <2>5. \A i \in DOMAIN reports : reports[i] \in all /\ reports[i] \in {"same", "different", "not restored", "error"}
    BY DEF ReplayOnce
  <2> HIDE DEF all
  <2>6. outcome \in {"confirmed", "revised"} => \A i \in DOMAIN reports : reports[i] \in {"same", "different"}
    BY <2>2, <2>4, <2>5
  <2>7. outcome = "confirmed" => \A i \in DOMAIN reports : reports[i] = "same"
    BY <2>3, <2>5, <2>6
  <2> QED  BY <1>3, <2>6, <2>7
<1> QED  BY <1>2, <1>3

LEMMA SettlementIsSound ==
    ASSUME RequestsIInv, NEW r \in Requests, runner[r].at = "settle"
    PROVE  Certain(r, Settlement(r)) /\ NotPromoted(Settlement(r))
<1>1. PICK rec, end, reports : rec = rvf[r] /\ end = Settlement(r) /\ reports = runner[r].reports
  OBVIOUS
<1>2. /\ end.claim = rec.claim /\ end.reason = rec.reason
      /\ end.outcome = Judged(rec.reason, rec.claim, reports)[1]
      /\ end.grade = Judged(rec.reason, rec.claim, reports)[2]
  BY <1>1, SettlementTyped DEF RequestsIInv
<1>3. RequestSound(r) /\ RunnerSound(r)
  BY DEF RequestsIInv, RequestsSound, RunnersSound
<1>4. /\ rec.status = "replaying"
      /\ Failed(reports) \/ rec.reason = "source" \/ witnessed[r] = reports
      /\ rec.reason = "flaky" => \A i \in DOMAIN reports : reports[i] \in ReplayOnce \cup {"error"}
      /\ Failed(reports) \/ Len(reports) = Runs(rec.reason)
  BY <1>1, <1>3 DEF RunnerSound
<1>5. reports \in Seq(Reported)
  BY <1>1 DEF RequestsIInv, AnnotationsTypeOK
<1>6. rec.claim \in Claims
  <2>1. rec.status = "replaying"
    BY <1>1, <1>3 DEF RunnerSound
  <2> QED  BY <1>1, <1>3, <2>1, NaturalBounds DEF RequestSound
<1>7. NotPromoted(end)
  BY <1>2, <1>6, JudgedNotAbove DEF NotPromoted
<1>8. Certain(r, end)
  <2> SUFFICES ASSUME end.reason = "flaky"
               PROVE  /\ end.outcome \in {"confirmed", "revised"} =>
                            Len(witnessed[r]) = KReruns /\ \A i \in DOMAIN witnessed[r] : witnessed[r][i] \in {"same", "different"}
                      /\ end.outcome = "confirmed" => \A i \in DOMAIN witnessed[r] : witnessed[r][i] = "same"
    BY DEF Certain
  <2>1. rec.reason = "flaky"
    BY <1>2
  <2>2. PICK outcome : outcome = end.outcome
    OBVIOUS
  <2>3. /\ outcome \in {"confirmed", "revised"} =>
              ~Failed(reports) /\ \A i \in DOMAIN reports : reports[i] \in {"same", "different"}
        /\ outcome = "confirmed" => \A i \in DOMAIN reports : reports[i] = "same"
    BY <1>2, <1>4, <1>5, <2>1, <2>2, VerdictIsCertain
  <2>4. outcome \in {"confirmed", "revised"} => witnessed[r] = reports
    BY <1>4, <2>1, <2>3
  <2>5. outcome \in {"confirmed", "revised"} => Len(reports) = KReruns
    BY <1>4, <2>1, <2>3 DEF Runs
  <2> QED  BY <2>2, <2>3, <2>4, <2>5
<1> QED  BY <1>1, <1>7, <1>8

LEMMA SettleStep ==
    ASSUME RequestsIInv, AnnotationsTypeOK', NEW r \in Requests, Settle(r)
    PROVE  RequestsIInv'
<1>1. /\ UNCHANGED <<rvf, witnessed, chain>> /\ runner[r].at = "settle"
      /\ runner' = [runner EXCEPT ![r] = NoRunner]
  BY DEF Settle, Records
<1>2. PICK end : end = Settlement(r)
  OBVIOUS
<1>3. /\ end \in RequestRecord /\ end.claim = rvf[r].claim /\ end.reason = rvf[r].reason
      /\ end.status \in {"settled", "failed"} /\ end.crev = NextRevision(rvf[r].claim)
  BY <1>2, SettlementTyped DEF RequestsIInv
<1>4. todo' = Replayed(r, end) \o <<Outcome(r, end)>> \o ProtectedClaim(r, end) \o <<Request(r, end)>>
  BY <1>2 DEF Settle, Begin
<1>5. PICK event : event = [kind |-> end.outcome, claim |-> end.claim, crev |-> end.crev]
  OBVIOUS
<1>6. /\ todo' \in Seq(Writes) /\ Len(todo') > 0 /\ todo'[Len(todo')] = Request(r, end)
      /\ \A i \in 1..Len(todo') - 1 : todo'[i].w = "event"
      /\ \E i \in 1..Len(todo') - 1 : todo'[i] = Event(<<"rvf", r>>, event)
  BY <1>3, <1>4, <1>5, SettleWrites
<1>7. RequestSound(r) /\ RunnerSound(r) /\ rvf[r].status = "replaying"
  BY <1>1 DEF RequestsIInv, RequestsSound, RunnersSound, RunnerSound
<1>8. PICK num \in Nat : num = Len(todo')
  BY <1>6
<1>9. Before(num, r, event)'
  <2>1. PICK i \in 1..num - 1 : todo'[i] = Event(<<"rvf", r>>, event)
    BY <1>6, <1>8
  <2>2. todo'[i].w = "event" /\ todo'[i].id = <<"rvf", r>> /\ todo'[i].rec = event
    BY <2>1 DEF Event
  <2> QED  BY <2>2 DEF Before
<1>10. Fresh(r, end)'
  <2>1. /\ end.crev \in Nat /\ end.crev > 0
        /\ \A q \in Requests : rvf[q].claim = end.claim => rvf[q].crev # end.crev
    <3>1. PICK claim : claim = rvf[r].claim
      OBVIOUS
    <3> QED  BY <1>3, <3>1, NextRevisionIsNew DEF RequestsIInv
  <2> QED  BY <1>1, <2>1 DEF Fresh
<1>11. Certain(r, end)' /\ NotPromoted(end)
  <2>1. Certain(r, end) /\ NotPromoted(end)
    BY <1>1, <1>2, SettlementIsSound
  <2> QED  BY <1>1, <2>1 DEF Certain
<1>12. /\ runner'[r].at = "none" /\ runner'[r].reports = <<>>
       /\ \A q \in Requests : q # r => runner'[q] = runner[q]
  <2>1. runner \in [Requests -> [at : Places, reports : Seq(Reported)]]
    BY DEF RequestsIInv, AnnotationsTypeOK
  <2> QED  BY <1>1, <2>1 DEF NoRunner
<1>13. Advances(num, r, end)'
  <2>1. NotPromoted(end)'
    BY <1>11 DEF NotPromoted
  <2>2. Settles(num, r, end)'
    BY <1>1, <1>3, <1>5, <1>7, <1>9, <1>10, <1>11, <1>12, <2>1 DEF Settles
  <2> QED  BY <1>1, <1>3, <1>7, <2>2 DEF Advances, Requested
<1>14. /\ num \in 1..Len(todo') /\ Len(todo') \in Nat /\ todo'[num] = Request(r, end)
       /\ \A i \in 1..Len(todo') : i # num => todo'[i].w = "event"
  BY <1>6, <1>8
<1>15. OneRecord' /\ WritesFit'
  BY <1>3, <1>13, <1>14, RecordBegins
<1>16. RunnerSound(r)'
  BY <1>12 DEF RunnerSound
<1>17. RequestSound(r)'
  <2>1. rvf[r].crev > 0 =>
           \A q \in Requests : q # r /\ rvf'[q].claim = rvf[r].claim => rvf'[q].crev # rvf[r].crev
    BY <1>1, <1>7 DEF RequestSound, Fresh
  <2> QED  BY <1>1, <1>7, <2>1, GrowsNot, RequestStays
<1> QED  BY <1>1, <1>12, <1>15, <1>16, <1>17, GrowsNot, OneMoves

(* A record is written: the first of the writes, and the only record.      *)
LEMMA RecordToWrite ==
    ASSUME RequestsIInv, WriteRequest
    PROVE  \E r \in Requests, rec \in RequestRecord :
              /\ rvf' = [rvf EXCEPT ![r] = rec] /\ rvf'[r] = rec /\ \A q \in Requests : q # r => rvf'[q] = rvf[q]
              /\ todo[1].w = "rvf" /\ todo[1].id = r /\ todo[1].rec = rec
              /\ Challenges(1, r, rec) \/ Advances(1, r, rec)
              /\ \A status : ~Before(1, r, status)
<1> DEFINE r == Head(todo).id  rec == Head(todo).rec
<1>1. todo # <<>> /\ rvf' = [rvf EXCEPT ![r] = rec] /\ Head(todo).w = "rvf"
  BY DEF WriteRequest, Pending
<1>2. /\ todo[1].w = "rvf" /\ todo[1].id = r /\ todo[1].rec = rec /\ todo[1] \in Writes
      /\ Len(todo) \in Nat /\ Len(todo) > 0
  BY <1>1, FirstWrite DEF RequestsIInv
<1> HIDE DEF r, rec
<1>3. r \in Requests /\ rec \in RequestRecord
  BY <1>2, WriteTyped
<1>4. rvf \in [Requests -> RequestRecord]
  BY DEF RequestsIInv, AnnotationsTypeOK
<1>5. rvf'[r] = rec /\ \A q \in Requests : q # r => rvf'[q] = rvf[q]
  BY <1>1, <1>3, <1>4
<1>6. Challenges(1, r, rec) \/ Advances(1, r, rec)
  <2>1. 1 \in 1..Len(todo)
    BY <1>2
  <2> QED  BY <1>2, <2>1 DEF RequestsIInv, WritesFit, RecordFits
<1>7. \A event : ~Before(1, r, event)
  BY DEF Before
<1> QED  BY <1>1, <1>2, <1>3, <1>5, <1>6, <1>7

(* What the record says is sound, and so is the thread that replays it.    *)
LEMMA RecordIsSound ==
    ASSUME RequestsIInv, WriteRequest, NEW r \in Requests, NEW rec \in RequestRecord,
           rvf'[r] = rec, \A q \in Requests : q # r => rvf'[q] = rvf[q],
           Challenges(1, r, rec) \/ Advances(1, r, rec), \A event : ~Before(1, r, event)
    PROVE  /\ RequestSound(r)' /\ RunnerSound(r)' /\ rec.status # "absent"
           /\ \A q \in Requests : q # r /\ rvf[q].crev > 0 /\ rec.claim = rvf[q].claim => rec.crev # rvf[q].crev
<1>1. UNCHANGED <<witnessed, chain, runner>>
  BY DEF WriteRequest
<1>2. RequestSound(r) /\ RunnerSound(r)
  BY DEF RequestsIInv, RequestsSound, RunnersSound
<1>3. runner[r].at \in Places
  BY DEF RequestsIInv, AnnotationsTypeOK
<1>4. rvf[r].status \in {"absent", "planned"} => runner[r].at = "none"
  BY <1>2, <1>3 DEF RunnerSound, Places
<1>5. runner[r].at = "none" => RunnerSound(r)'
  BY <1>1, <1>2 DEF RunnerSound
<1>6. Confirmed(r)' <=> Confirmed(r)
  BY <1>1 DEF Confirmed, Said
<1>7. OnChain(r, rec) => OnChain(r, rec)'
  BY <1>1, GrowsNot, SaidStays
<1>8. Unjudged(rec) => /\ Certain(r, rec) /\ NotPromoted(rec) /\ ~(rec.crev > 0)
                       /\ \A q \in Requests : rvf[q].crev > 0 => rec.crev # rvf[q].crev
  BY DEF Unjudged, Certain, NotPromoted
<1>9. Fresh(r, rec) => /\ Fresh(r, rec)'
                       /\ \A q \in Requests : q # r /\ rec.claim = rvf[q].claim => rec.crev # rvf[q].crev
  BY DEF Fresh
<1>10. /\ Certain(r, rec) => Certain(r, rvf[r])'
       /\ NotPromoted(rec) => NotPromoted(rvf[r])'
       /\ Fresh(r, rec)' => Fresh(r, rvf[r])'
       /\ OnChain(r, rec)' => OnChain(r, rvf[r])'
       /\ Unjudged(rec) => Unjudged(rvf[r])'
  BY <1>1 DEF Certain, NotPromoted, Fresh, OnChain, Unjudged
<1>11. CASE Challenges(1, r, rec)
  <2>1. rvf[r].status = "absent"
    <3>1. Requested(r) <=> r < r
      BY <1>11 DEF Challenges
    <3>2. r \in Nat
      BY DEF Requests
    <3> QED  BY <3>1, <3>2 DEF Requested
  <2>2. witnessed'[r] = <<>> /\ Len(<<>>) <= Runs(rec.reason)
    BY <1>1, <1>2, <2>1, NothingReported DEF RequestSound
  <2>3. rec.status = "planned" /\ rec.claim \in Experiments /\ Unjudged(rec)
    BY <1>11 DEF Challenges
  <2>4. RequestSound(r)'
    BY <1>8, <1>10, <2>2, <2>3 DEF RequestSound
  <2> QED  BY <1>4, <1>5, <1>8, <2>1, <2>3, <2>4
<1>12. CASE Advances(1, r, rec)
  <2>1. /\ rvf[r].status # "absent" /\ rec.claim = rvf[r].claim /\ rec.reason = rvf[r].reason
        /\ rec.claim \in Experiments /\ Len(witnessed'[r]) <= Runs(rec.reason)
    BY <1>1, <1>2, <1>12 DEF Advances, Requested, RequestSound
  <2>2. CASE Approves(1, r, rec)
    <3>1. rec.status = "approved" /\ rvf[r].status = "planned" /\ Unjudged(rec) /\ Confirmed(r)'
      BY <1>6, <2>2 DEF Approves
    <3>2. witnessed'[r] = <<>>
      BY <1>1, <1>2, <3>1 DEF RequestSound
    <3>3. RequestSound(r)'
      BY <1>8, <1>10, <2>1, <3>1, <3>2 DEF RequestSound
    <3> QED  BY <1>4, <1>5, <1>8, <3>1, <3>3
  <2>3. CASE Replays(1, r, rec)
    <3>1. rec.status = "replaying" /\ runner[r].at = "wait" /\ Unjudged(rec)
      BY <2>3 DEF Replays
    <3>2. witnessed'[r] = <<>> /\ rvf[r].status \in {"approved", "replaying"} /\ runner[r].reports = <<>>
      BY <1>1, <1>2, <3>1 DEF RunnerSound
    <3>3. Confirmed(r)'
      BY <1>2, <1>6, <3>2 DEF RequestSound
    <3>4. RequestSound(r)'
      BY <1>8, <1>10, <2>1, <3>1, <3>3 DEF RequestSound
    <3>5. RunnerSound(r)'
      BY <1>1, <3>1, <3>2 DEF RunnerSound
    <3> QED  BY <1>8, <3>1, <3>4, <3>5
  <2>4. CASE Rejects(r, rec)
    <3>1. /\ rec.status = "rejected" /\ rvf[r].status = "planned" /\ rec.outcome = "withheld" /\ rec.grade = 0
          /\ Fresh(r, rec)
      BY <2>4 DEF Rejects
    <3>2. witnessed'[r] = <<>>
      BY <1>1, <1>2, <3>1 DEF RequestSound
    <3>3. Certain(r, rec) /\ NotPromoted(rec)
      BY <3>1 DEF Certain, NotPromoted
    <3>4. RequestSound(r)'
      BY <1>9, <1>10, <2>1, <3>1, <3>2, <3>3 DEF RequestSound
    <3> QED  BY <1>4, <1>5, <1>9, <3>1, <3>4
  <2>5. CASE Settles(1, r, rec)
    <3>1. /\ rec.status \in {"settled", "failed"} /\ rvf[r].status = "replaying" /\ runner[r].at = "none"
          /\ OnChain(r, rec) /\ Fresh(r, rec) /\ Certain(r, rec) /\ NotPromoted(rec)
      BY <2>5 DEF Settles
    <3>2. Confirmed(r)'
      BY <1>2, <1>6, <3>1 DEF RequestSound
    <3>3. RequestSound(r)'
      BY <1>7, <1>9, <1>10, <2>1, <3>1, <3>2 DEF RequestSound
    <3> QED  BY <1>5, <1>9, <3>1, <3>3
  <2> QED  BY <1>12, <2>2, <2>3, <2>4, <2>5 DEF Advances
<1> QED  BY <1>11, <1>12

LEMMA WriteRequestStep ==
    ASSUME RequestsIInv, AnnotationsTypeOK', WriteRequest PROVE RequestsIInv'
<1>1. UNCHANGED <<witnessed, chain, runner>> /\ todo # <<>> /\ todo' = Tail(todo)
  BY DEF WriteRequest, Pending
<1>2. PICK r \in Requests, rec \in RequestRecord :
         /\ rvf'[r] = rec /\ \A q \in Requests : q # r => rvf'[q] = rvf[q]
         /\ todo[1].w = "rvf" /\ todo[1].id = r /\ todo[1].rec = rec
         /\ Challenges(1, r, rec) \/ Advances(1, r, rec)
         /\ \A event : ~Before(1, r, event)
  BY RecordToWrite
<1>3. /\ RequestSound(r)' /\ RunnerSound(r)' /\ rec.status # "absent"
      /\ \A q \in Requests : q # r /\ rvf[q].crev > 0 /\ rec.claim = rvf[q].claim => rec.crev # rvf[q].crev
  BY <1>2, RecordIsSound
<1>4. RequestsNumbered'
  <2>1. CASE Challenges(1, r, rec)
    <3>1. \A q \in Requests : Requested(q) <=> q < r
      BY <2>1 DEF Challenges
    <3>2. \A q \in Requests : q \in Nat
      BY DEF Requests
    <3>3. \A q \in Requests : Requested(q)' <=> q <= r
      <4>1. ASSUME NEW q \in Requests, q # r PROVE Requested(q)' <=> q <= r
        BY <1>2, <3>1, <3>2, <4>1 DEF Requested
      <4>2. Requested(r)' /\ r <= r
        BY <1>2, <1>3, <3>2 DEF Requested
      <4> QED  BY <4>1, <4>2
    <3>4. r \in 0..MaxRequests
      BY NaturalBounds DEF Requests
    <3> QED  BY <3>3, <3>4 DEF RequestsNumbered
  <2>2. CASE Advances(1, r, rec)
    <3>1. Requested(r) /\ Requested(r)'
      BY <1>2, <1>3, <2>2 DEF Advances, Requested
    <3>2. \A q \in Requests : Requested(q)' <=> Requested(q)
      <4>1. ASSUME NEW q \in Requests, q # r PROVE Requested(q)' <=> Requested(q)
        BY <1>2, <4>1 DEF Requested
      <4> QED  BY <3>1, <4>1
    <3> QED  BY <3>2 DEF RequestsIInv, RequestsNumbered
  <2> QED  BY <1>2, <2>1, <2>2
<1>5. ASSUME NEW q \in Requests PROVE RequestSound(q)' /\ RunnerSound(q)'
  <2>1. CASE q = r
    BY <1>3, <2>1
  <2>2. CASE q # r
    <3>1. rvf'[q] = rvf[q]
      BY <1>2, <2>2
    <3>2. rvf[q].crev > 0 =>
             \A p \in Requests : p # q /\ rvf'[p].claim = rvf[q].claim => rvf'[p].crev # rvf[q].crev
      <4> SUFFICES ASSUME rvf[q].crev > 0, NEW p \in Requests, p # q, rvf'[p].claim = rvf[q].claim
                   PROVE  rvf'[p].crev # rvf[q].crev
        OBVIOUS
      <4>1. CASE p = r
        BY <1>2, <1>3, <2>2, <4>1
      <4>2. CASE p # r
        <5>1. rvf'[p] = rvf[p]
          BY <1>2, <4>2
        <5> QED  BY <5>1 DEF RequestsIInv, RequestsSound, RequestSound, Fresh
      <4> QED  BY <4>1, <4>2
    <3>3. RequestSound(q)'
      BY <1>1, <3>1, <3>2, GrowsNot, RequestStays DEF RequestsIInv, RequestsSound
    <3>4. RunnerSound(q)'
      BY <1>1, <3>1, RunnerStays DEF RequestsIInv, RunnersSound
    <3> QED  BY <3>3, <3>4
  <2> QED  BY <2>1, <2>2
<1>6. OneRecord'
  BY <1>1, OneRecordStays DEF RequestsIInv
<1>7. ASSUME NEW i \in 1..Len(todo') PROVE RecordFits(i)' /\ ThreadFits(i)'
  <2>1. /\ i \in Nat /\ i + 1 \in 1..Len(todo) /\ i + 1 # 1 /\ todo'[i] = todo[i + 1]
        /\ i + 1 = Len(todo) => i = Len(todo')
        /\ \A q, status : Written(i + 1, q, status) =>
              \/ rvf[q].status = status
              \/ todo[1].w = "rvf" /\ todo[1].id = q /\ todo[1].rec.status = status
              \/ \E j \in 1..i - 1 : todo'[j].w = "rvf" /\ todo'[j].id = q /\ todo'[j].rec.status = status
    BY <1>1, MovedUp DEF RequestsIInv
  <2>2. Len(todo) \in Nat /\ Len(todo) > 0 /\ 1 \in 1..Len(todo)
    BY <1>1, FirstWrite DEF RequestsIInv
  <2>3. \A j \in 1..Len(todo) : j # 1 => todo[j].w # "rvf"
    BY <1>2, <2>2 DEF RequestsIInv, OneRecord
  <2>4. RecordFits(i)'
    BY <2>1, <2>3 DEF RecordFits
  <2>5. ThreadFits(i)'
    <3> SUFFICES ASSUME todo'[i].w = "thread" PROVE i = Len(todo') /\ MayGo(i, todo[i].id, todo[i].rec)'
      BY DEF ThreadFits
    <3>1. PICK q, place : q = todo[i + 1].id /\ place = todo[i + 1].rec
      OBVIOUS
    <3>2. q \in Requests
      <4>1. todo[i + 1] \in Writes
        BY <2>1 DEF RequestsIInv, AnnotationsTypeOK
      <4> QED  BY <2>1, <3>1, <4>1, WriteTyped
    <3>3. i + 1 = Len(todo) /\ MayGo(i + 1, q, place)
      BY <2>1, <3>1 DEF RequestsIInv, WritesFit, ThreadFits
    <3>4. \A j \in 1..i - 1 : todo'[j].w # "rvf"
      <4> SUFFICES ASSUME NEW j \in 1..i - 1 PROVE todo'[j].w # "rvf"
        OBVIOUS
      <4>1. j \in 1..Len(todo')
        BY <2>1, <2>2, <3>3
      <4>2. j + 1 \in 1..Len(todo) /\ j + 1 # 1 /\ todo'[j] = todo[j + 1]
        BY <1>1, <4>1, MovedUp DEF RequestsIInv
      <4> QED  BY <2>3, <4>2
    <3>5. \A status : Written(i + 1, q, status) => rvf[q].status = status \/ (q = r /\ rec.status = status)
      BY <1>2, <2>1, <3>4
    <3>6. rvf'[q].reason = rvf[q].reason \/ rvf[q].status = "absent"
      <4>1. CASE q # r
        BY <1>2, <3>2, <4>1
      <4>2. CASE q = r /\ Advances(1, r, rec)
        BY <1>2, <4>2 DEF Advances
      <4>3. CASE q = r /\ Challenges(1, r, rec)
        <5>1. r \in Nat /\ (Requested(r) <=> r < r)
          BY <4>3 DEF Challenges, Requests
        <5> QED  BY <4>3, <5>1 DEF Requested
      <4> QED  BY <1>2, <4>1, <4>2, <4>3
    <3>7. CASE place = "start" /\ runner[q].at = "none" /\ Written(i + 1, q, "approved")
      <4>1. rvf'[q].status = "approved"
        <5>1. CASE q # r
          BY <1>2, <3>2, <3>5, <3>7, <5>1
        <5>2. CASE q = r
          <6>1. rvf[r].status = "approved" => ~Challenges(1, r, rec)
            <7>1. r \in Nat
              BY DEF Requests
            <7> QED  BY <7>1 DEF Challenges, Requested
          <6>2. rvf[r].status = "approved" => ~Advances(1, r, rec)
            BY <3>7, <5>2 DEF Advances, Approves, Replays, Rejects, Settles
          <6> QED  BY <1>2, <3>5, <3>7, <5>2, <6>1, <6>2
        <5> QED  BY <5>1, <5>2
      <4>2. MayGo(i, q, place)'
        BY <1>1, <3>7, <4>1 DEF MayGo, Written
      <4> QED  BY <2>1, <3>1, <3>3, <4>2
    <3>8. CASE /\ runner[q].at = "wait" /\ Written(i + 1, q, "replaying")
               /\ place = IF rvf[q].reason = "other" THEN "settle" ELSE "check"
      <4>1. rvf[q].status \in {"approved", "replaying"}
        BY <3>2, <3>8 DEF RequestsIInv, RunnersSound, RunnerSound
      <4>2. rvf'[q].status = "replaying"
        <5>1. CASE q # r
          BY <1>2, <3>2, <3>5, <3>8, <5>1
        <5>2. CASE q = r
          <6>1. ~Challenges(1, r, rec)
            <7>1. r \in Nat
              BY DEF Requests
            <7> QED  BY <4>1, <5>2, <7>1 DEF Challenges, Requested
          <6>2. rvf[r].status = "replaying" /\ Advances(1, r, rec) => rec.status = "replaying"
            BY <3>8, <5>2 DEF Advances, Approves, Replays, Rejects, Settles
          <6> QED  BY <1>2, <3>5, <3>8, <5>2, <6>1, <6>2
        <5> QED  BY <5>1, <5>2
      <4>3. rvf'[q].reason = rvf[q].reason
        BY <3>6, <4>1
      <4>4. MayGo(i, q, place)'
        BY <1>1, <3>8, <4>2, <4>3 DEF MayGo, Written
      <4> QED  BY <2>1, <3>1, <3>3, <4>4
    <3> QED  BY <3>3, <3>7, <3>8 DEF MayGo
  <2> QED  BY <2>4, <2>5
<1>8. WritesFit'
  BY <1>7 DEF WritesFit
<1> QED  BY <1>4, <1>5, <1>6, <1>8 DEF RequestsIInv, RequestsSound, RunnersSound

LEMMA EditSourceStep ==
    ASSUME RequestsIInv, AnnotationsTypeOK', EditSource \/ UNCHANGED vars PROVE RequestsIInv'
<1>1. UNCHANGED <<rvf, witnessed, runner, chain, todo>>
  BY DEF EditSource, Records, vars
<1> QED  BY <1>1, SameFit, GrowsNot, RequestsRest

LEMMA NextRequestsIInv ==
    ASSUME RequestsIInv, [Next]_vars PROVE RequestsIInv'
<1>1. AnnotationsTypeOK'
  BY NextTyped DEF RequestsIInv
<1>2. CASE Reverifying
  BY <1>1, <1>2, ChallengeStep, ApproveStep, RejectStep, RunBeginsStep, CheckSourceStep, ReplayStep, SettleStep
     DEF Reverifying
<1>3. CASE Writing
  BY <1>1, <1>3, WriteCommentRests, WriteRequestStep, AppendEventStep, StopStep, UnlockStep DEF Writing
<1> QED  BY <1>1, <1>2, <1>3, CommentingStep, ListingStep, EditSourceStep, StopStep DEF Next

LEMMA InitRequestsIInv == Init => RequestsIInv
<1> SUFFICES ASSUME Init PROVE RequestsIInv
  OBVIOUS
<1>1. AnnotationsTypeOK
  BY InitTyped
<1>2. Len(todo) = 0 /\ OneRecord /\ WritesFit
  BY DEF Init, OneRecord, WritesFit
<1>3. ASSUME NEW r \in Requests PROVE RequestSound(r) /\ RunnerSound(r) /\ ~Requested(r)
  <2>1. /\ rvf[r].status = "absent" /\ rvf[r].outcome = "none" /\ rvf[r].crev = 0 /\ rvf[r].grade = 0
        /\ rvf[r].reason = "other" /\ witnessed[r] = <<>> /\ runner[r].at = "none" /\ runner[r].reports = <<>>
    BY DEF Init, NoRequest, NoRunner
  <2>2. RequestSound(r)
    BY <2>1, NothingReported DEF RequestSound, Unjudged, Certain, NotPromoted
  <2>3. RunnerSound(r)
    BY <2>1 DEF RunnerSound
  <2> QED  BY <2>1, <2>2, <2>3 DEF Requested
<1>4. RequestsNumbered
  <2>1. 0 \in 0..MaxRequests /\ \A r \in Requests : ~(r <= 0)
    BY NaturalBounds DEF Requests
  <2> QED  BY <1>3, <2>1 DEF RequestsNumbered
<1> QED  BY <1>1, <1>2, <1>3, <1>4 DEF RequestsIInv, RequestsSound, RunnersSound

(* The re-verifications, their threads and what is still to be written fit *)
(* together, whatever died between two writes.                             *)
THEOREM RequestsIInvHolds == Spec => []RequestsIInv
  BY InitRequestsIInv, NextRequestsIInv, PTL DEF Spec

(* ReviewManager.approve_reverification, _next_claim_revision,             *)
(* _settle_from_replay and ensure_no_promotion: no experiment is run again *)
(* before a person confirmed it, judgements of a claim have revisions of   *)
(* their own, uncertain reruns only withhold, and no evidence is graded    *)
(* above the review's grade.                                               *)
THEOREM JudgementsAreSound == Spec => []JudgementSound
<1>1. ASSUME RequestsIInv PROVE JudgementSound
  <2>1. ASSUME NEW r \in Requests
        PROVE  /\ RequestSound(r) /\ Certain(r, rvf[r]) /\ NotPromoted(rvf[r])
               /\ witnessed[r] # <<>> => rvf[r].status \in {"replaying", "settled", "failed"}
    <3>1. RequestSound(r)
      BY <1>1 DEF RequestsIInv, RequestsSound
    <3>2. rvf[r].status \in {"absent", "planned", "approved", "replaying", "rejected", "settled", "failed"}
      BY <1>1 DEF RequestsIInv, AnnotationsTypeOK, RequestRecord
    <3> QED  BY <3>1, <3>2 DEF RequestSound
  <2>2. ReplayedOnceConfirmed
    BY <2>1 DEF ReplayedOnceConfirmed, RequestSound, Confirmed
  <2>3. JudgementsDistinct
    BY <2>1 DEF JudgementsDistinct, RequestSound, Fresh
  <2>4. UncertaintyWithholds
    BY <2>1 DEF UncertaintyWithholds, Certain
  <2>5. NeverPromoted
    BY <2>1 DEF NeverPromoted, NotPromoted
  <2> QED  BY <2>2, <2>3, <2>4, <2>5 DEF JudgementSound
<1> QED  BY <1>1, RequestsIInvHolds, PTL

(* _run_reverification_locked and _reanchor_comment: a settled record says *)
(* no more than the chain, after a confirmation, and a superseded comment  *)
(* names the one that supersedes it, whatever died between two writes.     *)
THEOREM RecordsAlwaysAgree == Spec => []RecordsAgree
<1>1. ASSUME RequestsIInv PROVE JudgementOnChain
  BY <1>1 DEF RequestsIInv, RequestsSound, RequestSound, JudgementOnChain, OnChain
<1>2. ASSUME CommentsIInv PROVE LinksAreMutual
  <2> SUFFICES ASSUME NEW c \in Comments, comment[c].by # 0 PROVE comment[comment[c].by].supersedes = c
    BY DEF LinksAreMutual
  <2>1. Exists(c)
    BY <1>2 DEF CommentsIInv, CommentsNumbered
  <2> QED  BY <1>2, <2>1 DEF CommentsIInv, VersionsOnDisk, Version
<1>3. RequestsIInv /\ CommentsIInv => RecordsAgree
  BY <1>1, <1>2 DEF RecordsAgree
<1> QED  BY <1>3, RequestsIInvHolds, CommentsIInvHolds, PTL

-----------------------------------------------------------------------------
(* The visa of a proposed test (TestProposal), for any callers, files,     *)
(* deletions, rounds and changes of the checkout.                          *)

Fields == {"pc", "round", "shown", "cites", "kept", "cand", "patch", "base", "leased", "alone",
           "stage", "tree", "visa", "status"}
CallPlaces == {"ask", "open", "inside", "decide", "record", "remember", "release"}

(* A visa that says a test is effective has the evidence.                  *)
Earned(visa) ==
    visa.holdout # {} /\ visa.evidence[2] /\ \A j \in 1..2 : visa.evidence[1][j] = "failed"

(* What was shown to the model and what the visa holds out come of the     *)
(* same references while they are kept, and a visa that was earned is that *)
(* of the last candidate: no further one is asked for.                     *)
CallSound(x) ==
    /\ DOMAIN x = Fields /\ x.pc \in CallPlaces
    /\ x.cites = {} => x.pc \in {"ask", "release"} /\ x.shown = {} /\ x.visa.status = "none"
    /\ x.kept =>
          /\ x.shown \subseteq TP!Generation(x.cites)
          /\ x.visa.status # "none" => x.visa.holdout \subseteq TP!Holdout(x.cites)
    /\ x.visa.status = "VERIFIED_EFFECTIVE" =>
          /\ x.pc \in {"decide", "record", "remember", "release"}
          /\ x.visa.cand = x.cand /\ Earned(x.visa)
          /\ x.pc \in {"record", "remember"} => x.status \notin {"", "NEEDS_HUMAN"}

Waiting(x) == x = TP!Idle \/ x = [pc |-> "acquire"]
CallsSound == DOMAIN calls = Callers /\ \A c \in Callers : Waiting(calls[c]) \/ CallSound(calls[c])

(* Until the user touches the checkout, a worktree was made of it as it is.*)
TreesSound ==
    /\ upsets \in Nat
    /\ upsets = 0 => ~stays /\ \A c \in Callers : calls[c].pc = "inside" => calls[c].tree = checkout.status

(* The record of the lease names the review while one of its calls runs    *)
(* under it, and a call that has it alone is the only one.                 *)
LeaseSound ==
    /\ rival => lease = "other"
    /\ \A c \in Callers : TP!Working(c) =>
          /\ calls[c].leased => lease = "review"
          /\ calls[c].alone => calls[c].leased /\ \A d \in Callers : TP!Working(d) => d = c

RecordSound(r) ==
    r.status # "none" /\ r.effective =>
        /\ r.cand = <<r.visa[1], r.visa[2].cand>> /\ r.status # "NEEDS_HUMAN" /\ Earned(r.visa[2])
RecordsSound == RecordSound(proposal) /\ \A k \in DOMAIN answers : RecordSound(answers[k])

(* The inductive invariant.                                                *)
ProposalIInv == CallsSound /\ TreesSound /\ LeaseSound /\ RecordsSound

(* A call that works has all its fields; one that waits has none.          *)
LEMMA WorkingIsSound ==
    ASSUME CallsSound, NEW c \in Callers
    PROVE  /\ TP!Working(c) <=> CallSound(calls[c])
           /\ TP!Working(c) <=> calls[c].pc \in CallPlaces
           /\ ~TP!Working(c) => Waiting(calls[c])
<1>1. TP!Idle.pc = "idle" /\ [pc |-> "acquire"].pc = "acquire"
  BY DEF TP!Idle
<1>2. Waiting(calls[c]) => calls[c].pc \in {"idle", "acquire"}
  BY <1>1 DEF Waiting
<1>3. CallSound(calls[c]) => calls[c].pc \in CallPlaces
  BY DEF CallSound
<1>4. Waiting(calls[c]) \/ CallSound(calls[c])
  BY DEF CallsSound
<1> HIDE DEF Waiting, CallSound
<1> QED  BY <1>2, <1>3, <1>4 DEF TP!Working, CallPlaces

(* One call moves on and keeps what it has of the lease.                   *)
LEMMA CallStep ==
    ASSUME ProposalIInv, NEW c \in Callers, TP!Working(c), NEW new, calls' = [calls EXCEPT ![c] = new],
           CallSound(new), new.leased = calls[c].leased, new.alone = calls[c].alone,
           UNCHANGED <<checkout, upsets, lease, rival>>,
           new.pc = "inside" => new.tree = checkout.status,
           stays' = stays \/ upsets # 0
    PROVE  CallsSound' /\ TreesSound' /\ LeaseSound'
<1>1. /\ DOMAIN calls = Callers /\ DOMAIN calls' = Callers /\ calls'[c] = new
      /\ \A d \in Callers : d # c => calls'[d] = calls[d]
  BY DEF ProposalIInv, CallsSound
<1>2. CallsSound'
  <2>1. \A d \in Callers : Waiting(calls'[d]) \/ CallSound(calls'[d])
    BY <1>1 DEF ProposalIInv, CallsSound
  <2> QED  BY <1>1, <2>1 DEF CallsSound, Waiting, CallSound
<1>3. TreesSound'
  BY <1>1 DEF ProposalIInv, TreesSound
<1>4. \A d \in Callers : TP!Working(d)' => TP!Working(d)
  BY <1>1 DEF TP!Working
<1>5. LeaseSound'
  BY <1>1, <1>4 DEF ProposalIInv, LeaseSound
<1> QED  BY <1>2, <1>3, <1>5

(* A call that goes elsewhere as it is.                                    *)
LEMMA Elsewhere ==
    ASSUME NEW x, CallSound(x), NEW y, DOMAIN y = Fields, y.pc \in CallPlaces,
           x.cites = {} => y.pc \in {"ask", "release"},
           y.shown = x.shown, y.cites = x.cites, y.kept = x.kept, y.visa = x.visa, y.cand = x.cand,
           x.visa.status = "VERIFIED_EFFECTIVE" =>
               /\ y.pc \in {"decide", "record", "remember", "release"}
               /\ y.pc \in {"record", "remember"} => y.status \notin {"", "NEEDS_HUMAN"}
    PROVE  CallSound(y)
  BY DEF CallSound

(* A call is over and has the lease still to give back.                    *)
LEMMA LeavesStep ==
    ASSUME ProposalIInv, NEW c \in Callers, TP!Working(c), TP!Leaves(c),
           UNCHANGED <<checkout, upsets, lease, rival>>, stays' = stays \/ upsets # 0
    PROVE  CallsSound' /\ TreesSound' /\ LeaseSound'
<1>1. PICK x : x = calls[c]
  OBVIOUS
<1>2. PICK y : y = [x EXCEPT !.pc = "release", !.tree = "none"]
  OBVIOUS
<1>3. CallSound(x) /\ DOMAIN x = Fields
  BY <1>1, WorkingIsSound DEF ProposalIInv, CallSound
<1>4. /\ DOMAIN y = Fields /\ y.pc = "release" /\ y.shown = x.shown /\ y.cites = x.cites /\ y.kept = x.kept
      /\ y.visa = x.visa /\ y.cand = x.cand /\ y.leased = x.leased /\ y.alone = x.alone
  BY <1>2, <1>3 DEF Fields
<1>5. CallSound(y)
  BY <1>3, <1>4, Elsewhere DEF CallPlaces
<1>6. calls' = [calls EXCEPT ![c] = y]
  BY <1>1, <1>2 DEF TP!Leaves
<1> QED  BY <1>1, <1>4, <1>5, <1>6, CallStep

(* A worktree was removed and the call goes on elsewhere.                  *)
LEMMA RemovedStep ==
    ASSUME ProposalIInv, NEW c \in Callers, NEW new, TP!Removed(c, new), CallSound(new), new.pc # "inside",
           new.leased = calls[c].leased, new.alone = calls[c].alone
    PROVE  ProposalIInv'
<1>1. PICK y : y = [new EXCEPT !.tree = "none"]
  OBVIOUS
<1>2. DOMAIN new = Fields /\ new.pc \in CallPlaces
  BY DEF CallSound
<1>3. /\ DOMAIN y = Fields /\ y.pc = new.pc /\ y.shown = new.shown /\ y.cites = new.cites /\ y.kept = new.kept
      /\ y.visa = new.visa /\ y.cand = new.cand /\ y.leased = new.leased /\ y.alone = new.alone
      /\ y.status = new.status
  BY <1>1, <1>2 DEF Fields
<1>4. CallSound(y)
  <2>1. /\ new.visa.status = "VERIFIED_EFFECTIVE" =>
           /\ new.pc \in {"decide", "record", "remember", "release"}
           /\ new.pc \in {"record", "remember"} => new.status \notin {"", "NEEDS_HUMAN"}
        /\ new.cites = {} => new.pc \in {"ask", "release"}
    BY DEF CallSound
  <2> QED  BY <1>2, <1>3, <2>1, Elsewhere
<1>5. /\ calls' = [calls EXCEPT ![c] = y] /\ calls[c].pc = "inside"
      /\ UNCHANGED <<checkout, upsets, lease, rival, proposal, answers, stays>>
  BY <1>1 DEF TP!Removed, TP!Set, TP!world
<1>6. TP!Working(c)
  BY <1>5 DEF TP!Working
<1>7. CallsSound' /\ TreesSound' /\ LeaseSound'
  BY <1>3, <1>4, <1>5, <1>6, CallStep
<1>8. RecordsSound'
  BY <1>5 DEF ProposalIInv, RecordsSound
<1> QED  BY <1>7, <1>8 DEF ProposalIInv

(* A call inside a worktree has its fields and no visa that was earned.    *)
LEMMA InsideIsSound ==
    ASSUME ProposalIInv, NEW c \in Callers, calls[c].pc \in {"inside", "open", "ask"}
    PROVE  /\ CallSound(calls[c]) /\ DOMAIN calls[c] = Fields /\ TP!Working(c)
           /\ calls[c].visa.status # "VERIFIED_EFFECTIVE"
           /\ calls[c].pc # "ask" => calls[c].cites # {}
  BY WorkingIsSound DEF ProposalIInv, CallSound, CallPlaces

(* A run that raises ends the call.                                        *)
LEMMA RaisesStep ==
    ASSUME ProposalIInv, NEW c \in Callers, TP!RunRaises(c) PROVE ProposalIInv'
<1>1. PICK x, y : x = calls[c] /\ y = [x EXCEPT !.pc = "release"]
  OBVIOUS
<1>2. TP!Removed(c, y) /\ x.pc = "inside"
  BY <1>1 DEF TP!RunRaises, TP!Removed
<1>3. CallSound(x) /\ DOMAIN x = Fields /\ x.visa.status # "VERIFIED_EFFECTIVE"
  BY <1>1, <1>2, InsideIsSound
<1>4. /\ DOMAIN y = Fields /\ y.pc = "release" /\ y.shown = x.shown /\ y.cites = x.cites /\ y.kept = x.kept
      /\ y.visa = x.visa /\ y.cand = x.cand /\ y.leased = x.leased /\ y.alone = x.alone
  BY <1>1, <1>3 DEF Fields
<1>5. CallSound(y)
  BY <1>3, <1>4, Elsewhere DEF CallPlaces
<1> QED  BY <1>1, <1>2, <1>4, <1>5, RemovedStep

(* The next stage has a worktree of its own.                               *)
LEMMA NextStageStep ==
    ASSUME ProposalIInv, NEW c \in Callers, NEW stage, calls[c].pc = "inside", TP!Removed(c, TP!NextStage(c, stage))
    PROVE  ProposalIInv'
<1>1. PICK x, y : x = calls[c] /\ y = [x EXCEPT !.pc = "open", !.stage = stage]
  OBVIOUS
<1>2. TP!Removed(c, y)
  BY <1>1 DEF TP!NextStage
<1>3. CallSound(x) /\ DOMAIN x = Fields /\ x.visa.status # "VERIFIED_EFFECTIVE" /\ x.cites # {}
  BY <1>1, InsideIsSound
<1>4. /\ DOMAIN y = Fields /\ y.pc = "open" /\ y.shown = x.shown /\ y.cites = x.cites /\ y.kept = x.kept
      /\ y.visa = x.visa /\ y.cand = x.cand /\ y.leased = x.leased /\ y.alone = x.alone
  BY <1>1, <1>3 DEF Fields
<1>5. CallSound(y)
  BY <1>3, <1>4, Elsewhere DEF CallPlaces
<1> QED  BY <1>1, <1>2, <1>4, <1>5, RemovedStep

(* A revision shows deletions of the references it is about.               *)
LEMMA RevisedIsSound ==
    ASSUME NEW c \in Callers, CallSound(calls[c]), calls[c].visa.status # "VERIFIED_EFFECTIVE",
           calls[c].cites # {}, NEW prompt, prompt \subseteq TP!Generation(calls[c].cites)
    PROVE  LET y == TP!Revised(c, prompt) IN
           CallSound(y) /\ y.pc = "ask" /\ y.leased = calls[c].leased /\ y.alone = calls[c].alone
<1>1. PICK x, y : x = calls[c] /\ y = [x EXCEPT !.pc = "ask", !.round = x.round + 1, !.shown = x.shown \cup prompt]
  OBVIOUS
<1>2. DOMAIN x = Fields
  BY <1>1 DEF CallSound
<1>3. /\ DOMAIN y = Fields /\ y.pc = "ask" /\ y.shown = x.shown \cup prompt /\ y.cites = x.cites /\ y.kept = x.kept
      /\ y.visa = x.visa /\ y.cand = x.cand /\ y.leased = x.leased /\ y.alone = x.alone
  BY <1>1, <1>2 DEF Fields
<1>4. CallSound(y)
  BY <1>1, <1>3 DEF CallSound, CallPlaces
<1>5. TP!Revised(c, prompt) = y
  BY <1>1 DEF TP!Revised
<1> QED  BY <1>1, <1>3, <1>4, <1>5

(* A candidate ran on the source.                                          *)
LEMMA RunEndsStep ==
    ASSUME ProposalIInv, NEW c \in Callers, TP!RunEnds(c) PROVE ProposalIInv'
<1>1. calls[c].pc = "inside"
  BY DEF TP!RunEnds, TP!Inside
<1>2. /\ CallSound(calls[c]) /\ DOMAIN calls[c] = Fields
      /\ calls[c].visa.status # "VERIFIED_EFFECTIVE" /\ calls[c].cites # {}
  BY <1>1, InsideIsSound
<1>3. CASE TP!Removed(c, TP!NextStage(c, "baseline"))
  BY <1>1, <1>3, NextStageStep
<1>4. CASE TP!Removed(c, TP!Revised(c, {}))
  BY <1>2, <1>4, RevisedIsSound, RemovedStep
<1>5. CASE TP!Removed(c, [calls[c] EXCEPT !.pc = "record"])
  <2>1. PICK x, y : x = calls[c] /\ y = [x EXCEPT !.pc = "record"]
    OBVIOUS
  <2>2. /\ DOMAIN y = Fields /\ y.pc = "record" /\ y.shown = x.shown /\ y.cites = x.cites /\ y.kept = x.kept
        /\ y.visa = x.visa /\ y.cand = x.cand /\ y.leased = x.leased /\ y.alone = x.alone
    BY <1>2, <2>1 DEF Fields
  <2>3. CallSound(y)
    BY <1>2, <2>1, <2>2, Elsewhere DEF CallPlaces
  <2> QED  BY <1>5, <2>1, <2>2, <2>3, RemovedStep
<1> QED  BY <1>3, <1>4, <1>5 DEF TP!RunEnds

(* A visa for the candidate of a call: what it holds out is of the call's  *)
(* references, and it is effective only if it was earned.                  *)
LEMMA JudgedStep ==
    ASSUME ProposalIInv, NEW c \in Callers, NEW visa, calls[c].pc = "inside", TP!Removed(c, TP!Judged(c, visa)),
           visa.holdout \subseteq TP!Holdout(calls[c].cites),
           visa.status = "VERIFIED_EFFECTIVE" => visa.cand = calls[c].cand /\ Earned(visa)
    PROVE  ProposalIInv'
<1>1. PICK x, y : x = calls[c] /\ y = [x EXCEPT !.pc = "decide", !.visa = visa]
  OBVIOUS
<1>2. TP!Removed(c, y)
  BY <1>1 DEF TP!Judged
<1>3. CallSound(x) /\ DOMAIN x = Fields /\ x.cites # {}
  BY <1>1, InsideIsSound
<1>4. /\ DOMAIN y = Fields /\ y.pc = "decide" /\ y.shown = x.shown /\ y.cites = x.cites /\ y.kept = x.kept
      /\ y.visa = visa /\ y.cand = x.cand /\ y.leased = x.leased /\ y.alone = x.alone
  BY <1>1, <1>3 DEF Fields
<1>5. CallSound(y)
  BY <1>1, <1>3, <1>4 DEF CallSound, CallPlaces
<1> QED  BY <1>1, <1>2, <1>4, <1>5, RemovedStep

(* It ran again, with coverage.                                            *)
LEMMA BaselineEndsStep ==
    ASSUME ProposalIInv, NEW c \in Callers, TP!BaselineEnds(c) PROVE ProposalIInv'
<1>1. calls[c].pc = "inside"
  BY DEF TP!BaselineEnds, TP!Inside
<1>2. ASSUME NEW status \in {"VISA_ERROR", "WITHHELD_SMALL_CASE"},
             TP!Removed(c, TP!Judged(c, TP!VisaOf(c, status)))
      PROVE  ProposalIInv'
  <2>1. PICK visa : visa = TP!VisaOf(c, status)
    OBVIOUS
  <2>2. visa.status # "VERIFIED_EFFECTIVE" /\ visa.holdout = {}
    BY <1>2, <2>1 DEF TP!VisaOf
  <2> QED  BY <1>1, <1>2, <2>1, <2>2, JudgedStep
<1> QED  BY <1>1, <1>2, NextStageStep DEF TP!BaselineEnds

(* It ran on the deletions that may be shown.                              *)
LEMMA GenerationEndsStep ==
    ASSUME ProposalIInv, NEW c \in Callers, TP!GenerationEnds(c) PROVE ProposalIInv'
  BY NextStageStep DEF TP!GenerationEnds, TP!Inside

(* Grade A takes two failures on deleted lines the test executes.          *)
LEMMA GradeA ==
    ASSUME NEW attempts \in TP!Attempts, NEW touching \in BOOLEAN, TP!evaluate_intervention(attempts, touching) = "A"
    PROVE  touching /\ \A j \in 1..2 : attempts[j] = "failed"
  BY DEF TP!evaluate_intervention

(* It ran on those that are held out.                                      *)
LEMMA HoldoutEndsStep ==
    ASSUME ProposalIInv, NEW c \in Callers, TP!HoldoutEnds(c) PROVE ProposalIInv'
<1>1. calls[c].pc = "inside"
  BY DEF TP!HoldoutEnds, TP!Inside
<1> DEFINE visa(status, evidence) ==
               [TP!VisaOf(c, status) EXCEPT !.holdout = TP!Holdout(calls[c].cites), !.evidence = evidence]
<1>2. \A status, evidence :
         /\ visa(status, evidence).status = status /\ visa(status, evidence).cand = calls[c].cand
         /\ visa(status, evidence).holdout = TP!Holdout(calls[c].cites)
         /\ visa(status, evidence).evidence = evidence
  BY DEF TP!VisaOf
<1>3. \/ \E status \in {"WITHHELD_NO_HOLDOUT", "PASSED_NOT_EFFECTIVE"} :
            TP!Removed(c, TP!Judged(c, visa(status, <<>>)))
      \/ /\ TP!Holdout(calls[c].cites) # {}
         /\ \E attempts \in TP!Attempts, touching \in BOOLEAN :
               /\ TP!evaluate_intervention(attempts, touching) = "A"
               /\ TP!Removed(c, TP!Judged(c, visa("VERIFIED_EFFECTIVE", <<attempts, touching>>)))
  BY DEF TP!HoldoutEnds
<1> HIDE DEF visa
<1>4. CASE \E status \in {"WITHHELD_NO_HOLDOUT", "PASSED_NOT_EFFECTIVE"} :
              TP!Removed(c, TP!Judged(c, visa(status, <<>>)))
  <2>1. PICK status \in {"WITHHELD_NO_HOLDOUT", "PASSED_NOT_EFFECTIVE"} :
           TP!Removed(c, TP!Judged(c, visa(status, <<>>)))
    BY <1>4
  <2>2. PICK v : v = visa(status, <<>>)
    OBVIOUS
  <2>3. v.status # "VERIFIED_EFFECTIVE" /\ v.holdout = TP!Holdout(calls[c].cites)
    BY <1>2, <2>2
  <2> QED  BY <1>1, <2>1, <2>2, <2>3, JudgedStep
<1>5. CASE /\ TP!Holdout(calls[c].cites) # {}
           /\ \E attempts \in TP!Attempts, touching \in BOOLEAN :
                 /\ TP!evaluate_intervention(attempts, touching) = "A"
                 /\ TP!Removed(c, TP!Judged(c, visa("VERIFIED_EFFECTIVE", <<attempts, touching>>)))
  <2>1. PICK attempts \in TP!Attempts, touching \in BOOLEAN :
           /\ TP!evaluate_intervention(attempts, touching) = "A"
           /\ TP!Removed(c, TP!Judged(c, visa("VERIFIED_EFFECTIVE", <<attempts, touching>>)))
    BY <1>5
  <2>2. PICK v : v = visa("VERIFIED_EFFECTIVE", <<attempts, touching>>)
    OBVIOUS
  <2>3. /\ v.holdout = TP!Holdout(calls[c].cites) /\ v.evidence = <<attempts, touching>> /\ v.cand = calls[c].cand
    BY <1>2, <2>2
  <2>4. touching /\ \A j \in 1..2 : attempts[j] = "failed"
    BY <2>1, GradeA
  <2>5. v.evidence[1] = attempts /\ v.evidence[2] = touching
    BY <2>3
  <2>6. Earned(v)
    BY <1>5, <2>3, <2>4, <2>5 DEF Earned
  <2> QED  BY <1>1, <2>1, <2>2, <2>3, <2>6, JudgedStep
<1> QED  BY <1>3, <1>4, <1>5

(* The model answers: with other references nothing is kept.               *)
LEMMA AskStep ==
    ASSUME ProposalIInv, NEW c \in Callers, TP!Ask(c) PROVE ProposalIInv'
<1>1. /\ calls[c].pc = "ask" /\ UNCHANGED <<checkout, upsets, lease, rival, proposal, answers, stays>>
  BY DEF TP!Ask, TP!world
<1>2. /\ CallSound(calls[c]) /\ DOMAIN calls[c] = Fields /\ TP!Working(c)
      /\ calls[c].visa.status # "VERIFIED_EFFECTIVE"
  BY <1>1, InsideIsSound
<1>3. RecordsSound'
  BY <1>1 DEF ProposalIInv, RecordsSound
<1>4. CASE TP!Leaves(c)
  BY <1>1, <1>2, <1>3, <1>4, LeavesStep DEF ProposalIInv
<1>5. CASE ~TP!Leaves(c)
  <2>1. PICK x : x = calls[c]
    OBVIOUS
  <2>2. PICK cites \in TP!Cites :
           TP!Set(c, [x EXCEPT !.pc = "open", !.stage = "run", !.cites = cites, !.cand = x.cand + 1,
                               !.kept = x.kept /\ (calls[c].cites \in {{}, cites})])
    BY <1>5, <2>1 DEF TP!Ask
  <2>3. PICK y : y = [x EXCEPT !.pc = "open", !.stage = "run", !.cites = cites, !.cand = x.cand + 1,
                               !.kept = x.kept /\ (calls[c].cites \in {{}, cites})]
    OBVIOUS
  <2>4. /\ DOMAIN y = Fields /\ y.pc = "open" /\ y.shown = x.shown /\ y.cites = cites
        /\ y.kept = (x.kept /\ (calls[c].cites \in {{}, cites}))
        /\ y.visa = x.visa /\ y.leased = x.leased /\ y.alone = x.alone
    BY <1>2, <2>1, <2>3 DEF Fields
  <2>5. CallSound(y)
    <3>1. cites # {}
      BY <2>2 DEF TP!Cites
    <3>2. y.kept => x.kept /\ (x.cites = {} \/ x.cites = cites)
      BY <2>1, <2>4
    <3>3. y.kept => /\ y.shown \subseteq TP!Generation(y.cites)
                    /\ y.visa.status # "none" => y.visa.holdout \subseteq TP!Holdout(y.cites)
      BY <1>2, <2>1, <2>4, <3>2 DEF CallSound
    <3> QED  BY <1>2, <2>1, <2>4, <3>1, <3>3 DEF CallSound, CallPlaces
  <2>6. calls' = [calls EXCEPT ![c] = y]
    BY <2>2, <2>3 DEF TP!Set
  <2>7. CallsSound' /\ TreesSound' /\ LeaseSound'
    BY <1>1, <1>2, <2>1, <2>4, <2>5, <2>6, CallStep
  <2> QED  BY <1>3, <2>7 DEF ProposalIInv
<1> QED  BY <1>4, <1>5

(* A worktree is made of the checkout as it is, or cannot be.              *)
LEMMA WorktreeStep ==
    ASSUME ProposalIInv, NEW c \in Callers, TP!isolated_worktree(c) PROVE ProposalIInv'
<1>1. /\ calls[c].pc = "open" /\ UNCHANGED <<checkout, upsets, lease, rival, proposal, answers, stays>>
  BY DEF TP!isolated_worktree, TP!world
<1>2. /\ CallSound(calls[c]) /\ DOMAIN calls[c] = Fields /\ TP!Working(c) /\ calls[c].cites # {}
      /\ calls[c].visa.status # "VERIFIED_EFFECTIVE"
  BY <1>1, InsideIsSound
<1>3. RecordsSound'
  BY <1>1 DEF ProposalIInv, RecordsSound
<1>4. CASE TP!Leaves(c)
  BY <1>1, <1>2, <1>3, <1>4, LeavesStep DEF ProposalIInv
<1>5. CASE ~TP!Leaves(c)
  <2>1. PICK x, y : x = calls[c] /\ y = [x EXCEPT !.pc = "inside", !.tree = checkout.status]
    OBVIOUS
  <2>2. calls' = [calls EXCEPT ![c] = y]
    BY <1>5, <2>1 DEF TP!isolated_worktree, TP!Set
  <2>3. /\ DOMAIN y = Fields /\ y.pc = "inside" /\ y.shown = x.shown /\ y.cites = x.cites /\ y.kept = x.kept
        /\ y.visa = x.visa /\ y.cand = x.cand /\ y.leased = x.leased /\ y.alone = x.alone
        /\ y.tree = checkout.status
    BY <1>2, <2>1 DEF Fields
  <2>4. CallSound(y)
    BY <1>2, <2>1, <2>3, Elsewhere DEF CallPlaces
  <2>5. CallsSound' /\ TreesSound' /\ LeaseSound'
    BY <1>1, <1>2, <2>1, <2>2, <2>3, <2>4, CallStep
  <2> QED  BY <1>3, <2>5 DEF ProposalIInv
<1> QED  BY <1>4, <1>5

(* A worktree stays only when the user touched the checkout.               *)
LEMMA TouchedStep ==
    ASSUME ProposalIInv, NEW c \in Callers, TP!TouchedWhileInside(c) PROVE ProposalIInv'
<1>1. /\ calls[c].pc = "inside" /\ checkout.status # calls[c].tree /\ TP!Leaves(c)
      /\ UNCHANGED <<checkout, upsets, lease, rival, proposal, answers>>
  BY DEF TP!TouchedWhileInside, TP!Untouched, TP!world
<1>2. TP!Working(c)
  BY <1>1, InsideIsSound
<1>3. upsets # 0
  BY <1>1 DEF ProposalIInv, TreesSound
<1>4. RecordsSound'
  BY <1>1 DEF ProposalIInv, RecordsSound
<1> QED  BY <1>1, <1>2, <1>3, <1>4, LeavesStep DEF ProposalIInv

(* A visa that was earned is not asked about again.                        *)
LEMMA DecideStep ==
    ASSUME ProposalIInv, NEW c \in Callers, TP!Decide(c) PROVE ProposalIInv'
<1>1. /\ calls[c].pc = "decide" /\ UNCHANGED <<checkout, upsets, lease, rival, proposal, answers, stays>>
  BY DEF TP!Decide, TP!world
<1>2. TP!Working(c)
  BY <1>1 DEF TP!Working
<1>3. CallSound(calls[c]) /\ DOMAIN calls[c] = Fields /\ calls[c].cites # {}
  BY <1>1, <1>2, WorkingIsSound DEF ProposalIInv, CallSound
<1>4. PICK y : /\ calls' = [calls EXCEPT ![c] = y] /\ CallSound(y) /\ y.pc # "inside"
               /\ y.leased = calls[c].leased /\ y.alone = calls[c].alone
  <2>1. CASE TP!Set(c, TP!Passed(c))
    <3>1. PICK status \in {"PASSED", "PASSED_WITH_REVISION"} :
             status = (IF calls[c].round = 1 THEN "PASSED" ELSE "PASSED_WITH_REVISION")
      OBVIOUS
    <3>2. PICK x, y : x = calls[c] /\ y = [x EXCEPT !.pc = "record", !.status = status]
      OBVIOUS
    <3>3. /\ DOMAIN y = Fields /\ y.pc = "record" /\ y.shown = x.shown /\ y.cites = x.cites /\ y.kept = x.kept
          /\ y.visa = x.visa /\ y.cand = x.cand /\ y.leased = x.leased /\ y.alone = x.alone
          /\ y.status = status
      BY <1>3, <3>2 DEF Fields
    <3>4. CallSound(y)
      BY <1>3, <3>2, <3>3, Elsewhere DEF CallPlaces
    <3>5. calls' = [calls EXCEPT ![c] = y]
      BY <2>1, <3>1, <3>2 DEF TP!Set, TP!Passed
    <3> QED  BY <3>2, <3>3, <3>4, <3>5
  <2>2. CASE /\ calls[c].visa.status = "PASSED_NOT_EFFECTIVE"
             /\ TP!Set(c, TP!Revised(c, TP!RevisionPrompt(c)))
    <3>1. PICK prompt : prompt = TP!RevisionPrompt(c)
      OBVIOUS
    <3>4. prompt \subseteq TP!Generation(calls[c].cites)
      <4>1. prompt = {} \/ prompt = TP!Generation(calls[c].cites)
        BY <3>1 DEF TP!RevisionPrompt
      <4> QED  BY <4>1
    <3>2. PICK y : y = TP!Revised(c, prompt)
      OBVIOUS
    <3>3. CallSound(y) /\ y.pc = "ask" /\ y.leased = calls[c].leased /\ y.alone = calls[c].alone
      BY <1>3, <2>2, <3>2, <3>4, RevisedIsSound
    <3> QED  BY <2>2, <3>1, <3>2, <3>3 DEF TP!Set
  <2> QED  BY <2>1, <2>2 DEF TP!Decide
<1>5. CallsSound' /\ TreesSound' /\ LeaseSound'
  BY <1>1, <1>2, <1>4, CallStep
<1>6. RecordsSound'
  BY <1>1 DEF ProposalIInv, RecordsSound
<1> QED  BY <1>5, <1>6 DEF ProposalIInv

(* The record of a call says no more than its visa.                        *)
LEMMA RecordOfIsSound ==
    ASSUME ProposalIInv, NEW c \in Callers, calls[c].pc \in {"record", "remember"}
    PROVE  RecordSound(TP!RecordOf(c)) /\ CallSound(calls[c]) /\ DOMAIN calls[c] = Fields /\ TP!Working(c)
<1>1. TP!Working(c)
  BY DEF TP!Working
<1>2. CallSound(calls[c]) /\ DOMAIN calls[c] = Fields
  BY <1>1, WorkingIsSound DEF ProposalIInv, CallSound
<1>3. PICK r : r = TP!RecordOf(c)
  OBVIOUS
<1>4. PICK visa : visa = calls[c].visa
  OBVIOUS
<1>5. /\ r.status = (IF calls[c].status = "" THEN "NEEDS_HUMAN" ELSE calls[c].status)
      /\ r.cand = <<c, calls[c].cand>> /\ r.visa = <<c, visa>>
      /\ r.effective = (visa.status = "VERIFIED_EFFECTIVE")
  BY <1>3, <1>4 DEF TP!RecordOf
<1>6. r.visa[1] = c /\ r.visa[2] = visa
  <2>1. r.visa = <<c, visa>>
    BY <1>5
  <2>2. <<c, visa>>[1] = c /\ <<c, visa>>[2] = visa
    OBVIOUS
  <2> QED  BY <2>1, <2>2
<1>7. visa.status = "VERIFIED_EFFECTIVE" =>
         visa.cand = calls[c].cand /\ Earned(visa) /\ calls[c].status \notin {"", "NEEDS_HUMAN"}
  BY <1>2, <1>4 DEF CallSound
<1>8. RecordSound(r)
  BY <1>5, <1>6, <1>7 DEF RecordSound
<1> QED  BY <1>1, <1>2, <1>3, <1>8

(* The record of the review is replaced.                                   *)
LEMMA RecordStep ==
    ASSUME ProposalIInv, NEW c \in Callers, TP!Record(c) PROVE ProposalIInv'
<1>1. /\ calls[c].pc = "record" /\ proposal' = TP!RecordOf(c)
      /\ UNCHANGED <<checkout, upsets, lease, rival, answers, stays>>
  BY DEF TP!Record, TP!world
<1>2. RecordSound(TP!RecordOf(c)) /\ CallSound(calls[c]) /\ DOMAIN calls[c] = Fields /\ TP!Working(c)
  BY <1>1, RecordOfIsSound
<1>3. PICK x, y : x = calls[c] /\ y = [x EXCEPT !.pc = "remember"]
  OBVIOUS
<1>4. calls' = [calls EXCEPT ![c] = y]
  BY <1>3 DEF TP!Record, TP!Set
<1>5. /\ DOMAIN y = Fields /\ y.pc = "remember" /\ y.shown = x.shown /\ y.cites = x.cites /\ y.kept = x.kept
      /\ y.visa = x.visa /\ y.cand = x.cand /\ y.leased = x.leased /\ y.alone = x.alone
      /\ y.status = x.status
  BY <1>2, <1>3 DEF Fields
<1>6. CallSound(y)
  <2>1. /\ x.visa.status = "VERIFIED_EFFECTIVE" => x.status \notin {"", "NEEDS_HUMAN"}
        /\ x.cites # {}
    BY <1>1, <1>2, <1>3 DEF CallSound
  <2> QED  BY <1>2, <1>3, <1>5, <2>1, Elsewhere DEF CallPlaces
<1>7. CallsSound' /\ TreesSound' /\ LeaseSound'
  BY <1>1, <1>2, <1>3, <1>4, <1>5, <1>6, CallStep
<1>8. RecordsSound'
  BY <1>1, <1>2 DEF ProposalIInv, RecordsSound
<1> QED  BY <1>7, <1>8 DEF ProposalIInv

(* The answer is remembered under its key.                                 *)
LEMMA RememberStep ==
    ASSUME ProposalIInv, NEW c \in Callers, TP!Remember(c) PROVE ProposalIInv'
<1>1. /\ calls[c].pc = "remember" /\ TP!Leaves(c)
      /\ UNCHANGED <<checkout, upsets, lease, rival, proposal, stays>>
  BY DEF TP!Remember, TP!world
<1>2. RecordSound(TP!RecordOf(c)) /\ TP!Working(c)
  BY <1>1, RecordOfIsSound
<1>3. PICK r : r = TP!RecordOf(c)
  OBVIOUS
<1>4. answers' = [k \in DOMAIN answers \cup {KeyOf[c]} |-> IF k = KeyOf[c] THEN r ELSE answers[k]]
  BY <1>3 DEF TP!Remember
<1>5. \A k \in DOMAIN answers' : answers'[k] = r \/ (k \in DOMAIN answers /\ answers'[k] = answers[k])
  BY <1>4
<1>6. RecordsSound'
  BY <1>1, <1>2, <1>3, <1>5 DEF ProposalIInv, RecordsSound
<1> QED  BY <1>1, <1>2, <1>6, LeavesStep DEF ProposalIInv

(* What the user does to the checkout leaves the calls alone.              *)
LEMMA UserStep ==
    ASSUME ProposalIInv, UNCHANGED <<lease, rival, calls, proposal, answers, stays>>,
           upsets' = upsets + 1 \/ UNCHANGED <<upsets, checkout>>
    PROVE  ProposalIInv'
<1>1. CallsSound' /\ LeaseSound' /\ RecordsSound'
  BY DEF ProposalIInv, CallsSound, LeaseSound, RecordsSound, TP!Working
<1>2. TreesSound'
  BY DEF ProposalIInv, TreesSound
<1> QED  BY <1>1, <1>2 DEF ProposalIInv

(* The lease record passes to another review's operation, or from it.      *)
LEMMA OtherStep == ASSUME ProposalIInv, TP!OtherBegins \/ TP!OtherEnds PROVE ProposalIInv'
<1>1. UNCHANGED <<checkout, upsets, calls, proposal, answers, stays>>
  BY DEF TP!OtherBegins, TP!OtherEnds, TP!world
<1>2. CallsSound' /\ TreesSound' /\ RecordsSound'
  BY <1>1 DEF ProposalIInv, CallsSound, TreesSound, RecordsSound
<1>3. LeaseSound'
  BY <1>1 DEF ProposalIInv, LeaseSound, TP!Working, TP!OtherBegins, TP!OtherEnds
<1> QED  BY <1>2, <1>3 DEF ProposalIInv

(* A call that does not work waits, or is over.                            *)
LEMMA WaitingStep ==
    ASSUME ProposalIInv, NEW c \in Callers, ~TP!Working(c), NEW new, Waiting(new),
           calls' = [calls EXCEPT ![c] = new],
           UNCHANGED <<checkout, upsets, lease, rival, proposal, answers, stays>>
    PROVE  ProposalIInv'
<1>1. /\ DOMAIN calls' = Callers /\ calls'[c] = new
      /\ \A d \in Callers : d # c => calls'[d] = calls[d]
  BY DEF ProposalIInv, CallsSound
<1>2. new.pc \in {"idle", "acquire"}
  BY DEF Waiting, TP!Idle
<1>3. CallsSound'
  <2>1. \A d \in Callers : Waiting(calls'[d]) \/ CallSound(calls'[d])
    BY <1>1 DEF ProposalIInv, CallsSound
  <2> QED  BY <1>1, <2>1 DEF CallsSound, Waiting, CallSound
<1>4. TreesSound'
  BY <1>1, <1>2 DEF ProposalIInv, TreesSound
<1>5. \A d \in Callers : TP!Working(d)' => TP!Working(d) /\ calls'[d] = calls[d]
  BY <1>1, <1>2 DEF TP!Working
<1>6. LeaseSound'
  BY <1>5 DEF ProposalIInv, LeaseSound
<1>7. RecordsSound'
  BY DEF ProposalIInv, RecordsSound
<1> QED  BY <1>3, <1>4, <1>6, <1>7 DEF ProposalIInv

(* A call begins.                                                          *)
LEMMA BeginStep ==
    ASSUME ProposalIInv, NEW c \in Callers, TP!Begin(c) PROVE ProposalIInv'
<1>1. PICK new : new = [pc |-> "acquire"]
  OBVIOUS
<1>2. /\ calls[c] = TP!Idle /\ calls' = [calls EXCEPT ![c] = new]
      /\ UNCHANGED <<checkout, upsets, lease, rival, proposal, answers, stays>>
  BY <1>1 DEF TP!Begin, TP!Set, TP!world
<1>3. ~TP!Working(c)
  BY <1>2 DEF TP!Working, TP!Idle
<1> QED  BY <1>1, <1>2, <1>3, WaitingStep DEF Waiting

(* A call that enters is not alone if another works, and then the other is *)
(* not alone any more.                                                     *)
LEMMA AcquireStep ==
    ASSUME ProposalIInv, NEW c \in Callers, TP!Acquire(c) PROVE ProposalIInv'
<1>1. /\ calls[c].pc = "acquire" /\ UNCHANGED <<checkout, upsets, rival, proposal, answers, stays>>
  BY DEF TP!Acquire, TP!world
<1>2. ~TP!Working(c)
  BY <1>1 DEF TP!Working
<1>3. CASE lease = "other"
  <2>1. calls' = [calls EXCEPT ![c] = TP!Idle] /\ UNCHANGED lease
    BY <1>3 DEF TP!Acquire, TP!Set
  <2> QED  BY <1>1, <1>2, <2>1, WaitingStep DEF Waiting
<1>4. CASE lease # "other"
  <2>1. PICK alone \in BOOLEAN : alone <=> \A d \in Callers \ {c} : ~TP!Working(d)
    OBVIOUS
  <2>2. PICK fresh : fresh = TP!Fresh(alone)
    OBVIOUS
  <2>3. /\ lease' = "review"
        /\ calls' = [d \in Callers |-> IF d = c THEN fresh
                        ELSE IF TP!Working(d) THEN [calls[d] EXCEPT !.alone = FALSE] ELSE calls[d]]
    <3>1. TP!Entered(c, alone)
      <4>1. alone = (\A d \in Callers \ {c} : ~TP!Working(d))
        BY <2>1
      <4> QED  BY <1>4, <4>1 DEF TP!Acquire
    <3> QED  BY <1>4, <2>2, <3>1 DEF TP!Acquire, TP!Entered
  <2>4. CallSound(fresh) /\ fresh.pc = "ask" /\ fresh.alone = alone /\ fresh.leased
    <3>1. DOMAIN fresh = Fields
      BY <2>2 DEF TP!Fresh, Fields
    <3>2. /\ fresh.pc = "ask" /\ fresh.alone = alone /\ fresh.leased = TRUE /\ fresh.cites = {} /\ fresh.shown = {}
          /\ fresh.visa = TP!NoVisa
      BY <2>2 DEF TP!Fresh
    <3>3. TP!NoVisa.status = "none"
      BY DEF TP!NoVisa
    <3> QED  BY <3>1, <3>2, <3>3 DEF CallSound, CallPlaces
  <2>5. ASSUME NEW d \in Callers, d # c, TP!Working(d)
        PROVE  CallSound(calls'[d]) /\ calls'[d].pc = calls[d].pc /\ calls'[d].tree = calls[d].tree /\ ~calls'[d].alone
    <3>1. PICK x, y : x = calls[d] /\ y = [x EXCEPT !.alone = FALSE] /\ y = calls'[d]
      BY <2>3, <2>5
    <3>2. CallSound(x) /\ DOMAIN x = Fields
      BY <2>5, <3>1, WorkingIsSound DEF ProposalIInv, CallSound
    <3>3. /\ DOMAIN y = Fields /\ y.pc = x.pc /\ y.shown = x.shown /\ y.cites = x.cites /\ y.kept = x.kept
          /\ y.visa = x.visa /\ y.cand = x.cand /\ y.alone = FALSE /\ y.tree = x.tree /\ y.status = x.status
      BY <3>1, <3>2 DEF Fields
    <3>4. CallSound(y)
      BY <3>2, <3>3 DEF CallSound
    <3> QED  BY <3>1, <3>3, <3>4
  <2>6. calls'[c] = fresh /\ \A d \in Callers : d # c /\ ~TP!Working(d) => calls'[d] = calls[d]
    BY <2>3
  <2>7. CallsSound'
    <3>1. \A d \in Callers : Waiting(calls'[d]) \/ CallSound(calls'[d])
      BY <2>4, <2>5, <2>6, WorkingIsSound DEF ProposalIInv
    <3>2. DOMAIN calls' = Callers
      BY <2>3
    <3> QED  BY <3>1, <3>2 DEF CallsSound, Waiting, CallSound
  <2>8. TreesSound'
    <3>1. \A d \in Callers : calls'[d].pc = "inside" => calls[d].pc = "inside" /\ calls'[d].tree = calls[d].tree
      BY <2>4, <2>5, <2>6
    <3> QED  BY <1>1, <3>1 DEF ProposalIInv, TreesSound
  <2>9. LeaseSound'
    <3>1. ~rival'
      BY <1>1, <1>4 DEF ProposalIInv, LeaseSound
    <3>2. ASSUME NEW d \in Callers, TP!Working(d)', calls'[d].alone
          PROVE  calls'[d].leased /\ \A e \in Callers : TP!Working(e)' => e = d
      <4>1. d = c
        BY <2>5, <2>6, <3>2 DEF TP!Working
      <4>2. \A e \in Callers : e # c => ~TP!Working(e)
        BY <2>1, <2>4, <2>6, <3>2, <4>1
      <4> QED  BY <2>4, <2>6, <4>1, <4>2 DEF TP!Working
    <3> QED  BY <2>3, <3>1, <3>2 DEF LeaseSound
  <2>10. RecordsSound'
    BY <1>1 DEF ProposalIInv, RecordsSound
  <2> QED  BY <2>7, <2>8, <2>9, <2>10 DEF ProposalIInv
<1> QED  BY <1>3, <1>4

(* A call gives the lease back, and who ran under it runs without.         *)
LEMMA ReleaseStep ==
    ASSUME ProposalIInv, NEW c \in Callers, TP!Release(c) PROVE ProposalIInv'
<1>1. /\ calls[c].pc = "release" /\ UNCHANGED <<checkout, upsets, rival, proposal, answers, stays>>
      /\ lease' = IF calls[c].leased THEN "none" ELSE lease
      /\ calls' = [d \in Callers |-> IF d = c THEN TP!Idle
                      ELSE IF TP!Working(d) /\ calls[c].leased THEN [calls[d] EXCEPT !.leased = FALSE] ELSE calls[d]]
  BY DEF TP!Release, TP!world
<1>2. TP!Working(c)
  BY <1>1 DEF TP!Working
<1>3. ASSUME NEW d \in Callers, d # c, TP!Working(d), calls[c].leased
      PROVE  /\ CallSound(calls'[d]) /\ calls'[d].pc = calls[d].pc /\ calls'[d].tree = calls[d].tree
             /\ ~calls'[d].leased /\ calls'[d].alone = calls[d].alone
  <2>1. PICK x, y : x = calls[d] /\ y = [x EXCEPT !.leased = FALSE] /\ y = calls'[d]
    BY <1>1, <1>3
  <2>2. CallSound(x) /\ DOMAIN x = Fields
    BY <1>3, <2>1, WorkingIsSound DEF ProposalIInv, CallSound
  <2>3. /\ DOMAIN y = Fields /\ y.pc = x.pc /\ y.shown = x.shown /\ y.cites = x.cites /\ y.kept = x.kept
        /\ y.visa = x.visa /\ y.cand = x.cand /\ y.leased = FALSE /\ y.alone = x.alone /\ y.tree = x.tree
        /\ y.status = x.status
    BY <2>1, <2>2 DEF Fields
  <2>4. CallSound(y)
    BY <2>2, <2>3 DEF CallSound
  <2> QED  BY <2>1, <2>3, <2>4
<1>4. /\ DOMAIN calls' = Callers /\ calls'[c] = TP!Idle
      /\ \A d \in Callers : d # c /\ ~(TP!Working(d) /\ calls[c].leased) => calls'[d] = calls[d]
  BY <1>1
<1>5. TP!Idle.pc = "idle" /\ Waiting(TP!Idle)
  BY DEF TP!Idle, Waiting
<1>6. CallsSound'
  <2>1. \A d \in Callers : Waiting(calls'[d]) \/ CallSound(calls'[d])
    BY <1>3, <1>4, <1>5 DEF ProposalIInv, CallsSound
  <2> QED  BY <1>4, <2>1 DEF CallsSound, Waiting, CallSound
<1>7. TreesSound'
  <2>1. \A d \in Callers : calls'[d].pc = "inside" => calls[d].pc = "inside" /\ calls'[d].tree = calls[d].tree
    BY <1>3, <1>4, <1>5
  <2> QED  BY <1>1, <2>1 DEF ProposalIInv, TreesSound
<1>8. LeaseSound'
  <2>1. \A d \in Callers : TP!Working(d)' => TP!Working(d) /\ d # c
    BY <1>3, <1>4, <1>5 DEF TP!Working
  <2>2. \A d \in Callers : TP!Working(d) /\ d # c => ~calls[d].alone
    BY <1>2 DEF ProposalIInv, LeaseSound
  <2>3. rival' => lease' = "other"
    BY <1>1, <1>2 DEF ProposalIInv, LeaseSound
  <2>4. \A d \in Callers : TP!Working(d)' => ~calls'[d].alone
    BY <1>3, <1>4, <2>1, <2>2
  <2>5. \A d \in Callers : TP!Working(d)' => (calls'[d].leased => lease' = "review")
    <3>1. CASE calls[c].leased
      BY <1>3, <2>1, <3>1
    <3>2. CASE ~calls[c].leased
      BY <1>1, <1>4, <2>1, <3>2 DEF ProposalIInv, LeaseSound
    <3> QED  BY <3>1, <3>2
  <2> QED  BY <2>3, <2>4, <2>5 DEF LeaseSound
<1>9. RecordsSound'
  BY <1>1 DEF ProposalIInv, RecordsSound
<1> QED  BY <1>6, <1>7, <1>8, <1>9 DEF ProposalIInv

(* Nobody calls at first.                                                  *)
LEMMA ProposalBegins == TP!Init => ProposalIInv
<1> SUFFICES ASSUME TP!Init PROVE ProposalIInv
  OBVIOUS
<1>1. /\ calls = [c \in Callers |-> TP!Idle] /\ upsets = 0 /\ ~rival /\ ~stays
      /\ proposal = TP!NoRecord /\ answers = [k \in {} |-> TP!NoRecord]
  BY DEF TP!Init
<1>2. TP!Idle.pc = "idle" /\ TP!NoRecord.status = "none"
  BY DEF TP!Idle, TP!NoRecord
<1>3. CallsSound
  BY <1>1 DEF CallsSound, Waiting
<1>4. TreesSound
  BY <1>1, <1>2 DEF TreesSound
<1>5. LeaseSound
  BY <1>1, <1>2 DEF LeaseSound, TP!Working
<1>6. RecordsSound
  BY <1>1, <1>2 DEF RecordsSound, RecordSound
<1> QED  BY <1>3, <1>4, <1>5, <1>6 DEF ProposalIInv

(* What the calls, their records, their worktrees and the lease agree on.  *)
THEOREM ProposalIInvHolds == TP!Spec => []ProposalIInv
<1>1. ASSUME ProposalIInv, [TP!Next]_TP!vars PROVE ProposalIInv'
  <2>1. CASE UNCHANGED TP!vars
    <3>1. UNCHANGED <<checkout, upsets, lease, rival, calls, proposal, answers, stays>>
      BY <2>1 DEF TP!vars
    <3> QED  BY <1>1, <3>1, UserStep
  <2>2. CASE (\E shows, untracked \in BOOLEAN : TP!Edit(shows, untracked)) \/ TP!Commit
    <3>1. UNCHANGED <<lease, rival, calls, proposal, answers, stays>> /\ upsets' = upsets + 1
      BY <2>2 DEF TP!Edit, TP!Commit
    <3> QED  BY <1>1, <3>1, UserStep
  <2>3. CASE TP!OtherBegins \/ TP!OtherEnds
    BY <1>1, <2>3, OtherStep
  <2>4. ASSUME NEW c \in Callers,
               \/ TP!Begin(c) \/ TP!Acquire(c) \/ TP!Ask(c) \/ TP!isolated_worktree(c)
               \/ TP!TouchedWhileInside(c) \/ TP!RunRaises(c) \/ TP!RunEnds(c) \/ TP!BaselineEnds(c)
               \/ TP!GenerationEnds(c) \/ TP!HoldoutEnds(c) \/ TP!Decide(c) \/ TP!Record(c) \/ TP!Remember(c)
               \/ TP!Release(c)
        PROVE  ProposalIInv'
    BY <1>1, <2>4, BeginStep, AcquireStep, AskStep, WorktreeStep, TouchedStep, RaisesStep, RunEndsStep,
       BaselineEndsStep, GenerationEndsStep, HoldoutEndsStep, DecideStep, RecordStep, RememberStep, ReleaseStep
  <2> QED  BY <1>1, <2>1, <2>2, <2>3, <2>4 DEF TP!Next
<1> QED  BY <1>1, ProposalBegins, PTL DEF TP!Spec

(* A record that calls its test effective holds the candidate whose visa   *)
(* it is, and that failed in both runs of a deletion the model never saw   *)
(* while its references were kept; for any callers, files and rounds.      *)
THEOREM VisasAreSound == TP!Spec => []VisaSound
<1>1. ASSUME ProposalIInv PROVE VisaSound
  <2>1. TP!EffectiveIsEarned
    BY <1>1 DEF ProposalIInv, RecordsSound, RecordSound, Earned, TP!EffectiveIsEarned, TP!Kept
  <2>2. ASSUME NEW c \in Callers, TP!Working(c), calls[c].kept, calls[c].visa.status # "none"
        PROVE  calls[c].visa.holdout \cap calls[c].shown = {}
    <3>1. /\ calls[c].shown \subseteq TP!Generation(calls[c].cites)
          /\ calls[c].visa.holdout \subseteq TP!Holdout(calls[c].cites)
      BY <1>1, <2>2, WorkingIsSound DEF ProposalIInv, CallSound
    <3> QED  BY <3>1 DEF TP!Holdout
  <2> QED  BY <2>1, <2>2 DEF VisaSound, TP!VisaSound, TP!HoldoutUnseenIfCitesKept
<1> QED  BY <1>1, ProposalIInvHolds, PTL

(* A worktree stays only when the user touched the checkout, and while a   *)
(* call has its review's lease alone no other review's operation runs.     *)
THEOREM RepositoryIsKept == TP!Spec => []RepositoryKept
<1>1. ASSUME ProposalIInv PROVE RepositoryKept
  <2>1. TP!WorktreesRemoved
    BY <1>1 DEF ProposalIInv, TreesSound, TP!WorktreesRemoved
  <2>2. TP!RepositoryAlone
    BY <1>1 DEF ProposalIInv, LeaseSound, TP!RepositoryAlone
  <2> QED  BY <2>1, <2>2 DEF RepositoryKept, TP!RepositoryKept
<1> QED  BY <1>1, ProposalIInvHolds, PTL

-----------------------------------------------------------------------------
(* Delta debugging.  Every search ends with a round in which no complement *)
(* of a single atom failed (or with one atom), and while the tests answer  *)
(* alike, what was answered once is what the certificate will be told.     *)

(* The state as far as the steps need it.                                  *)
DDTypeOK ==
    /\ oracle = [s \in DOMAIN oracle |-> oracle[s]]
    /\ {} \in DOMAIN oracle /\ oracle[{}] = "PASS"
    /\ \A s \in DOMAIN oracle : oracle[s] \in Answers
    /\ current \subseteq Frozen /\ current # {}
    /\ n \in Nat \ {0} /\ checks \in Seq(Answers)
    /\ pc \in {"probe", "initial", "subset", "complement"} => checks = <<>>
    /\ pc = "final" => checks = <<>>
    /\ pc \in {"probe", "initial"} => index = 1
    /\ pc \in {"subset", "complement"} => index \in 1..Chunks(current, n)
    /\ pc = "remove" => index \in 1..Cardinality(current) /\ Len(checks) = index - 1
    /\ pc = "done" => Len(checks) = Cardinality(current)
    /\ pc \in {"remove", "done"} => final \in Answers

(* A set that was tried and did not bring the regression back.             *)
Harmless(s) == s \in DOMAIN oracle /\ oracle[s] # "FAIL"

(* What the search has shown while the tests answer alike.                 *)
Shown ==
    /\ pc \in {"subset", "complement", "final", "remove", "done"} =>
           current \in DOMAIN oracle /\ oracle[current] = "FAIL"
    /\ pc = "complement" =>
           \A i \in 1..(index - 1) : Harmless(Complement(current, Partition(current, n)[i]))
    /\ pc \in {"final", "remove", "done"} => \A a \in current : Harmless(current \ {a})
    /\ pc \in {"remove", "done"} =>
           /\ final = "FAIL"
           /\ \A i \in 1..Len(checks) :
                 /\ current \ {Atom(current, i)} \in DOMAIN oracle
                 /\ checks[i] = oracle[current \ {Atom(current, i)}]

DDIInv == DDTypeOK /\ (Steady => Shown)

-----------------------------------------------------------------------------
(* The places of the atoms of a set are the numbers from 1 to its size.    *)
LEMMA PartsAreFinite ==
    ASSUME NEW s \in SUBSET Frozen
    PROVE  IsFiniteSet(s) /\ Cardinality(s) \in Nat /\ (s # {} => Cardinality(s) > 0)
<1>1. IsFiniteSet(1..Atoms)
  BY FS_Interval, AtomsAssumption
<1>2. IsFiniteSet(s)
  BY <1>1, FS_Subset DEF Frozen
<1> QED  BY <1>2, FS_CardinalityType, FS_EmptySet

LEMMA PlacesInOrder ==
    ASSUME NEW s \in SUBSET Frozen
    PROVE  /\ \A a \in s : Place(s, a) \in 1..Cardinality(s)
           /\ \A a \in s : \A b \in s : Place(s, a) = Place(s, b) => a = b
<1> DEFINE Upto(a) == {b \in s : b <= a}
<1>1. /\ IsFiniteSet(s) /\ Cardinality(s) \in Nat
  BY PartsAreFinite
<1>2. \A a \in s : a \in Nat
  BY AtomsAssumption DEF Frozen
<1>3. \A a \in s : /\ IsFiniteSet(Upto(a)) /\ Cardinality(Upto(a)) \in Nat
                   /\ Cardinality(Upto(a)) <= Cardinality(s)
  <2> TAKE a \in s
  <2>1. Upto(a) \in SUBSET s
    OBVIOUS
  <2> HIDE DEF Upto
  <2> QED  BY <1>1, <2>1, FS_Subset, FS_CardinalityType
<1>4. \A a \in s : Cardinality(Upto(a)) # 0
  <2> TAKE a \in s
  <2>1. a \in Upto(a)
    BY <1>2
  <2> HIDE DEF Upto
  <2> QED  BY <1>3, <2>1, FS_EmptySet
<1>5. \A a \in s : \A b \in s : a < b => Cardinality(Upto(a)) # Cardinality(Upto(b))
  <2> SUFFICES ASSUME NEW a \in s, NEW b \in s, a < b,
                      Cardinality(Upto(a)) = Cardinality(Upto(b))
               PROVE  FALSE
    OBVIOUS
  <2>1. Upto(a) \in SUBSET Upto(b)
    BY <1>2
  <2>2. b \in Upto(b) /\ b \notin Upto(a)
    BY <1>2
  <2> HIDE DEF Upto
  <2>3. Upto(a) = Upto(b)
    BY <1>3, <2>1, FS_Subset
  <2> QED  BY <2>2, <2>3
<1>6. \A a \in s : Place(s, a) = Cardinality(Upto(a))
  BY DEF Place
<1> HIDE DEF Upto
<1>7. \A a \in s : Place(s, a) \in 1..Cardinality(s)
  BY <1>1, <1>3, <1>4, <1>6
<1>8. ASSUME NEW a \in s, NEW b \in s, Place(s, a) = Place(s, b) PROVE a = b
  BY <1>2, <1>5, <1>6, <1>8
<1> QED  BY <1>7, <1>8

(* So every place has its atom.                                            *)
LEMMA AtomAt ==
    ASSUME NEW s \in SUBSET Frozen
    PROVE  /\ \A i \in 1..Cardinality(s) : Atom(s, i) \in s /\ Place(s, Atom(s, i)) = i
           /\ \A a \in s : Atom(s, Place(s, a)) = a
<1> DEFINE f == [a \in s |-> Place(s, a)]
           T == 1..Cardinality(s)
<1>1. IsFiniteSet(s) /\ Cardinality(s) \in Nat
  BY PartsAreFinite
<1>2. IsFiniteSet(T) /\ Cardinality(T) = Cardinality(s)
  <2>1. Cardinality(T) = IF 1 > Cardinality(s) THEN 0 ELSE Cardinality(s) - 1 + 1
    BY <1>1, FS_Interval
  <2> QED  BY <1>1, <2>1, FS_Interval
<1>3. f \in Injection(s, T)
  BY PlacesInOrder DEF Injection, IsInjective
<1>4. \A i \in T : \E a \in s : Place(s, a) = i
  <2> HIDE DEF f, T
  <2>1. f \in Surjection(s, T)
    BY <1>2, <1>3, FS_Injection
  <2>2. \A i \in T : \E a \in s : f[a] = i
    BY <2>1 DEF Surjection
  <2> QED  BY <2>2 DEF f
<1>5. \A i \in 1..Cardinality(s) : Atom(s, i) \in s /\ Place(s, Atom(s, i)) = i
  BY <1>4 DEF Atom
<1>6. ASSUME NEW a \in s PROVE Atom(s, Place(s, a)) = a
  <2>1. Place(s, a) \in 1..Cardinality(s)
    BY PlacesInOrder
  <2> QED  BY <1>5, <2>1, PlacesInOrder
<1> QED  BY <1>5, <1>6

(* The chunks are parts, and of the finest partition single atoms.         *)
LEMMA ChunkCount ==
    ASSUME NEW s \in SUBSET Frozen, s # {}, NEW k \in Nat \ {0}
    PROVE  Chunks(s, k) \in Nat \ {0}
BY PartsAreFinite DEF Chunks

LEMMA ChunksAreParts ==
    ASSUME NEW s \in SUBSET Frozen, NEW k, NEW j \in 1..Chunks(s, k)
    PROVE  Partition(s, k)[j] \in SUBSET s
BY DEF Partition

LEMMA FinestChunks ==
    ASSUME NEW s \in SUBSET Frozen, s # {}, NEW k \in Nat, k >= Cardinality(s)
    PROVE  /\ Chunks(s, k) = Cardinality(s)
           /\ \A a \in s : Partition(s, k)[Place(s, a)] = {a}
<1>1. Cardinality(s) \in Nat /\ Cardinality(s) > 0
  BY PartsAreFinite
<1>2. Chunks(s, k) = Cardinality(s)
  BY <1>1 DEF Chunks
<1>3. Cardinality(s) \div Cardinality(s) = 1 /\ Cardinality(s) % Cardinality(s) = 0
  <2>1. \A c \in Int : c > 0 => c \div c = 1 /\ c % c = 0
    OBVIOUS
  <2> QED  BY <1>1, <2>1
<1>4. ASSUME NEW a \in s PROVE Partition(s, k)[Place(s, a)] = {a}
  <2>1. Place(s, a) \in 1..Cardinality(s)
    BY PlacesInOrder
  <2>2. Partition(s, k)[Place(s, a)] =
            {b \in s : Place(s, a) - 1 < Place(s, b) /\ Place(s, b) <= Place(s, a)}
    BY <1>1, <1>2, <1>3, <2>1 DEF Partition
  <2>3. \A b \in s : Place(s, b) \in Nat
    BY <1>1, PlacesInOrder
  <2>4. \A b \in s : Place(s, a) - 1 < Place(s, b) /\ Place(s, b) <= Place(s, a) <=>
                         Place(s, b) = Place(s, a)
    BY <2>3
  <2>5. \A b \in s : Place(s, b) = Place(s, a) <=> b = a
    BY PlacesInOrder
  <2> QED  BY <2>2, <2>4, <2>5
<1> QED  BY <1>2, <1>4

-----------------------------------------------------------------------------
(* What one trial leaves of the answers.                                   *)
Asked(s, answer) ==
    /\ oracle' = [t \in DOMAIN oracle' |-> oracle'[t]]
    /\ {} \in DOMAIN oracle' /\ oracle'[{}] = "PASS"
    /\ \A t \in DOMAIN oracle' : oracle'[t] \in Answers
    /\ s \in DOMAIN oracle' /\ oracle'[s] = answer
    /\ answer = "FAIL" => s # {}
    /\ Steady => \A t \in DOMAIN oracle : t \in DOMAIN oracle' /\ oracle'[t] = oracle[t]
    /\ Steady' <=> Steady

LEMMA AskKeeps ==
    ASSUME DDTypeOK, NEW s, NEW answer \in Answers, Ask(s, answer)
    PROVE  Asked(s, answer)
<1>1. DOMAIN oracle' = DOMAIN oracle \cup {s}
  BY DEF Ask
<1>2. \A t \in DOMAIN oracle' : oracle'[t] = IF t = s THEN answer ELSE oracle[t]
  BY <1>1 DEF Ask
<1>3. s = {} => answer = "PASS"
  BY DEF Ask, DDTypeOK
<1>4. Steady /\ s \in DOMAIN oracle => answer = oracle[s]
  BY DEF Ask, Steady
<1>5. Steady' <=> Steady
  BY DEF Ask, Steady
<1>6. oracle' = [t \in DOMAIN oracle' |-> oracle'[t]]
  BY DEF Ask
<1> QED  BY <1>1, <1>2, <1>3, <1>4, <1>5, <1>6 DEF Asked, DDTypeOK

LEMMA HarmlessStays ==
    ASSUME DDTypeOK, Steady, NEW s, NEW answer \in Answers, Ask(s, answer), NEW t, Harmless(t)
    PROVE  Harmless(t)'
BY AskKeeps DEF Asked, Harmless

LEMMA Reduced ==
    ASSUME DDIInv, NEW s \in SUBSET Frozen, Asked(s, "FAIL"), ReduceTo(s), checks = <<>>,
           UNCHANGED <<final, checks>>
    PROVE  DDIInv'
<1>1. IsFiniteSet(s) /\ Cardinality(s) \in Nat /\ Cardinality(s) > 0
  BY PartsAreFinite DEF Asked
<1>2. n' \in Nat \ {0} /\ index' = 1 /\ current' = s /\ checks' = <<>>
  BY DEF DDIInv, DDTypeOK, ReduceTo
<1>3. Chunks(s, n') \in Nat \ {0}
  BY <1>2, ChunkCount DEF Asked
<1>4. DDTypeOK'
  BY <1>1, <1>2, <1>3 DEF DDIInv, DDTypeOK, ReduceTo, Asked, Chunks
<1>5. ASSUME Steady' PROVE Shown'
  <2>1. current' \in DOMAIN oracle' /\ oracle'[current'] = "FAIL"
    BY <1>2 DEF Asked
  <2>2. ASSUME pc' = "final", NEW a \in current'
        PROVE  (current' \ {a}) \in DOMAIN oracle' /\ oracle'[current' \ {a}] # "FAIL"
    <3>1. Cardinality(s) = 1
      BY <1>1, <2>2 DEF ReduceTo
    <3>2. current' \ {a} = {}
      BY <1>1, <1>2, <3>1, FS_Singleton
    <3> QED  BY <3>2 DEF Asked
  <2>3. pc' \in {"subset", "final"}
    BY DEF ReduceTo
  <2> QED  BY <2>1, <2>2, <2>3 DEF Shown, Harmless
<1> QED  BY <1>4, <1>5 DEF DDIInv

LEMMA DDInitIInv == ASSUME DDInit PROVE DDIInv
<1>1. current \subseteq Frozen /\ current # {}
  BY AtomsAssumption DEF DDInit, Frozen
<1>2. checks = <<>> /\ checks \in Seq(Answers)
  BY DEF DDInit
<1>3. oracle = [s \in {{}} |-> "PASS"] /\ DOMAIN oracle = {{}} /\ pc = "probe" /\ n = 2 /\ index = 1
  BY DEF DDInit
<1> QED  BY <1>1, <1>2, <1>3 DEF DDIInv, DDTypeOK, Shown, Answers

LEMMA SubsetKeeps ==
    ASSUME DDIInv, NEW answer \in Answers, Subset(answer)
    PROVE  DDIInv'
<1> DEFINE chunk == Partition(current, n)[index]
<1>1. pc = "subset" /\ index \in 1..Chunks(current, n) /\ checks = <<>>
      /\ current \in SUBSET Frozen /\ current # {} /\ n \in Nat \ {0}
  BY DEF Subset, DDIInv, DDTypeOK
<1>2. Chunks(current, n) \in Nat \ {0}
  BY <1>1, ChunkCount
<1>3. chunk \in SUBSET Frozen
  BY <1>1, ChunksAreParts
<1>4. Ask(chunk, answer) /\ UNCHANGED <<final, checks>>
  BY DEF Subset
<1>5. Asked(chunk, answer)
  BY <1>4, AskKeeps DEF DDIInv
<1>6. CASE answer = "FAIL"
  <2>1. ReduceTo(chunk)
    BY <1>6 DEF Subset
  <2> HIDE DEF chunk
  <2> QED  BY <1>1, <1>3, <1>4, <1>5, <1>6, <2>1, Reduced
<1>7. CASE answer # "FAIL"
  <2>1. /\ current' = current /\ n' = n
        /\ \/ index < Chunks(current, n) /\ index' = index + 1 /\ pc' = "subset"
           \/ index' = 1 /\ pc' = "complement"
    BY <1>1, <1>7 DEF Subset
  <2> HIDE DEF chunk
  <2>2. index' \in 1..Chunks(current, n)
    BY <1>1, <1>2, <2>1
  <2>3. Chunks(current, n)' = Chunks(current, n)
    BY <2>1 DEF Chunks
  <2>4. DDTypeOK'
    BY <1>1, <1>4, <1>5, <2>1, <2>2, <2>3 DEF DDIInv, DDTypeOK, Asked
  <2>5. ASSUME Steady' PROVE Shown'
    <3>1. Shown /\ Steady
      BY <1>5, <2>5 DEF DDIInv, Asked
    <3> QED  BY <1>1, <1>5, <2>1, <3>1 DEF Shown, Asked
  <2> QED  BY <2>4, <2>5 DEF DDIInv
<1> QED  BY <1>6, <1>7

LEMMA ComplementsKeep ==
    ASSUME DDIInv, NEW answer \in Answers, Complements(answer)
    PROVE  DDIInv'
<1> DEFINE rest == Complement(current, Partition(current, n)[index])
<1>1. pc = "complement" /\ index \in 1..Chunks(current, n) /\ checks = <<>>
      /\ current \in SUBSET Frozen /\ current # {} /\ n \in Nat \ {0}
  BY DEF Complements, DDIInv, DDTypeOK
<1>2. Chunks(current, n) \in Nat \ {0} /\ Cardinality(current) \in Nat
  BY <1>1, ChunkCount, PartsAreFinite
<1>3. rest \in SUBSET Frozen
  BY <1>1 DEF Complement
<1>4. Ask(rest, answer) /\ UNCHANGED <<final, checks>>
  BY DEF Complements
<1>5. Asked(rest, answer)
  BY <1>4, AskKeeps DEF DDIInv
<1>6. CASE answer = "FAIL"
  <2>1. ReduceTo(rest)
    BY <1>6 DEF Complements
  <2> HIDE DEF rest
  <2> QED  BY <1>1, <1>3, <1>4, <1>5, <1>6, <2>1, Reduced
<1>7. CASE answer # "FAIL"
  <2>1. /\ current' = current
        /\ \/ index < Chunks(current, n) /\ index' = index + 1 /\ UNCHANGED <<n, pc>>
           \/ index >= Chunks(current, n) /\ Refine
    BY <1>1, <1>2, <1>7 DEF Complements, Refine
  <2>2. ASSUME Steady'
        PROVE  /\ Steady /\ Shown
               /\ \A i \in 1..index : LET u == Complement(current, Partition(current, n)[i])
                                      IN  u \in DOMAIN oracle' /\ oracle'[u] # "FAIL"
    <3>1. Shown /\ Steady
      BY <1>5, <2>2 DEF DDIInv, Asked
    <3>2. rest \in DOMAIN oracle' /\ oracle'[rest] # "FAIL"
      BY <1>5, <1>7 DEF Asked
    <3>3. \A i \in 1..(index - 1) : LET u == Complement(current, Partition(current, n)[i])
                                    IN  u \in DOMAIN oracle' /\ oracle'[u] # "FAIL"
      BY <1>1, <1>5, <3>1 DEF Asked, Shown, Harmless
    <3>4. \A i \in 1..index : i = index \/ i \in 1..(index - 1)
      BY <1>1, <1>2
    <3> QED  BY <3>1, <3>2, <3>3, <3>4
  <2> HIDE DEF rest
  <2>3. CASE index < Chunks(current, n) /\ index' = index + 1 /\ UNCHANGED <<n, pc>>
    <3>1. index' \in 1..Chunks(current, n) /\ Chunks(current, n)' = Chunks(current, n)
          /\ index' - 1 = index
      BY <1>1, <1>2, <2>1, <2>3 DEF Chunks
    <3>2. DDTypeOK'
      BY <1>1, <1>4, <1>5, <2>1, <2>3, <3>1 DEF DDIInv, DDTypeOK, Asked
    <3>3. Partition(current, n)' = Partition(current, n)
      BY <2>1, <2>3 DEF Partition, Chunks, Place
    <3>4. ASSUME Steady' PROVE Shown'
      <4>1. current' \in DOMAIN oracle' /\ oracle'[current'] = "FAIL"
        BY <1>1, <1>5, <2>1, <2>2, <3>4 DEF Shown, Asked
      <4>2. \A i \in 1..(index' - 1) :
                Harmless(Complement(current, Partition(current, n)[i]))'
        BY <2>1, <2>2, <3>1, <3>3, <3>4 DEF Harmless, Complement
      <4> QED  BY <1>1, <2>3, <4>1, <4>2 DEF Shown
    <3> QED  BY <3>2, <3>4 DEF DDIInv
  <2>4. CASE index >= Chunks(current, n) /\ Refine
    <3>1. CASE n >= Cardinality(current)
      <4>1. pc' = "final" /\ n' = n
        BY <2>4, <3>1 DEF Refine
      <4>2. DDTypeOK'
        BY <1>1, <1>4, <1>5, <2>1, <4>1 DEF DDIInv, DDTypeOK, Asked
      <4>3. ASSUME Steady', NEW a \in current
            PROVE  current \ {a} \in DOMAIN oracle' /\ oracle'[current \ {a}] # "FAIL"
        <5>1. Place(current, a) \in 1..index
          BY <1>1, <1>2, <2>4, <3>1, PlacesInOrder, FinestChunks
        <5>2. Partition(current, n)[Place(current, a)] = {a}
          BY <1>1, <3>1, FinestChunks
        <5> QED  BY <2>2, <4>3, <5>1, <5>2 DEF Complement
      <4>4. ASSUME Steady' PROVE Shown'
        <5>1. current' \in DOMAIN oracle' /\ oracle'[current'] = "FAIL"
          BY <1>1, <1>5, <2>1, <2>2, <4>4 DEF Shown, Asked
        <5> QED  BY <2>1, <4>1, <4>3, <4>4, <5>1 DEF Shown, Harmless
      <4> QED  BY <4>2, <4>4 DEF DDIInv
    <3>2. CASE ~(n >= Cardinality(current))
      <4>1. pc' = "subset" /\ n' = Chunks(current, 2 * n) /\ index' = 1
        BY <2>4, <3>2 DEF Refine
      <4>2. n' \in Nat \ {0}
        BY <1>1, <4>1, ChunkCount
      <4>3. Chunks(current, n') \in Nat \ {0}
        BY <1>1, <4>2, ChunkCount
      <4>4. Chunks(current, n)' = Chunks(current, n')
        BY <2>1 DEF Chunks
      <4>5. index' \in 1..Chunks(current, n)'
        BY <4>1, <4>3, <4>4
      <4>6. DDTypeOK'
        BY <1>1, <1>4, <1>5, <2>1, <4>1, <4>2, <4>5 DEF DDIInv, DDTypeOK, Asked
      <4>7. ASSUME Steady' PROVE Shown'
        BY <1>1, <1>5, <2>1, <2>2, <4>1, <4>7 DEF Shown, Asked
      <4> QED  BY <4>6, <4>7 DEF DDIInv
    <3> QED  BY <3>1, <3>2
  <2> QED  BY <2>1, <2>3, <2>4
<1> QED  BY <1>6, <1>7

LEMMA RemovalKeeps ==
    ASSUME DDIInv, NEW answer \in Answers, CertifyRemoval(answer)
    PROVE  DDIInv'
<1> DEFINE smaller == current \ {Atom(current, index)}
<1>1. pc = "remove" /\ index \in 1..Cardinality(current) /\ Len(checks) = index - 1
      /\ current \in SUBSET Frozen /\ current # {} /\ checks \in Seq(Answers)
  BY DEF CertifyRemoval, DDIInv, DDTypeOK
<1>2. Cardinality(current) \in Nat
  BY <1>1, PartsAreFinite
<1>3. Ask(smaller, answer) /\ checks' = Append(checks, answer) /\ UNCHANGED <<current, n, final>>
  BY DEF CertifyRemoval, Complement
<1>4. Asked(smaller, answer)
  BY <1>3, AskKeeps DEF DDIInv
<1>5. /\ checks' \in Seq(Answers) /\ Len(checks') = index
      /\ \A i \in 1..(index - 1) : checks'[i] = checks[i]
      /\ checks'[index] = answer
  BY <1>1, <1>2, <1>3
<1>6. \/ pc' = "remove" /\ index < Cardinality(current) /\ index' = index + 1
      \/ pc' = "done" /\ index' = index /\ index = Cardinality(current)
  BY <1>1, <1>2 DEF CertifyRemoval
<1>7. index' \in 1..Cardinality(current) /\ Cardinality(current)' = Cardinality(current)
  BY <1>1, <1>2, <1>3, <1>6
<1>8. DDTypeOK'
  <2> HIDE DEF smaller
  <2>1. pc' = "remove" => Len(checks') = index' - 1
    BY <1>1, <1>2, <1>5, <1>6
  <2>2. pc' = "done" => Len(checks') = Cardinality(current)
    BY <1>5, <1>6
  <2> QED  BY <1>1, <1>3, <1>4, <1>5, <1>6, <1>7, <2>1, <2>2 DEF DDIInv, DDTypeOK, Asked
<1>9. ASSUME Steady' PROVE Shown'
  <2>1. Shown /\ Steady
    BY <1>4, <1>9 DEF DDIInv, Asked
  <2>2. /\ current' \in DOMAIN oracle' /\ oracle'[current'] = "FAIL"
        /\ \A a \in current' : (current' \ {a}) \in DOMAIN oracle' /\ oracle'[current' \ {a}] # "FAIL"
    BY <1>1, <1>3, <1>4, <2>1 DEF Shown, Harmless, Asked
  <2>3. \A i \in 1..index :
            /\ (current \ {Atom(current, i)}) \in DOMAIN oracle'
            /\ checks'[i] = oracle'[current \ {Atom(current, i)}]
    <3> TAKE i \in 1..index
    <3>1. CASE i = index
      BY <1>4, <1>5, <3>1 DEF Asked
    <3>2. CASE i \in 1..(index - 1)
      <4> HIDE DEF smaller
      <4>1. /\ (current \ {Atom(current, i)}) \in DOMAIN oracle
            /\ checks[i] = oracle[current \ {Atom(current, i)}]
        BY <1>1, <2>1, <3>2 DEF Shown
      <4> QED  BY <1>4, <1>5, <2>1, <3>2, <4>1 DEF Asked
    <3> QED  BY <1>1, <1>2, <3>1, <3>2
  <2>4. \A i : Atom(current, i)' = Atom(current, i)
    BY <1>3 DEF Atom, Place
  <2>5. final' = "FAIL"
    BY <1>1, <1>3, <2>1 DEF Shown
  <2> QED  BY <1>3, <1>5, <1>6, <2>2, <2>3, <2>4, <2>5 DEF Shown, Harmless
<1> QED  BY <1>8, <1>9 DEF DDIInv

LEMMA DDNextIInv ==
    ASSUME DDIInv, [DDNext]_ddvars
    PROVE  DDIInv'
<1>1. ASSUME UNCHANGED ddvars PROVE DDIInv'
  <2>1. DDTypeOK'
    BY <1>1 DEF DDIInv, DDTypeOK, ddvars, Chunks
  <2>2. Partition(current, n)' = Partition(current, n) /\ \A i : Atom(current, i)' = Atom(current, i)
    BY <1>1 DEF ddvars, Partition, Chunks, Place, Atom
  <2>3. UNCHANGED <<flaky, oracle, current, pc, index, final, checks>>
    BY <1>1 DEF ddvars
  <2>4. ASSUME Steady' PROVE Shown'
    <3>1. Shown
      BY <2>3, <2>4 DEF DDIInv, Steady
    <3>2. pc' = "complement" => \A i \in 1..(index' - 1) :
              Harmless(Complement(current, Partition(current, n)[i]))'
      BY <2>2, <2>3, <3>1 DEF Shown, Harmless, Complement
    <3> QED  BY <2>2, <2>3, <3>1, <3>2 DEF Shown, Harmless
  <2> QED  BY <2>1, <2>4 DEF DDIInv
<1>2. ASSUME NEW answer \in Answers, FullSet(answer) PROVE DDIInv'
  <2>1. Asked(current, answer)
    BY <1>2, AskKeeps DEF FullSet, DDIInv
  <2>2. /\ pc' \in {"initial", "initial_not_fail"} /\ pc = "probe"
        /\ UNCHANGED <<current, n, index, final, checks>>
    BY <1>2 DEF FullSet
  <2> QED  BY <2>1, <2>2 DEF DDIInv, DDTypeOK, Shown, Asked
<1>3. ASSUME NEW answer \in Answers, Initial(answer) PROVE DDIInv'
  <2>1. Asked(current, answer)
    BY <1>3, AskKeeps DEF Initial, DDIInv
  <2>2. /\ pc' = (IF answer = "FAIL" THEN "subset" ELSE "not_minimizable")
        /\ pc = "initial" /\ UNCHANGED <<current, n, index, final, checks>>
    BY <1>3 DEF Initial
  <2>3. current \in SUBSET Frozen /\ current # {} /\ n \in Nat \ {0} /\ checks = <<>> /\ index = 1
    BY <2>2 DEF DDIInv, DDTypeOK
  <2>4. Chunks(current, n) \in Nat \ {0} /\ Chunks(current, n)' = Chunks(current, n)
    BY <2>2, <2>3, ChunkCount DEF Chunks
  <2>5. index' \in 1..Chunks(current, n)'
    BY <2>2, <2>3, <2>4
  <2> QED  BY <2>1, <2>2, <2>3, <2>5 DEF DDIInv, DDTypeOK, Shown, Asked
<1>4. ASSUME NEW answer \in Answers, CertifyFinal(answer) PROVE DDIInv'
  <2>1. Asked(current, answer)
    BY <1>4, AskKeeps DEF CertifyFinal, DDIInv
  <2>2. /\ pc' = "remove" /\ pc = "final" /\ index' = 1 /\ final' = answer
        /\ UNCHANGED <<current, n, checks>>
    BY <1>4 DEF CertifyFinal
  <2>3. current \in SUBSET Frozen /\ current # {} /\ checks = <<>>
    BY <2>2 DEF DDIInv, DDTypeOK
  <2>4. index' \in 1..Cardinality(current) /\ Cardinality(current)' = Cardinality(current)
    BY <2>2, <2>3, PartsAreFinite
  <2>5. Len(checks') = 0 /\ Len(checks') = index' - 1
    BY <2>2, <2>3
  <2>6. DDTypeOK'
    BY <2>1, <2>2, <2>3, <2>4, <2>5 DEF DDIInv, DDTypeOK, Asked
  <2>7. ASSUME Steady' PROVE Shown'
    <3>1. Shown /\ Steady
      BY <2>1, <2>7 DEF DDIInv, Asked
    <3>2. answer = "FAIL"
      BY <2>1, <2>2, <3>1 DEF Shown, Asked
    <3>3. /\ current \in DOMAIN oracle' /\ oracle'[current] = "FAIL"
          /\ \A a \in current : (current \ {a}) \in DOMAIN oracle' /\ oracle'[current \ {a}] # "FAIL"
      BY <2>1, <2>2, <3>1, <3>2 DEF Shown, Harmless, Asked
    <3>4. 1..Len(checks') = {}
      BY <2>5
    <3> QED  BY <2>2, <3>2, <3>3, <3>4 DEF Shown, Harmless
  <2> QED  BY <2>6, <2>7 DEF DDIInv
<1>5. ASSUME DirtyRestore PROVE DDIInv'
  BY <1>5 DEF DirtyRestore, DDIInv, DDTypeOK, Shown, Steady
<1> QED  BY <1>1, <1>2, <1>3, <1>4, <1>5, SubsetKeeps, ComplementsKeep, RemovalKeeps DEF DDNext

(* The certificate follows from what was asked.                            *)
LEMMA DDIInvGivesCertificate == DDIInv => CertificateExact
<1> SUFFICES ASSUME DDIInv, pc = "done" PROVE
       /\ OneMinimal <=> CertificateProblems = {}
       /\ OneMinimal /\ Steady =>
             /\ oracle[current] = "FAIL"
             /\ \A a \in current : oracle[current \ {a}] = "PASS"
       /\ Steady /\ Resolved => OneMinimal
  BY DEF CertificateExact
<1>1. /\ current \in SUBSET Frozen /\ current # {} /\ checks \in Seq(Answers)
      /\ Len(checks) = Cardinality(current) /\ final \in Answers
  BY DEF DDIInv, DDTypeOK
<1>2. DOMAIN checks = 1..Cardinality(current)
  BY <1>1
<1>3. OneMinimal <=> CertificateProblems = {}
  <2>1. /\ "minimal" \notin CertificateProblems /\ "removals" \notin CertificateProblems
        /\ "final" \in CertificateProblems <=> final # "FAIL"
        /\ "not_pass" \in CertificateProblems <=> \E i \in DOMAIN checks : checks[i] # "PASS"
    BY <1>1 DEF CertificateProblems
  <2>2. CertificateProblems \subseteq {"minimal", "final", "removals", "not_pass"}
    BY DEF CertificateProblems
  <2> HIDE DEF CertificateProblems
  <2> QED  BY <2>1, <2>2 DEF OneMinimal
<1>4. ASSUME Steady, NEW a \in current
      PROVE  /\ Place(current, a) \in DOMAIN checks
             /\ checks[Place(current, a)] = oracle[current \ {a}]
  <2>1. Place(current, a) \in DOMAIN checks
    BY <1>1, <1>2, PlacesInOrder
  <2>2. Atom(current, Place(current, a)) = a
    BY <1>1, AtomAt
  <2> QED  BY <1>1, <1>2, <1>4, <2>1, <2>2 DEF DDIInv, Shown
<1>5. ASSUME OneMinimal, Steady
      PROVE  /\ oracle[current] = "FAIL"
             /\ \A a \in current : oracle[current \ {a}] = "PASS"
  BY <1>4, <1>5 DEF DDIInv, Shown, OneMinimal
<1>6. ASSUME Steady, Resolved PROVE OneMinimal
  <2>1. ASSUME NEW i \in DOMAIN checks PROVE checks[i] = "PASS"
    <3>1. Atom(current, i) \in current
      BY <1>1, <1>2, <2>1, AtomAt
    <3>2. /\ checks[i] = oracle[current \ {Atom(current, i)}]
          /\ Harmless(current \ {Atom(current, i)})
      BY <1>1, <1>2, <1>6, <2>1, <3>1 DEF DDIInv, Shown
    <3> QED  BY <1>6, <3>2 DEF Harmless, Resolved, DDIInv, DDTypeOK, Answers
  <2>2. final = "FAIL"
    BY <1>6 DEF DDIInv, Shown
  <2> QED  BY <2>1, <2>2 DEF OneMinimal
<1> QED  BY <1>3, <1>5, <1>6

(* The inductive invariant of delta debugging: a search that ends has      *)
(* tried to leave out each atom that is left, and what the certificate is  *)
(* told is what was answered (ddmin.minimize).                             *)
THEOREM SearchIInvHolds == DDSpec => []DDIInv
BY DDInitIInv, DDNextIInv, PTL DEF DDSpec

(* The certificate says what its evidence shows, and a search without      *)
(* unresolved trials of tests that answer alike ends 1-minimal, for any    *)
(* number of atoms and any oracle (ddmin.minimize, certificate_problems).  *)
THEOREM CertificatesAreExact == DDSpec => []CertificateExact
BY SearchIInvHolds, DDIInvGivesCertificate, PTL

-----------------------------------------------------------------------------
(* The analysis session and its ledger.                                    *)

Steps == {"idle", "drift", "undrift", "cutfile", "removed", "next", "cut", "check", "done", "minimize"}

(* Where the worktree is: cut by a trial that runs, clean otherwise.       *)
TreeInv ==
    /\ phase \in {"CREATED", "REPO_INSPECTED", "PATCH_INSPECTED", "UNIVERSE_FROZEN"} =>
           ~raised /\ step = "idle" /\ tree = "none"
    /\ phase = "TEST_SCOPE_COLLECTED" => ~raised /\ step = "idle" /\ tree = "clean"
    /\ Ready => step \in Steps /\ tree = IF step \in {"cut", "removed"} THEN "cut" ELSE "clean"
    /\ WorktreeAccounted

(* Why a line has no verdict: both accounts give the same reasons, and     *)
(* only for lines that the coverage says nothing about.                    *)
Hidden(l) == l \in Lines /\ FirstLabel(l) = Unlabeled("not_isolated")
ReasonsInv ==
    /\ phase \in {"BASELINE_COMPLETE", "PROBING"} =>
           ledger.context = [f \in Files |-> LineContext(f)]
    /\ why = ledger.outcome
    /\ \A l \in DOMAIN why : Hidden(l)
    /\ \A l \in open : Hidden(l)
    /\ \A l \in DOMAIN unresolved : Hidden(l)

Going == phase \notin {"FINISHED", "FAILED"} /\ ~raised

(* What was observed and what the engines concluded of it.                 *)
TrialType == [of : Files \cup {"unit"}, lines : SUBSET Lines,
              status : {"COMPLETE", "ABORTED", "TIMEOUT", "INVALID", "DIRTY"},
              vector : {"none", "same", "shifted", "weak", "strong"}]
Observed == ledger.trials \in Seq(TrialType) /\ ledger.claims \subseteq Nodes
TrialTold(t) ==
    /\ t.vector # "none" => t.status = "COMPLETE"
    /\ t.of # "unit" => t.lines = LinesOf[t.of]
    /\ t.of = "unit" /\ t.vector = "same" => [verdict |-> "INERT", lines |-> t.lines] \in units
    /\ t.of # "unit" /\ t.vector = "same" =>
          /\ t.of \in ledger.git /\ t.of \in ledger.unreferenced
          /\ [verdict |-> "DRIFT", lines |-> t.lines] \in units
UnitGrounded(u) ==
    \/ /\ u.verdict = "DRIFT"
       /\ \E t \in Trials : t.vector = "same" /\ t.lines = u.lines /\ t.of # "unit"
    \/ /\ u.verdict = "INERT"
       /\ \E t \in Trials : t.vector = "same" /\ t.lines = u.lines /\ t.of = "unit"
    \/ u.verdict = "LOAD_BEARING" /\ \E k \in ledger.claims : u.lines = Span[k]
ClaimGrounded(k) ==
    /\ [verdict |-> "LOAD_BEARING", lines |-> Span[k]] \in units
    /\ k \in DOMAIN ledger.reruns /\ ChainComplete(k, ledger.reruns[k])
Underway ==
    /\ step \in {"cutfile", "removed"} => anchor \in ledger.git /\ anchor \in ledger.unreferenced
    /\ step = "check" =>
          /\ ledger.trials[Len(ledger.trials)] \in Trials
          /\ LET t == ledger.trials[Len(ledger.trials)] IN
                t.of = "unit" /\ t.lines = Span[Node] /\ t.status = "COMPLETE"
RecordsInv ==
    /\ \A t \in Trials : TrialTold(t)
    /\ \A u \in units : UnitGrounded(u)
    /\ \A k \in ledger.claims : ClaimGrounded(k)
    /\ Going => Underway

(* Statements side by side share no line but all of theirs.  The code      *)
(* refuses roots with a ";" on their first or last line, which all but     *)
(* gives it for them, and asks nothing of their parts.  Of the parts       *)
(*     x = 1; y = \                                                        *)
(*     f()                                                                 *)
(* the first can be cut without the second, whose lines include its own.   *)
Separate(a, b) == Span[a] = Span[b] \/ Span[a] \cap Span[b] = {}
StatementsApart ==
    /\ \A f \in Files : \A i, j \in 1..Len(Roots[f]) : Separate(Roots[f][i], Roots[f][j])
    /\ \A m \in Nodes : \A i, j \in 1..Len(Kids[m]) : Separate(Kids[m][i], Kids[m][j])

Apart(a, b) == StatementsApart => Separate(a, b)
Off(x, y) == StatementsApart => x \cap y = {}

(* The search: what is settled stays out of what is still to be tried.     *)
Settled == {Span[k] : k \in ledger.claims} \cup {u.lines : u \in {v \in units : v.verdict = "INERT"}}
Awaited == {a \in ToSet(queue) : Span[a] \notin seen}
Busy == {"drift", "undrift", "cutfile", "removed", "next", "cut", "check", "done"}
Entered == IF step \in {"next", "cut", "check", "done"} THEN completed \cup {anchor} ELSE completed
Within(lines, files) == \E f \in files : lines \subseteq LinesOf[f]

UnitLines == {t.lines : t \in {x \in Trials : x.of = "unit"}}
Once ==
    \A i, j \in 1..Len(ledger.trials) : i # j =>
        <<ledger.trials[i].of, ledger.trials[i].lines>> # <<ledger.trials[j].of, ledger.trials[j].lines>>
Disjoint ==
    \A k \in ledger.claims : \A u \in units : u.verdict = "INERT" => Off(Span[k], u.lines)

Located ==
    /\ completed \subseteq Files
    /\ step \in Busy => anchor \in Files \ completed
    /\ \A t \in Trials : IF t.of = "unit" THEN t.lines # {} /\ Within(t.lines, Entered)
                         ELSE t.of \in IF step \in {"undrift", "next", "cut", "check", "done"}
                                       THEN completed \cup {anchor} ELSE completed
    /\ \A s \in Settled : s # {} /\ Within(s, Entered)
Searches == step \in {"next", "cut", "check"} =>
    /\ queue \in Seq(Nodes) /\ open \subseteq LinesOf[anchor]
    /\ \A a \in ToSet(queue) : Span[a] \subseteq LinesOf[anchor]
    /\ \A t \in Trials : t.of = "unit" => t.lines \in seen \/ Within(t.lines, completed)
    /\ \A s \in Settled : s \cap open = {}
    /\ \A a \in Awaited : \A b \in Awaited : Apart(a, b)
    /\ \A s \in Settled : \A a \in Awaited : Off(s, Span[a])
Tries == step \in {"cut", "check"} =>
    /\ queue # <<>> /\ Span[Node] \in seen /\ Span[Node] \cap open # {}
    /\ \A a \in Awaited : Off(Span[a], Span[Node])
    /\ \A s \in Settled : Off(s, Span[Node])
    /\ step = "cut" => Span[Node] \notin UnitLines

SearchInv == Observed /\ Once /\ Disjoint /\ (Going => Located /\ Searches /\ Tries)

Values == {"context", "trials", "reruns", "claims", "outcome", "git", "unreferenced"}
Shape == DOMAIN ledger = Values

LEMMA TreeInit == ASSUME ESInit PROVE TreeInv /\ Shape
BY DEF ESInit, TreeInv, Ready, WorktreeAccounted, Shape, Values, NoLedger

LEMMA TreeKept ==
    ASSUME TreeInv, [ESNext]_esvars
    PROVE  TreeInv'
<1> USE DEF TreeInv, Ready, WorktreeAccounted, Steps, setting, budget, engine, world, untouched
<1>1. UNCHANGED esvars => TreeInv'
  BY DEF esvars
<1>2. Inspect => TreeInv'
  BY DEF Inspect, After, Fails
<1>3. CollectScope => TreeInv'
  BY DEF CollectScope, Fails, Prepared, Discarded
<1>4. RunBaseline => TreeInv'
  BY DEF RunBaseline, Fails
<1>5. \A f \in Files : StartProbe(f) => TreeInv'
  BY DEF StartProbe, EntersDeletion
<1>6. DriftScan => TreeInv'
  BY DEF DriftScan
<1>7. Undrift => TreeInv'
  BY DEF Undrift, EntersDeletion
<1>8. RemoveFile => TreeInv'
  BY DEF RemoveFile
<1>9. \A status \in {"COMPLETE", "ABORTED", "TIMEOUT"}, vector \in {"none", "same", "strong"} :
          FileRestored(status, vector) => TreeInv'
  BY DEF FileRestored, Restored
<1>10. SkipNode => TreeInv'
  BY DEF SkipNode, Searching
<1>11. StopDeletion => TreeInv'
  BY DEF StopDeletion, Searching, EndsDeletion
<1>12. InvalidNode => TreeInv'
  BY DEF InvalidNode, MayDelete, Searching
<1>13. DeleteLines => TreeInv'
  BY DEF DeleteLines, MayDelete, Searching
<1>14. \A status \in {"COMPLETE", "TIMEOUT"}, vector \in {"none", "same", "shifted", "weak", "strong"} :
           LinesRestored(status, vector) => TreeInv'
  <2> TAKE status \in {"COMPLETE", "TIMEOUT"}, vector \in {"none", "same", "shifted", "weak", "strong"}
  <2> HAVE LinesRestored(status, vector)
  <2>1. step' \in {"next", "check", "done"}
    BY DEF LinesRestored, EndsDeletion
  <2> QED  BY <2>1 DEF LinesRestored, Restored
<1>15. \A rerun \in {"same", "changed"} : Confirm(rerun) => TreeInv'
  BY DEF Confirm, Restored
<1>16. ConfirmDirty => TreeInv'
  BY DEF ConfirmDirty, RestoreFails, Fails
<1>17. TrialDirty => TreeInv'
  BY DEF TrialDirty, RestoreFails, Fails
<1>18. TrialRaises => TreeInv'
  BY DEF TrialRaises
<1>19. EndProbe => TreeInv'
  BY DEF EndProbe
<1>20. \A m \in 0..MaxMinimize : Minimize(m) => TreeInv'
  BY DEF Minimize, Restored, RestoreFails, Fails
<1>21. RunLate => TreeInv'
  BY DEF RunLate
<1>22. FinishRun => TreeInv'
  BY DEF FinishRun, Restored, RestoreFails, Fails
<1>23. CleanUp => TreeInv'
  BY DEF CleanUp, Unregistered
<1> HIDE DEF TreeInv, Ready, WorktreeAccounted, Steps, setting, budget, engine, world, untouched
<1> QED
  BY <1>1, <1>2, <1>3, <1>4, <1>5, <1>6, <1>7, <1>8, <1>9, <1>10, <1>11, <1>12, <1>13, <1>14,
     <1>15, <1>16, <1>17, <1>18, <1>19, <1>20, <1>21, <1>22, <1>23 DEF ESNext

(* Trials begin on a clean worktree, and a clean one is published.         *)
LEMMA TrialsBeginClean ==
    ASSUME TreeInv, [ESNext]_esvars
    PROVE  /\ tree # "cut" /\ tree' = "cut" => tree = "clean"
           /\ phase # "FINISHED" /\ phase' = "FINISHED" => tree' = "clean" /\ ~raised
<1> USE DEF TreeInv, Ready, Steps, setting, budget, engine, world, untouched
<1> DEFINE P == /\ tree # "cut" /\ tree' = "cut" => tree = "clean"
                /\ phase # "FINISHED" /\ phase' = "FINISHED" => tree' = "clean" /\ ~raised
<1>1. UNCHANGED esvars => P
  BY DEF esvars
<1>2. Inspect => P
  BY DEF Inspect, After, Fails
<1>3. CollectScope => P
  BY DEF CollectScope, Fails, Prepared, Discarded
<1>4. RunBaseline => P
  BY DEF RunBaseline, Fails
<1>5. \A f \in Files : StartProbe(f) => P
  BY DEF StartProbe
<1>6. DriftScan \/ Undrift \/ RemoveFile => P
  BY DEF DriftScan, Undrift, RemoveFile
<1>7. \A status, vector : FileRestored(status, vector) \/ LinesRestored(status, vector) => P
  BY DEF FileRestored, LinesRestored, Restored
<1>8. SkipNode \/ StopDeletion \/ InvalidNode \/ DeleteLines => P
  BY DEF SkipNode, StopDeletion, InvalidNode, DeleteLines, MayDelete, Searching
<1>9. \A rerun : Confirm(rerun) => P
  BY DEF Confirm, Restored
<1>10. ConfirmDirty \/ TrialDirty \/ TrialRaises => P
  BY DEF ConfirmDirty, TrialDirty, TrialRaises, RestoreFails, Fails
<1>11. EndProbe \/ RunLate \/ CleanUp \/ FinishRun => P
  BY DEF EndProbe, RunLate, CleanUp, FinishRun, Restored, RestoreFails, Fails
<1>12. \A m : Minimize(m) => P
  BY DEF Minimize, Restored, RestoreFails, Fails
<1> HIDE DEF P, TreeInv, Ready, Steps, setting, budget, engine, world, untouched
<1>13. P
  BY <1>1, <1>2, <1>3, <1>4, <1>5, <1>6, <1>7, <1>8, <1>9, <1>10, <1>11, <1>12 DEF ESNext
<1> QED  BY <1>13 DEF P

(* A trial starts from the baseline tree, a session is published from it   *)
(* alone, and no worktree stays behind without an error that names it      *)
(* (TrialRunner, Workspace.cleanup, AnalysisSession.finish_run).           *)
THEOREM WorktreesAreSound == ESSpec => WorktreeSound
<1>1. ESInit => TreeInv
  BY TreeInit
<1>2. TreeInv /\ [ESNext]_esvars => TreeInv'
  BY TreeKept
<1>3. TreeInv => WorktreeAccounted
  BY DEF TreeInv
<1>4. TreeInv /\ [ESNext]_esvars =>
          [ /\ tree # "cut" /\ tree' = "cut" => tree = "clean"
            /\ phase # "FINISHED" /\ phase' = "FINISHED" => tree' = "clean" /\ ~raised ]_esvars
  BY TrialsBeginClean
<1>5. ESSpec => []TreeInv
  BY <1>1, <1>2, PTL DEF ESSpec
<1>6. ESSpec => TrialsStartClean
  BY <1>4, <1>5, PTL DEF ESSpec, TrialsStartClean
<1>7. ESSpec => []WorktreeAccounted
  BY <1>3, <1>5, PTL
<1> QED  BY <1>6, <1>7 DEF WorktreeSound

(* What a step leaves of the ledger but some of its fields.                *)
Only(S) == Shape' /\ \A f \in Values \ S : ledger'[f] = ledger[f]

LEMMA Merging == \A f, g : DOMAIN Over(f, g) = DOMAIN f \cup DOMAIN g
BY DEF Over

LEMMA HiddenStays == ASSUME UNCHANGED setting PROVE \A l : Hidden(l)' <=> Hidden(l)
BY DEF setting, Hidden, FirstLabel, FileOf, Unlabeled

LEMMA SettingStays == ASSUME [ESNext]_esvars PROVE UNCHANGED setting
<1> USE DEF world, untouched
<1>1. UNCHANGED esvars => UNCHANGED setting
  BY DEF esvars
<1>2. Inspect \/ CollectScope \/ RunBaseline => UNCHANGED setting
  BY DEF Inspect, CollectScope, RunBaseline
<1>3. \A f : StartProbe(f) => UNCHANGED setting
  BY DEF StartProbe
<1>4. DriftScan \/ Undrift \/ RemoveFile => UNCHANGED setting
  BY DEF DriftScan, Undrift, RemoveFile
<1>5. \A status, vector : FileRestored(status, vector) \/ LinesRestored(status, vector) => UNCHANGED setting
  BY DEF FileRestored, LinesRestored
<1>6. SkipNode \/ StopDeletion \/ InvalidNode \/ DeleteLines => UNCHANGED setting
  BY DEF SkipNode, StopDeletion, InvalidNode, DeleteLines
<1>7. \A rerun : Confirm(rerun) => UNCHANGED setting
  BY DEF Confirm
<1>8. ConfirmDirty \/ TrialDirty \/ TrialRaises \/ EndProbe => UNCHANGED setting
  BY DEF ConfirmDirty, TrialDirty, TrialRaises, EndProbe
<1>9. RunLate \/ CleanUp \/ FinishRun => UNCHANGED setting
  BY DEF RunLate, CleanUp, FinishRun
<1>10. \A m : Minimize(m) => UNCHANGED setting
  BY DEF Minimize
<1> HIDE DEF world, untouched
<1> QED  BY <1>1, <1>2, <1>3, <1>4, <1>5, <1>6, <1>7, <1>8, <1>9, <1>10 DEF ESNext

(* The reasons a step gives, and the lines it leaves to explain.           *)
Gives(all) ==
    /\ why' = Over(all, why) /\ ledger'.outcome = Over(all, ledger.outcome)
    /\ \A l \in DOMAIN all : Hidden(l)
Tells ==
    /\ (why' = why /\ ledger'.outcome = ledger.outcome) \/ \E all : Gives(all)
    /\ \A l \in open' : Hidden(l)
    /\ \A l \in DOMAIN unresolved' : Hidden(l)

LEMMA TellsKeeps ==
    ASSUME ReasonsInv, [ESNext]_esvars, Tells,
           phase' \in {"BASELINE_COMPLETE", "PROBING"} =>
               \/ phase \in {"BASELINE_COMPLETE", "PROBING"} /\ ledger'.context = ledger.context
               \/ ledger'.context = [f \in Files |-> LineContext(f)]
    PROVE  ReasonsInv'
<1>1. UNCHANGED setting
  BY SettingStays
<1>2. \A l : Hidden(l)' <=> Hidden(l)
  BY <1>1, HiddenStays
<1>3. [f \in Files |-> LineContext(f)]' = [f \in Files |-> LineContext(f)]
  BY <1>1 DEF LineContext, setting
<1>4. why' = ledger'.outcome /\ \A l \in DOMAIN why' : Hidden(l)
  <2>1. CASE why' = why /\ ledger'.outcome = ledger.outcome
    BY <2>1 DEF ReasonsInv
  <2>2. CASE \E all : Gives(all)
    <3>1. PICK all : Gives(all)
      BY <2>2
    <3>2. why' = Over(all, why) /\ ledger'.outcome = Over(all, why)
      BY <3>1 DEF Gives, ReasonsInv
    <3>3. DOMAIN why' = DOMAIN all \cup DOMAIN why
      BY <3>2, Merging
    <3> QED  BY <3>1, <3>2, <3>3 DEF Gives, ReasonsInv
  <2> QED  BY <2>1, <2>2 DEF Tells
<1>5. phase' \in {"BASELINE_COMPLETE", "PROBING"} => ledger'.context = [f \in Files |-> LineContext(f)]
  BY DEF ReasonsInv
<1> QED  BY <1>2, <1>3, <1>4, <1>5 DEF ReasonsInv, Tells

LEMMA NotIsolatedIsHidden == ASSUME NEW f \in Files, NEW l \in NotIsolated(f) PROVE Hidden(l)
BY DEF NotIsolated, Hidden, Lines

LEMMA EntersTells ==
    ASSUME ReasonsInv, Shape, NEW f \in Files, EntersDeletion(f)
    PROVE  Tells /\ Only({"outcome"})
<1> DEFINE bail == [l \in NotIsolated(f) |-> "no_valid_transform"]
<1>1. \A l \in DOMAIN bail : Hidden(l)
  BY NotIsolatedIsHidden
<1>2. \A l \in open' : Hidden(l)
  BY NotIsolatedIsHidden DEF EntersDeletion
<1>3. DOMAIN unresolved' = {}
  BY DEF EntersDeletion
<1>4. \/ why' = why /\ ledger' = ledger
      \/ why' = Over(bail, why) /\ ledger' = [ledger EXCEPT !.outcome = Over(bail, ledger.outcome)]
  BY DEF EntersDeletion
<1> HIDE DEF bail
<1>5. \/ why' = why /\ ledger' = ledger
      \/ Gives(bail)
  BY <1>1, <1>4 DEF Gives, Shape, Values
<1>6. Only({"outcome"})
  BY <1>4 DEF Only, Shape, Values
<1> QED  BY <1>2, <1>3, <1>5, <1>6 DEF Tells

LEMMA ResolveTells ==
    ASSUME ReasonsInv, NEW lines, NEW reason, Resolve(lines, reason)
    PROVE  /\ \A l \in open' : Hidden(l)
           /\ \A l \in DOMAIN unresolved' : Hidden(l)
           /\ open' = open \ lines
<1> DEFINE new == [l \in lines \cap open |-> reason]
<1>1. unresolved' = Over(new, unresolved) /\ open' = open \ lines
  BY DEF Resolve, Explain, Gone
<1>2. \A l \in DOMAIN new : Hidden(l)
  BY DEF ReasonsInv
<1>3. \A l \in DOMAIN unresolved : Hidden(l)
  BY DEF ReasonsInv
<1> HIDE DEF new
<1>4. DOMAIN unresolved' = DOMAIN new \cup DOMAIN unresolved
  BY <1>1, Merging
<1>5. \A l \in DOMAIN unresolved' : Hidden(l)
  BY <1>2, <1>3, <1>4
<1>6. \A l \in open' : Hidden(l)
  BY <1>1 DEF ReasonsInv
<1> QED  BY <1>1, <1>5, <1>6

LEMMA EndsTells ==
    ASSUME ReasonsInv, NEW records, DOMAIN records = Values, records.outcome = ledger.outcome,
           NEW spent, NEW lines, NEW reason, EndsDeletion(records, spent, lines, reason)
    PROVE  /\ Tells /\ Shape' /\ step' = "done" /\ open' = {} /\ queue' = <<>>
           /\ \A f \in Values \ {"outcome"} : ledger'[f] = records[f]
<1> DEFINE rest == [l \in Gone(lines) |-> IF CanProbe(spent) THEN "not_isolated" ELSE "budget_exhausted"]
           new == [l \in lines \cap open |-> reason]
           told == Over(new, unresolved)
           all == Over(rest, told)
<1>1. /\ step' = "done" /\ open' = {} /\ queue' = <<>> /\ unresolved' = <<>>
      /\ why' = Over(all, why)
      /\ ledger' = [records EXCEPT !.outcome = Over(all, records.outcome)]
  BY DEF EndsDeletion, Explain
<1>2. \A l \in DOMAIN new : Hidden(l)
  BY DEF ReasonsInv
<1>3. \A l \in DOMAIN rest : Hidden(l)
  BY DEF ReasonsInv, Gone
<1>4. \A l \in DOMAIN unresolved : Hidden(l)
  BY DEF ReasonsInv
<1> HIDE DEF new, rest
<1>5. DOMAIN told = DOMAIN new \cup DOMAIN unresolved
  BY Merging
<1> HIDE DEF told
<1>6. DOMAIN all = DOMAIN rest \cup DOMAIN told
  BY Merging
<1> HIDE DEF all
<1>7. Gives(all)
  BY <1>1, <1>2, <1>3, <1>4, <1>5, <1>6 DEF Gives, Values
<1>8. Shape' /\ \A f \in Values \ {"outcome"} : ledger'[f] = records[f]
  BY <1>1 DEF Shape, Values
<1>9. DOMAIN unresolved' = {}
  BY <1>1
<1> QED  BY <1>1, <1>7, <1>8, <1>9 DEF Tells

LEMMA QuietTells ==
    ASSUME ReasonsInv, UNCHANGED <<why, open, unresolved>>, ledger'.outcome = ledger.outcome
    PROVE  Tells
BY DEF ReasonsInv, Tells

Informed ==
    phase' \in {"BASELINE_COMPLETE", "PROBING"} =>
        \/ phase \in {"BASELINE_COMPLETE", "PROBING"} /\ ledger'.context = ledger.context
        \/ ledger'.context = [f \in Files |-> LineContext(f)]

LEMMA ReasonsKept ==
    ASSUME ReasonsInv, Shape, [ESNext]_esvars, Undrift => anchor \in Files
    PROVE  ReasonsInv' /\ Shape'
<1> DEFINE P == Tells /\ Shape' /\ Informed
<1> USE DEF setting, budget, engine, world, untouched, Ready
<1>1. UNCHANGED esvars => P
  BY QuietTells DEF esvars, Shape, Informed
<1>2. Inspect => P
  BY QuietTells DEF Inspect, After, Fails, Shape, Informed
<1>3. CollectScope => P
  BY QuietTells DEF CollectScope, Fails, Shape, Informed
<1>4. RunBaseline => P
  <2> HAVE RunBaseline
  <2>1. /\ UNCHANGED <<why, open, unresolved>> /\ Only({"context"})
        /\ phase' \in {"FAILED", "BASELINE_COMPLETE"}
        /\ phase' = "BASELINE_COMPLETE" => ledger'.context = [f \in Files |-> LineContext(f)]
    BY DEF RunBaseline, Fails, Shape, Only, Values
  <2> QED  BY <2>1, QuietTells DEF Only, Values, Informed
<1>5. \A f \in Files : StartProbe(f) => P
  <2> TAKE f \in Files
  <2> HAVE StartProbe(f)
  <2>1. CASE f \in NewFiles
    BY <2>1, QuietTells DEF StartProbe, Shape, Informed
  <2>2. CASE f \notin NewFiles
    <3>1. EntersDeletion(f) /\ phase \in {"BASELINE_COMPLETE", "PROBING"}
      BY <2>2 DEF StartProbe
    <3> QED  BY <3>1, EntersTells DEF Only, Values, Informed
  <2> QED  BY <2>1, <2>2
<1>6. DriftScan => P
  <2> HAVE DriftScan
  <2>1. UNCHANGED <<why, open, unresolved, phase>> /\ Only({"git", "unreferenced"})
        /\ phase \in {"BASELINE_COMPLETE", "PROBING"}
    BY DEF DriftScan, Shape, Only, Values
  <2> QED  BY <2>1, QuietTells DEF Only, Values, Informed
<1>7. Undrift => P
  BY EntersTells DEF Undrift, Only, Values, Informed
<1>8. RemoveFile => P
  BY QuietTells DEF RemoveFile, Shape, Informed
<1>9. \A status, vector : FileRestored(status, vector) => P
  <2> TAKE status, vector
  <2> HAVE FileRestored(status, vector)
  <2>1. UNCHANGED <<why, open, unresolved, phase>> /\ Only({"trials"})
        /\ phase \in {"BASELINE_COMPLETE", "PROBING"}
    BY DEF FileRestored, Shape, Only, Values
  <2> QED  BY <2>1, QuietTells DEF Only, Values, Informed
<1>10. SkipNode => P
  BY QuietTells DEF SkipNode, Searching, Shape, Informed
<1>11. StopDeletion => P
  <2> HAVE StopDeletion
  <2>1. EndsDeletion(ledger, used + extra, {}, "none") /\ phase' = phase
        /\ phase \in {"BASELINE_COMPLETE", "PROBING"}
    BY DEF StopDeletion, Searching
  <2> QED  BY <2>1, EndsTells DEF Shape, Values, Informed
<1>12. InvalidNode => P
  <2> HAVE InvalidNode
  <2>1. UNCHANGED <<why, phase>> /\ Only({"trials"}) /\ phase \in {"BASELINE_COMPLETE", "PROBING"}
    BY DEF InvalidNode, MayDelete, Searching, Shape, Only, Values
  <2>2. UNCHANGED <<open, unresolved>> \/ Resolve(Span[Node], "no_valid_transform")
    BY DEF InvalidNode
  <2>3. (\A l \in open' : Hidden(l)) /\ (\A l \in DOMAIN unresolved' : Hidden(l))
    BY <2>2, ResolveTells DEF ReasonsInv
  <2> QED  BY <2>1, <2>3 DEF Only, Values, Informed, Tells
<1>13. DeleteLines => P
  BY QuietTells DEF DeleteLines, MayDelete, Searching, Shape, Informed
<1>14. \A status, vector : LinesRestored(status, vector) => P
  <2> TAKE status, vector
  <2> HAVE LinesRestored(status, vector)
  <2> DEFINE recorded == [ledger EXCEPT !.trials = Recorded("unit", Span[Node], status, vector)]
  <2>1. phase' = phase /\ phase \in {"BASELINE_COMPLETE", "PROBING"}
    BY DEF LinesRestored
  <2>2. DOMAIN recorded = Values /\ \A x \in Values \ {"trials"} : recorded[x] = ledger[x]
    BY DEF Shape, Values
  <2>3. \/ EndsDeletion(recorded, used + 1 + extra, Span[Node], "budget_exhausted")
        \/ ledger' = recorded /\ UNCHANGED <<open, unresolved, why>>
        \/ ledger' = recorded /\ UNCHANGED <<unresolved, why>> /\ open' = Gone(Span[Node])
        \/ ledger' = recorded /\ UNCHANGED why
              /\ Resolve(Span[Node], IF status = "COMPLETE" THEN "not_isolated" ELSE "probe_timeout")
    BY DEF LinesRestored
  <2> HIDE DEF recorded
  <2>4. CASE EndsDeletion(recorded, used + 1 + extra, Span[Node], "budget_exhausted")
    BY <2>1, <2>2, <2>4, EndsTells DEF Informed, Values
  <2>5. CASE ledger' = recorded /\ UNCHANGED <<open, unresolved, why>>
    BY <2>1, <2>2, <2>5, QuietTells DEF Informed, Values, Shape
  <2>6. CASE ledger' = recorded /\ UNCHANGED <<unresolved, why>> /\ open' = Gone(Span[Node])
    BY <2>1, <2>2, <2>6 DEF Informed, Values, Shape, Tells, Gone, ReasonsInv
  <2>7. CASE ledger' = recorded /\ UNCHANGED why
              /\ Resolve(Span[Node], IF status = "COMPLETE" THEN "not_isolated" ELSE "probe_timeout")
    BY <2>1, <2>2, <2>7, ResolveTells DEF Informed, Values, Shape, Tells
  <2> QED  BY <2>3, <2>4, <2>5, <2>6, <2>7
<1>15. \A rerun : Confirm(rerun) => P
  <2> TAKE rerun
  <2> HAVE Confirm(rerun)
  <2>1. UNCHANGED <<why, phase>> /\ phase \in {"BASELINE_COMPLETE", "PROBING"}
    BY DEF Confirm
  <2>2. Only({"reruns", "claims"})
    BY DEF Confirm, Only, Shape, Values
  <2>3. \/ UNCHANGED <<open, unresolved>>
        \/ open' = Gone(Span[Node]) /\ UNCHANGED unresolved
        \/ Resolve(Span[Node], IF rerun = "same" THEN "collateral_breakage" ELSE "flaky_or_dirty_restore")
    BY DEF Confirm
  <2>4. (\A l \in open' : Hidden(l)) /\ (\A l \in DOMAIN unresolved' : Hidden(l))
    BY <2>3, ResolveTells DEF ReasonsInv, Gone
  <2> QED  BY <2>1, <2>2, <2>4 DEF Only, Values, Informed, Tells
<1>16. ConfirmDirty => P
  BY QuietTells DEF ConfirmDirty, RestoreFails, Fails, Shape, Informed
<1>17. TrialDirty => P
  <2> HAVE TrialDirty
  <2>1. UNCHANGED <<why, open, unresolved>> /\ phase' = "FAILED" /\ Only({"trials"})
    BY DEF TrialDirty, RestoreFails, Fails, Shape, Only, Values
  <2> QED  BY <2>1, QuietTells DEF Only, Values, Informed
<1>18. TrialRaises \/ EndProbe \/ RunLate => P
  BY QuietTells DEF TrialRaises, EndProbe, RunLate, Shape, Informed
<1>19. \A m : Minimize(m) => P
  BY QuietTells DEF Minimize, RestoreFails, Fails, Shape, Informed
<1>20. FinishRun => P
  BY QuietTells DEF FinishRun, RestoreFails, Fails, Shape, Informed
<1>21. CleanUp => P
  BY QuietTells DEF CleanUp, Unregistered, Shape, Informed
<1> HIDE DEF P, setting, budget, engine, world, untouched, Ready
<1>22. P
  BY <1>1, <1>2, <1>3, <1>4, <1>5, <1>6, <1>7, <1>8, <1>9, <1>10, <1>11, <1>12, <1>13, <1>14,
     <1>15, <1>16, <1>17, <1>18, <1>19, <1>20, <1>21 DEF ESNext
<1> QED  BY <1>22, TellsKeeps DEF P, Informed

-----------------------------------------------------------------------------
(* What is still to be tried lies apart from what is settled.              *)

SameRecords == UNCHANGED <<units>> /\ ledger'.trials = ledger.trials /\ ledger'.claims = ledger.claims

LEMMA SameRecordsKeep ==
    ASSUME SameRecords
    PROVE  /\ Observed => Observed'
           /\ Once => Once'
           /\ Disjoint => Disjoint'
           /\ Settled' = Settled /\ Trials' = Trials /\ UnitLines' = UnitLines
BY DEF SameRecords, Observed, Once, Disjoint, Settled, Trials, UnitLines, TrialType

(* One more trial.                                                         *)
Adds(t) == t \in TrialType /\ ledger'.trials = Append(ledger.trials, t)

LEMMA Added ==
    ASSUME ledger.trials \in Seq(TrialType), NEW t, Adds(t)
    PROVE  /\ ledger'.trials \in Seq(TrialType)
           /\ Len(ledger'.trials) = Len(ledger.trials) + 1
           /\ \A i \in 1..Len(ledger.trials) : ledger'.trials[i] = ledger.trials[i]
           /\ ledger'.trials[Len(ledger.trials) + 1] = t
           /\ Trials' = Trials \cup {t}
<1>1. /\ ledger'.trials \in Seq(TrialType)
      /\ Len(ledger'.trials) = Len(ledger.trials) + 1
      /\ \A i \in 1..Len(ledger.trials) : ledger'.trials[i] = ledger.trials[i]
      /\ ledger'.trials[Len(ledger.trials) + 1] = t
      /\ Len(ledger.trials) \in Nat
  BY DEF Adds
<1>2. Trials = {ledger.trials[i] : i \in 1..Len(ledger.trials)}
  BY DEF Trials, ToSet
<1>3. Trials' = {ledger'.trials[i] : i \in 1..(Len(ledger.trials) + 1)}
  BY <1>1 DEF Trials, ToSet
<1>4. 1..(Len(ledger.trials) + 1) = 1..Len(ledger.trials) \cup {Len(ledger.trials) + 1}
  BY <1>1
<1> QED  BY <1>1, <1>2, <1>3, <1>4

LEMMA OnceMore ==
    ASSUME ledger.trials \in Seq(TrialType), Once, NEW t, Adds(t),
           \A x \in Trials : x.of # t.of \/ x.lines # t.lines
    PROVE  Once'
<1>1. Len(ledger.trials) \in Nat
  OBVIOUS
<1>2. \A i \in 1..Len(ledger.trials) : ledger.trials[i] \in Trials
  BY DEF Trials, ToSet
<1>3. \A i \in 1..Len(ledger'.trials) : i \in 1..Len(ledger.trials) \/ i = Len(ledger.trials) + 1
  BY <1>1, Added
<1>4. SUFFICES ASSUME NEW i \in 1..Len(ledger'.trials), NEW j \in 1..Len(ledger'.trials), i # j
               PROVE  <<ledger'.trials[i].of, ledger'.trials[i].lines>> #
                          <<ledger'.trials[j].of, ledger'.trials[j].lines>>
  BY DEF Once
<1>5. CASE i \in 1..Len(ledger.trials) /\ j \in 1..Len(ledger.trials)
  BY <1>4, <1>5, Added DEF Once
<1>6. CASE i \in 1..Len(ledger.trials) /\ j = Len(ledger.trials) + 1
  BY <1>2, <1>6, Added
<1>7. CASE j \in 1..Len(ledger.trials) /\ i = Len(ledger.trials) + 1
  BY <1>2, <1>7, Added
<1> QED  BY <1>3, <1>4, <1>5, <1>6, <1>7

LEMMA Still ==
    ASSUME SearchInv, Going' => Going, SameRecords,
           UNCHANGED <<step, anchor, queue, seen, open, completed>>
    PROVE  SearchInv'
<1>1. Observed' /\ Once' /\ Disjoint'
  BY SameRecordsKeep DEF SearchInv
<1>2. Settled' = Settled /\ Trials' = Trials /\ UnitLines' = UnitLines
  BY SameRecordsKeep
<1>3. Awaited' = Awaited /\ Entered' = Entered /\ Node' = Node
  BY DEF Awaited, Entered, Node
<1>4. ASSUME Going' PROVE Located' /\ Searches' /\ Tries'
  <2>1. Located /\ Searches /\ Tries
    BY <1>4 DEF SearchInv
  <2>2. Located'
    BY <1>2, <1>3, <2>1 DEF Located
  <2>3. Searches'
    BY <1>2, <1>3, <2>1 DEF Searches
  <2>4. Tries'
    BY <1>2, <1>3, <2>1 DEF Tries
  <2> QED  BY <2>2, <2>3, <2>4
<1> QED  BY <1>1, <1>4 DEF SearchInv

(* A session that is over keeps what it recorded.                          *)
LEMMA Stopped ==
    ASSUME SearchInv, ~Going', SameRecords
    PROVE  SearchInv'
BY SameRecordsKeep DEF SearchInv

(* Outside of the search the places are all there is to keep.              *)
LEMMA Outside ==
    ASSUME SearchInv, SameRecords, step' \notin {"next", "cut", "check"}, Going' => Located'
    PROVE  SearchInv'
BY SameRecordsKeep DEF SearchInv, Searches, Tries

(* What lies in other files is apart.                                      *)
LEMMA OffTarget ==
    ASSUME completed \subseteq Files, NEW f \in Files \ completed, NEW s, Within(s, completed),
           NEW x, x \subseteq LinesOf[f]
    PROVE  s \cap x = {}
BY SyntaxAssumption DEF Within

LEMMA EntersSearch ==
    ASSUME Observed, Once, Disjoint, Located, NEW f \in Files \ completed, EntersDeletion(f),
           SameRecords, anchor' = f, completed' = completed, Entered = completed,
           \A t \in Trials : t.of # "unit" => t.of \in completed \cup {f}
    PROVE  SearchInv'
<1>1. Observed' /\ Once' /\ Disjoint'
  BY SameRecordsKeep
<1>2. Settled' = Settled /\ Trials' = Trials
  BY SameRecordsKeep
<1>3. step' \in {"done", "next"} /\ seen' = {} /\ open' \subseteq LinesOf[f]
      /\ (step' = "next" => queue' = Roots[f])
  BY DEF EntersDeletion, NotIsolated
<1>4. \A s \in Settled : s # {} /\ Within(s, completed)
  BY DEF Located
<1>5. \A t \in Trials : t.of = "unit" => t.lines # {} /\ Within(t.lines, completed)
  BY DEF Located
<1>6. \A s : Within(s, completed) => Within(s, completed \cup {f})
  BY DEF Within
<1>7. Entered' = completed \cup {f}
  BY <1>3 DEF Entered
<1>8. Located'
  BY <1>2, <1>3, <1>4, <1>5, <1>6, <1>7 DEF Located, Busy, Within
<1>9. ASSUME step' = "next" PROVE Searches'
  <2>1. queue' \in Seq(Nodes) /\ queue' = Roots[f]
    BY <1>3, <1>9, EvidenceAssumption
  <2>2. \A a \in ToSet(queue)' : \E i \in 1..Len(Roots[f]) : a = Roots[f][i]
    BY <2>1 DEF ToSet
  <2>3. \A a \in ToSet(queue)' : Span[a] \subseteq LinesOf[f]
    BY <2>2, SyntaxAssumption
  <2>4. \A a \in ToSet(queue)' : \A b \in ToSet(queue)' : Apart(a, b)
    BY <2>2 DEF Apart, StatementsApart
  <2>5. Awaited' \subseteq ToSet(queue)'
    BY DEF Awaited
  <2>6. \A s \in Settled : s \cap open' = {}
    BY <1>3, <1>4, OffTarget DEF Located
  <2>7. \A s \in Settled : \A a \in Awaited' : Off(s, Span[a])
    BY <1>4, <2>3, <2>5, OffTarget DEF Located, Off
  <2> QED  BY <1>2, <1>3, <1>5, <2>1, <2>3, <2>4, <2>5, <2>6, <2>7 DEF Searches, Within, Apart, Off
<1>10. Searches' /\ Tries'
  BY <1>3, <1>9 DEF Searches, Tries
<1> QED  BY <1>1, <1>8, <1>10 DEF SearchInv

(* The search goes on: some of what waited still waits, apart from the     *)
(* node that was cut, and its parts may be tried next.                     *)
Goes(lines) ==
    /\ queue' \in Seq(Nodes) /\ open' \subseteq open
    /\ lines # {} /\ lines \subseteq LinesOf[anchor] /\ lines \in seen' /\ seen \subseteq seen'
    /\ \A a \in ToSet(queue)' : a \in ToSet(queue) \/ Span[a] \subseteq lines
    /\ \A a \in Awaited' : (a \in Awaited /\ Off(Span[a], lines)) \/ Span[a] \subseteq lines
    /\ \A a \in Awaited' : \A b \in Awaited' :
          Span[a] \subseteq lines /\ Span[b] \subseteq lines => Apart(a, b)
    /\ \A s \in Settled : Off(s, lines)
    /\ \A s \in Settled' : s \in Settled \/
          (s = lines /\ lines \cap open' = {} /\ \A a \in Awaited' : Off(Span[a], lines))
    /\ \A t \in Trials' : t \in Trials \/ (t.of = "unit" /\ t.lines = lines)

LEMMA SearchOn ==
    ASSUME Located, Searches, step \in {"next", "cut", "check"}, step' = "next",
           UNCHANGED <<anchor, completed>>, NEW lines, Goes(lines)
    PROVE  Located' /\ Searches' /\ Tries'
<1> USE DEF Goes
<1>1. Entered = completed \cup {anchor} /\ Entered' = Entered /\ anchor \in Files \ completed
  BY DEF Entered, Located, Busy
<1>2. Within(lines, Entered)
  BY <1>1 DEF Within
<1>3. Located'
  <2>1. \A t \in Trials' : IF t.of = "unit" THEN t.lines # {} /\ Within(t.lines, Entered)
                           ELSE t.of \in completed \cup {anchor}
    BY <1>2 DEF Located
  <2>2. \A s \in Settled' : s # {} /\ Within(s, Entered)
    BY <1>2 DEF Located
  <2>3. completed \subseteq Files
    BY DEF Located
  <2> QED  BY <1>1, <2>1, <2>2, <2>3 DEF Located, Within
<1>4. Searches'
  <2>1. \A a \in ToSet(queue)' : Span[a] \subseteq LinesOf[anchor]
    BY DEF Searches
  <2>2. \A t \in Trials' : t.of = "unit" => t.lines \in seen' \/ Within(t.lines, completed)
    BY DEF Searches
  <2>3. \A s \in Settled' : s \cap open' = {}
    BY DEF Searches
  <2>4. \A a \in Awaited' : \A b \in Awaited' : Apart(a, b)
    <3> SUFFICES ASSUME NEW a \in Awaited', NEW b \in Awaited' PROVE Apart(a, b)
      OBVIOUS
    <3>1. CASE Span[a] \subseteq lines /\ Span[b] \subseteq lines
      BY <3>1
    <3>2. CASE a \in Awaited /\ b \in Awaited
      BY <3>2 DEF Searches
    <3>3. CASE Off(Span[a], lines) /\ Span[b] \subseteq lines
      BY <3>3 DEF Apart, Separate, Off
    <3>4. CASE Off(Span[b], lines) /\ Span[a] \subseteq lines
      BY <3>4 DEF Apart, Separate, Off
    <3> QED  BY <3>1, <3>2, <3>3, <3>4
  <2>5. \A s \in Settled' : \A a \in Awaited' : Off(s, Span[a])
    <3> SUFFICES ASSUME NEW s \in Settled', NEW a \in Awaited' PROVE Off(s, Span[a])
      OBVIOUS
    <3>1. CASE s \in Settled /\ a \in Awaited
      BY <3>1 DEF Searches
    <3>2. CASE s \in Settled /\ Span[a] \subseteq lines
      BY <3>2 DEF Off
    <3>3. CASE s = lines /\ \A b \in Awaited' : Off(Span[b], lines)
      BY <3>3 DEF Off
    <3> QED  BY <3>1, <3>2, <3>3
  <2> QED  BY <2>1, <2>2, <2>3, <2>4, <2>5 DEF Searches, Within, Apart, Separate, Off
<1> QED  BY <1>3, <1>4 DEF Tries

(* The node at the head of the queue.                                      *)
LEMMA HeadOf ==
    ASSUME queue \in Seq(Nodes), queue # <<>>
    PROVE  /\ Node \in ToSet(queue) /\ Node \in Nodes /\ Span[Node] \subseteq Lines
           /\ Tail(queue) \in Seq(Nodes) /\ ToSet(Tail(queue)) \subseteq ToSet(queue)
           /\ Kids[Node] \in Seq(Nodes)
<1>1. Len(queue) \in Nat /\ Len(queue) >= 1
  OBVIOUS
<1>2. Node = queue[1] /\ 1 \in DOMAIN queue
  BY <1>1 DEF Node
<1>3. Tail(queue) \in Seq(Nodes) /\ Len(Tail(queue)) = Len(queue) - 1
      /\ \A i \in 1..Len(Tail(queue)) : Tail(queue)[i] = queue[i + 1]
  BY <1>1
<1>4. \A a \in ToSet(Tail(queue)) : a \in ToSet(queue)
  BY <1>1, <1>3 DEF ToSet
<1>5. Node \in Nodes /\ Node \in ToSet(queue)
  BY <1>1, <1>2 DEF ToSet
<1> HIDE DEF Node
<1>6. Span[Node] \subseteq Lines /\ Kids[Node] \in Seq(Nodes)
  BY <1>5, EvidenceAssumption
<1> QED  BY <1>3, <1>4, <1>5, <1>6

LEMMA PartsOf ==
    ASSUME NEW m \in Nodes
    PROVE  /\ \A a \in ToSet(Kids[m]) : Span[a] \subseteq Span[m]
           /\ \A a, b \in ToSet(Kids[m]) : Apart(a, b)
<1>1. Kids[m] \in Seq(Nodes)
  BY EvidenceAssumption
<1>2. \A a \in ToSet(Kids[m]) : \E i \in 1..Len(Kids[m]) : a = Kids[m][i]
  BY <1>1 DEF ToSet
<1> QED  BY <1>2, SyntaxAssumption DEF Apart, StatementsApart

LEMMA Joined ==
    ASSUME NEW s \in Seq(Nodes), NEW t \in Seq(Nodes)
    PROVE  s \o t \in Seq(Nodes) /\ \A a \in ToSet(s \o t) : a \in ToSet(s) \/ a \in ToSet(t)
<1>1. s \o t \in Seq(Nodes) /\ Len(s \o t) = Len(s) + Len(t) /\ Len(s) \in Nat /\ Len(t) \in Nat
  OBVIOUS
<1>2. ASSUME NEW i \in 1..Len(s \o t)
      PROVE  (s \o t)[i] \in ToSet(s) \/ (s \o t)[i] \in ToSet(t)
  <2>1. CASE i <= Len(s)
    BY <1>1, <2>1 DEF ToSet
  <2>2. CASE i > Len(s)
    <3>1. i - Len(s) \in 1..Len(t) /\ (s \o t)[i] = t[i - Len(s)]
      BY <1>1, <2>2
    <3> QED  BY <3>1 DEF ToSet
  <2> QED  BY <1>1, <2>1, <2>2
<1> QED  BY <1>1, <1>2 DEF ToSet

(* A node worth a trial was in none before.                                *)
LEMMA Untried ==
    ASSUME Located, Searches, step = "next", queue # <<>>, Worthwhile
    PROVE  /\ Span[Node] # {} /\ Span[Node] \subseteq LinesOf[anchor] /\ Node \in Awaited
           /\ Span[Node] \notin UnitLines
           /\ \A a \in Awaited : Span[a] # Span[Node] => Off(Span[a], Span[Node])
           /\ \A s \in Settled : Off(s, Span[Node])
<1>1. queue \in Seq(Nodes) /\ Node \in ToSet(queue) /\ Span[Node] \subseteq LinesOf[anchor]
  BY HeadOf DEF Searches
<1>2. Node \in Awaited /\ Span[Node] # {}
  BY <1>1 DEF Worthwhile, Awaited
<1>3. Span[Node] \notin UnitLines
  <2>1. SUFFICES ASSUME NEW t \in Trials, t.of = "unit", t.lines = Span[Node] PROVE FALSE
    BY DEF UnitLines
  <2>2. Within(Span[Node], completed)
    BY <2>1 DEF Searches, Worthwhile
  <2>3. Span[Node] \cap Span[Node] = {}
    BY <1>1, <2>2, OffTarget DEF Located, Busy
  <2> QED  BY <1>2, <2>3
<1>4. \A a \in Awaited : Span[a] # Span[Node] => Off(Span[a], Span[Node])
  BY <1>2 DEF Searches, Apart, Separate, Off
<1>5. \A s \in Settled : Off(s, Span[Node])
  BY <1>2 DEF Searches
<1> QED  BY <1>1, <1>2, <1>3, <1>4, <1>5

LEMMA SkipKeeps == ASSUME SearchInv, SkipNode PROVE SearchInv'
<1> USE DEF world, engine, setting
<1>1. /\ step = "next" /\ step' = "next" /\ queue # <<>> /\ queue' = Tail(queue)
      /\ UNCHANGED <<anchor, completed, seen, open, units, ledger, phase, raised>> /\ Going
  BY DEF SkipNode, Searching, Ready, Going
<1>2. Located /\ Searches /\ SameRecords
  BY <1>1 DEF SearchInv, SameRecords
<1>3. Observed' /\ Once' /\ Disjoint' /\ Settled' = Settled /\ Trials' = Trials
  BY <1>2, SameRecordsKeep DEF SearchInv
<1>4. Tail(queue) \in Seq(Nodes) /\ ToSet(queue)' \subseteq ToSet(queue)
  BY <1>1, <1>2, HeadOf DEF Searches
<1>5. Awaited' \subseteq Awaited
  BY <1>1, <1>4 DEF Awaited
<1>6. Located'
  BY <1>1, <1>2, <1>3 DEF Located, Entered
<1>7. Searches'
  BY <1>1, <1>2, <1>3, <1>4, <1>5 DEF Searches
<1> QED  BY <1>1, <1>3, <1>6, <1>7 DEF SearchInv, Tries

LEMMA StopKeeps == ASSUME SearchInv, Shape, ReasonsInv, StopDeletion PROVE SearchInv'
<1> USE DEF world, setting
<1>1. /\ step = "next" /\ EndsDeletion(ledger, used + extra, {}, "none") /\ Going
      /\ UNCHANGED <<anchor, completed, units, phase, raised>>
  BY DEF StopDeletion, Searching, Ready, Going
<1>2. step' = "done" /\ SameRecords
  BY <1>1, EndsTells DEF Shape, SameRecords, Values
<1>3. Located /\ Settled' = Settled /\ Trials' = Trials
  BY <1>1, <1>2, SameRecordsKeep DEF SearchInv
<1>4. Located'
  BY <1>1, <1>2, <1>3 DEF Located, Entered, Busy
<1> QED  BY <1>2, <1>4, Outside

LEMMA InvalidKeeps == ASSUME SearchInv, Shape, InvalidNode PROVE SearchInv'
<1> USE DEF world
<1> DEFINE lines == Span[Node]
           t == [of |-> "unit", lines |-> Span[Node], status |-> "INVALID", vector |-> "none"]
<1>1. /\ step = "next" /\ step' = "next" /\ queue # <<>> /\ Worthwhile /\ Going
      /\ UNCHANGED <<anchor, completed, units, phase, raised>>
      /\ seen' = seen \cup {lines} /\ queue' = Kids[Node] \o Tail(queue)
  BY DEF InvalidNode, MayDelete, Searching, Ready, Going
<1>2. open' \subseteq open
  BY DEF InvalidNode, Resolve, Gone
<1>3. ledger'.trials = Append(ledger.trials, t) /\ ledger'.claims = ledger.claims
  BY DEF InvalidNode, Recorded, Shape, Values
<1>4. Located /\ Searches /\ queue \in Seq(Nodes)
  BY <1>1 DEF SearchInv, Searches
<1>5. /\ lines # {} /\ lines \subseteq LinesOf[anchor] /\ Node \in Awaited /\ lines \notin UnitLines
      /\ \A a \in Awaited : Span[a] # lines => Off(Span[a], lines)
      /\ \A s \in Settled : Off(s, lines)
  BY <1>1, <1>4, Untried
<1>6. /\ Node \in Nodes /\ Tail(queue) \in Seq(Nodes) /\ Kids[Node] \in Seq(Nodes)
      /\ ToSet(Tail(queue)) \subseteq ToSet(queue) /\ lines \subseteq Lines
  BY <1>1, <1>4, HeadOf
<1>7. /\ \A a \in ToSet(Kids[Node]) : Span[a] \subseteq lines
      /\ \A a, b \in ToSet(Kids[Node]) : Apart(a, b)
  BY <1>6, PartsOf
<1>8. queue' \in Seq(Nodes) /\ \A a \in ToSet(queue)' : a \in ToSet(Kids[Node]) \/ a \in ToSet(queue)
  BY <1>1, <1>6, Joined
<1>9. Adds(t)
  BY <1>3, <1>6 DEF Adds, TrialType
<1>10. t.of = "unit" /\ t.lines = lines
  OBVIOUS
<1> HIDE DEF lines, t
<1>11. /\ Trials' = Trials \cup {t} /\ Observed' /\ Once'
  BY <1>3, <1>5, <1>9, <1>10, Added, OnceMore DEF SearchInv, Observed, UnitLines, TrialType
<1>12. Disjoint' /\ Settled' = Settled
  BY <1>1, <1>3 DEF SearchInv, Disjoint, Settled
<1>13. \A a \in Awaited' : a \in ToSet(Kids[Node]) \/ (a \in Awaited /\ Span[a] # lines)
  BY <1>1, <1>8 DEF Awaited
<1>14. \A a \in Awaited' : \/ a \in ToSet(Kids[Node]) /\ Span[a] \subseteq lines
                           \/ a \in Awaited /\ Off(Span[a], lines)
  BY <1>5, <1>7, <1>13
<1>15. ASSUME NEW a \in Awaited', NEW b \in Awaited', Span[a] \subseteq lines, Span[b] \subseteq lines
       PROVE  Apart(a, b)
  <2>1. CASE a \in ToSet(Kids[Node]) /\ b \in ToSet(Kids[Node])
    BY <1>7, <2>1
  <2>2. CASE Off(Span[a], lines) \/ Off(Span[b], lines)
    BY <1>15, <2>2 DEF Apart, Separate, Off
  <2> QED  BY <1>14, <2>1, <2>2
<1>16. Goes(lines)
  <2>1. queue' \in Seq(Nodes) /\ open' \subseteq open
    BY <1>2, <1>8
  <2>2. lines # {} /\ lines \subseteq LinesOf[anchor] /\ lines \in seen' /\ seen \subseteq seen'
    BY <1>1, <1>5
  <2>3. \A a \in ToSet(queue)' : a \in ToSet(queue) \/ Span[a] \subseteq lines
    BY <1>7, <1>8
  <2>4. \A a \in Awaited' : (a \in Awaited /\ Off(Span[a], lines)) \/ Span[a] \subseteq lines
    BY <1>14
  <2>5. \A a \in Awaited' : \A b \in Awaited' :
            Span[a] \subseteq lines /\ Span[b] \subseteq lines => Apart(a, b)
    BY <1>15
  <2>6. \A s \in Settled : Off(s, lines)
    BY <1>5
  <2>7. \A s \in Settled' : s \in Settled
    BY <1>12
  <2>8. \A x \in Trials' : x \in Trials \/ (x.of = "unit" /\ x.lines = lines)
    BY <1>10, <1>11
  <2> QED  BY <2>1, <2>2, <2>3, <2>4, <2>5, <2>6, <2>7, <2>8 DEF Goes
<1>17. Located' /\ Searches' /\ Tries'
  BY <1>1, <1>4, <1>16, SearchOn
<1> QED  BY <1>11, <1>12, <1>17 DEF SearchInv

LEMMA DeleteKeeps == ASSUME SearchInv, DeleteLines PROVE SearchInv'
<1> USE DEF world
<1>1. /\ step = "next" /\ step' = "cut" /\ queue # <<>> /\ Worthwhile /\ Going
      /\ UNCHANGED <<anchor, completed, units, phase, raised, ledger, queue, open>>
      /\ seen' = seen \cup {Span[Node]}
  BY DEF DeleteLines, MayDelete, Searching, Ready, Going
<1>2. Located /\ Searches /\ SameRecords
  BY <1>1 DEF SearchInv, SameRecords
<1>3. Observed' /\ Once' /\ Disjoint' /\ Settled' = Settled /\ Trials' = Trials /\ UnitLines' = UnitLines
  BY <1>2, SameRecordsKeep DEF SearchInv
<1>4. /\ Span[Node] \notin UnitLines
      /\ \A a \in Awaited : Span[a] # Span[Node] => Off(Span[a], Span[Node])
      /\ \A s \in Settled : Off(s, Span[Node])
  BY <1>1, <1>2, Untried
<1>5. Awaited' = {a \in Awaited : Span[a] # Span[Node]} /\ Node' = Node
  BY <1>1 DEF Awaited, Node
<1>6. Located'
  BY <1>1, <1>2, <1>3 DEF Located, Entered, Busy
<1>7. Searches'
  BY <1>1, <1>2, <1>3, <1>5 DEF Searches
<1>8. Tries'
  BY <1>1, <1>3, <1>4, <1>5 DEF Tries, Worthwhile
<1> QED  BY <1>3, <1>6, <1>7, <1>8 DEF SearchInv

LEMMA LinesKeep ==
    ASSUME SearchInv, Shape, ReasonsInv, NEW status \in {"COMPLETE", "TIMEOUT"},
           NEW vector \in {"none", "same", "shifted", "weak", "strong"}, LinesRestored(status, vector)
    PROVE  SearchInv'
<1> USE DEF world
<1> DEFINE lines == Span[Node]
           t == [of |-> "unit", lines |-> Span[Node], status |-> status, vector |-> vector]
           recorded == [ledger EXCEPT !.trials = Recorded("unit", Span[Node], status, vector)]
           inert == [verdict |-> "INERT", lines |-> Span[Node]]
           reason == IF status = "COMPLETE" THEN "not_isolated" ELSE "probe_timeout"
<1>1. /\ step = "cut" /\ Going
      /\ UNCHANGED <<anchor, completed, phase, raised>>
      /\ \/ EndsDeletion(recorded, used + 1 + extra, lines, "budget_exhausted") /\ UNCHANGED units
         \/ /\ step' = "check" /\ ledger' = recorded
            /\ UNCHANGED <<queue, seen, open, units>>
         \/ /\ step' = "next" /\ queue' = Tail(queue) /\ ledger' = recorded /\ UNCHANGED seen
            /\ \/ open' = Gone(lines) /\ units' = units \cup {inert}
               \/ Resolve(lines, reason) /\ UNCHANGED units
  BY DEF LinesRestored, Ready, Going
<1>2. DOMAIN recorded = Values /\ recorded.trials = Append(ledger.trials, t)
      /\ \A x \in Values \ {"trials"} : recorded[x] = ledger[x]
  BY DEF Shape, Values, Recorded
<1>3. /\ Located /\ Searches /\ Tries /\ queue \in Seq(Nodes) /\ queue # <<>>
      /\ Once /\ Disjoint /\ Observed
  BY <1>1 DEF SearchInv, Searches, Tries
<1>4. /\ Node \in Nodes /\ Tail(queue) \in Seq(Nodes) /\ ToSet(Tail(queue)) \subseteq ToSet(queue)
      /\ lines \subseteq Lines /\ lines \subseteq LinesOf[anchor]
  BY <1>1, <1>3, HeadOf DEF Searches
<1>5. t.of = "unit" /\ t.lines = lines /\ t \in TrialType /\ inert.verdict = "INERT" /\ inert.lines = lines
  BY <1>4 DEF TrialType
<1>6. /\ lines \in seen /\ lines # {} /\ lines \notin UnitLines
      /\ \A a \in Awaited : Off(Span[a], lines)
      /\ \A s \in Settled : Off(s, lines)
  BY <1>1, <1>3 DEF Tries
<1> HIDE DEF recorded, t, lines, inert, reason
<1>7. ledger'.trials = Append(ledger.trials, t) /\ ledger'.claims = ledger.claims
  <2>1. ASSUME EndsDeletion(recorded, used + 1 + extra, lines, "budget_exhausted")
        PROVE  ledger'.trials = recorded.trials /\ ledger'.claims = recorded.claims
    BY <1>2, <2>1, EndsTells DEF Values
  <2> QED  BY <1>1, <1>2, <2>1 DEF Values
<1>8. Trials' = Trials \cup {t} /\ Observed' /\ Once'
  BY <1>3, <1>5, <1>6, <1>7, Added, OnceMore DEF Observed, UnitLines, Adds, TrialType
<1>9. UNCHANGED units => Disjoint' /\ Settled' = Settled
  BY <1>3, <1>7 DEF Disjoint, Settled
<1>10. anchor \in Files \ completed /\ Entered = completed \cup {anchor} /\ Within(lines, Entered)
  BY <1>1, <1>3, <1>4 DEF Located, Busy, Entered, Within
<1>11. ASSUME UNCHANGED units, step' \in {"done", "check"} PROVE Located'
  <2>1. Entered' = Entered /\ Settled' = Settled
    BY <1>1, <1>9, <1>10, <1>11 DEF Entered
  <2> QED  BY <1>1, <1>3, <1>5, <1>6, <1>8, <1>10, <1>11, <2>1 DEF Located, Busy, Within
<1>12. CASE EndsDeletion(recorded, used + 1 + extra, lines, "budget_exhausted") /\ UNCHANGED units
  <2>1. step' = "done"
    BY <1>12 DEF EndsDeletion
  <2> QED  BY <1>8, <1>9, <1>11, <1>12, <2>1 DEF SearchInv, Searches, Tries
<1>13. CASE step' = "check" /\ UNCHANGED <<queue, seen, open, units>>
  <2>1. Awaited' = Awaited /\ Node' = Node /\ Settled' = Settled
    BY <1>9, <1>13 DEF Awaited, Node
  <2>2. Searches'
    BY <1>1, <1>3, <1>5, <1>6, <1>8, <1>13, <2>1 DEF Searches
  <2>3. Tries'
    BY <1>1, <1>3, <1>13, <2>1 DEF Tries
  <2> QED  BY <1>8, <1>9, <1>11, <1>13, <2>2, <2>3 DEF SearchInv
<1>14. ASSUME step' = "next", queue' = Tail(queue), UNCHANGED seen, open' = open \ lines,
              \A s \in Settled' : s \in Settled \/ s = lines
       PROVE  Located' /\ Searches' /\ Tries'
  <2>1. Awaited' \subseteq Awaited
    BY <1>4, <1>14 DEF Awaited
  <2>2. Goes(lines)
    <3>1. queue' \in Seq(Nodes) /\ open' \subseteq open /\ ToSet(queue)' \subseteq ToSet(queue)
      BY <1>4, <1>14
    <3>2. lines # {} /\ lines \subseteq LinesOf[anchor] /\ lines \in seen' /\ seen \subseteq seen'
      BY <1>4, <1>6, <1>14
    <3>3. \A a \in Awaited' : a \in Awaited /\ Off(Span[a], lines)
      BY <1>6, <2>1
    <3>4. \A a \in Awaited' : \A b \in Awaited' :
              Span[a] \subseteq lines /\ Span[b] \subseteq lines => Apart(a, b)
      BY <3>3 DEF Apart, Separate, Off
    <3>5. lines \cap open' = {}
      BY <1>14
    <3>6. \A x \in Trials' : x \in Trials \/ (x.of = "unit" /\ x.lines = lines)
      BY <1>5, <1>8
    <3>7. \A s \in Settled' : s \in Settled \/
              (s = lines /\ lines \cap open' = {} /\ \A a \in Awaited' : Off(Span[a], lines))
      BY <1>14, <3>3, <3>5
    <3> QED  BY <1>6, <3>1, <3>2, <3>3, <3>4, <3>6, <3>7 DEF Goes
  <2>3. Located /\ Searches /\ step \in {"next", "cut", "check"} /\ UNCHANGED <<anchor, completed>>
    BY <1>1, <1>3
  <2> QED  BY <1>14, <2>2, <2>3, SearchOn
<1>15. CASE step' = "next" /\ queue' = Tail(queue) /\ UNCHANGED seen /\ open' = Gone(lines)
            /\ units' = units \cup {inert}
  <2>1. \A s \in Settled' : s \in Settled \/ s = lines
    BY <1>5, <1>7, <1>15 DEF Settled
  <2>2. \A k \in ledger.claims : Span[k] \in Settled
    BY DEF Settled
  <2>3. Disjoint'
    BY <1>3, <1>5, <1>6, <1>7, <1>15, <2>2 DEF Disjoint
  <2> QED  BY <1>8, <1>14, <1>15, <2>1, <2>3 DEF SearchInv, Gone
<1>16. CASE step' = "next" /\ queue' = Tail(queue) /\ UNCHANGED <<seen, units>> /\ Resolve(lines, reason)
  BY <1>8, <1>9, <1>14, <1>16 DEF SearchInv, Gone, Resolve
<1> QED  BY <1>1, <1>12, <1>13, <1>15, <1>16

LEMMA ConfirmKeeps ==
    ASSUME SearchInv, Shape, NEW rerun, Confirm(rerun)
    PROVE  SearchInv'
<1> USE DEF world
<1> DEFINE lines == Span[Node]
           again == [ledger EXCEPT !.reruns = Over([m \in {Node} |-> rerun], @)]
           signed == [verdict |-> "LOAD_BEARING", lines |-> Span[Node]]
           reason == IF rerun = "same" THEN "collateral_breakage" ELSE "flaky_or_dirty_restore"
<1>1. /\ step = "check" /\ step' = "next" /\ Going
      /\ UNCHANGED <<anchor, completed, phase, raised, seen>>
      /\ \/ queue' = Kids[Node] \o Tail(queue) /\ ledger' = again /\ UNCHANGED <<open, units>>
         \/ queue' = <<>> \o Tail(queue) /\ ledger' = [again EXCEPT !.claims = @ \cup {Node}]
            /\ units' = units \cup {signed} /\ open' = Gone(lines)
         \/ queue' = <<>> \o Tail(queue) /\ ledger' = again /\ UNCHANGED units /\ Resolve(lines, reason)
  BY DEF Confirm, Ready, Going
<1>2. /\ again.trials = ledger.trials /\ again.claims = ledger.claims
      /\ [again EXCEPT !.claims = @ \cup {Node}].trials = ledger.trials
      /\ [again EXCEPT !.claims = @ \cup {Node}].claims = ledger.claims \cup {Node}
  BY DEF Shape, Values
<1>3. /\ Located /\ Searches /\ Tries /\ queue \in Seq(Nodes) /\ queue # <<>>
      /\ Once /\ Disjoint /\ Observed
  BY <1>1 DEF SearchInv, Searches, Tries
<1>4. /\ Node \in Nodes /\ Tail(queue) \in Seq(Nodes) /\ ToSet(Tail(queue)) \subseteq ToSet(queue)
      /\ Kids[Node] \in Seq(Nodes) /\ lines \subseteq LinesOf[anchor]
  BY <1>1, <1>3, HeadOf DEF Searches
<1>5. /\ \A a \in ToSet(Kids[Node]) : Span[a] \subseteq lines
      /\ \A a, b \in ToSet(Kids[Node]) : Apart(a, b)
  BY <1>4, PartsOf
<1>6. signed.verdict = "LOAD_BEARING"
  OBVIOUS
<1>7. /\ lines \in seen /\ lines # {}
      /\ \A a \in Awaited : Off(Span[a], lines)
      /\ \A s \in Settled : Off(s, lines)
  BY <1>1, <1>3 DEF Tries
<1> HIDE DEF again, lines, signed, reason
<1>8. ledger'.trials = ledger.trials /\ Trials' = Trials /\ Once'
  BY <1>1, <1>2, <1>3 DEF Trials, Once
<1>9. UNCHANGED units /\ ledger'.claims = ledger.claims => Observed' /\ Disjoint' /\ Settled' = Settled
  BY <1>3, <1>8 DEF Observed, Disjoint, Settled, TrialType
<1>10. ASSUME NEW parts \in Seq(Nodes), queue' = parts \o Tail(queue),
              \A a \in ToSet(parts) : a \in ToSet(Kids[Node]),
              open' \subseteq open,
              \A s \in Settled' : s \in Settled \/ (s = lines /\ ToSet(parts) = {} /\ lines \cap open' = {})
       PROVE  Located' /\ Searches' /\ Tries'
  <2>1. queue' \in Seq(Nodes)
        /\ \A a \in ToSet(queue)' : a \in ToSet(parts) \/ a \in ToSet(Tail(queue))
    BY <1>4, <1>10, Joined
  <2>2. \A a \in Awaited' : \/ a \in ToSet(parts) /\ a \in ToSet(Kids[Node]) /\ Span[a] \subseteq lines
                            \/ a \in Awaited /\ Off(Span[a], lines)
    BY <1>1, <1>4, <1>5, <1>7, <1>10, <2>1 DEF Awaited
  <2>3. \A a \in ToSet(queue)' : a \in ToSet(queue) \/ Span[a] \subseteq lines
    BY <1>4, <1>5, <1>10, <2>1
  <2>4. ASSUME NEW a \in Awaited', NEW b \in Awaited', Span[a] \subseteq lines, Span[b] \subseteq lines
        PROVE  Apart(a, b)
    <3>1. CASE a \in ToSet(Kids[Node]) /\ b \in ToSet(Kids[Node])
      BY <1>5, <3>1
    <3>2. CASE Off(Span[a], lines) \/ Off(Span[b], lines)
      BY <2>4, <3>2 DEF Apart, Separate, Off
    <3> QED  BY <2>2, <3>1, <3>2
  <2>5. \A s \in Settled' : s \in Settled \/
            (s = lines /\ lines \cap open' = {} /\ \A a \in Awaited' : Off(Span[a], lines))
    BY <1>10, <2>2
  <2>6. \A a \in Awaited' : (a \in Awaited /\ Off(Span[a], lines)) \/ Span[a] \subseteq lines
    BY <2>2
  <2>7. lines # {} /\ lines \subseteq LinesOf[anchor] /\ lines \in seen' /\ seen \subseteq seen'
    BY <1>1, <1>4, <1>7
  <2>8. \A x \in Trials' : x \in Trials
    BY <1>8
  <2>9. Goes(lines)
    BY <1>7, <1>10, <2>1, <2>3, <2>4, <2>5, <2>6, <2>7, <2>8 DEF Goes
  <2>10. Located /\ Searches /\ step \in {"next", "cut", "check"} /\ UNCHANGED <<anchor, completed>>
         /\ step' = "next"
    BY <1>1, <1>3
  <2> QED  BY <2>9, <2>10, SearchOn
<1>11. <<>> \in Seq(Nodes) /\ ToSet(<<>>) = {}
  BY DEF ToSet
<1>12. CASE queue' = Kids[Node] \o Tail(queue) /\ ledger' = again /\ UNCHANGED <<open, units>>
  <2>1. Observed' /\ Disjoint' /\ Settled' = Settled
    BY <1>2, <1>9, <1>12
  <2>2. Located' /\ Searches' /\ Tries'
    BY <1>4, <1>10, <1>12, <2>1
  <2> QED  BY <1>8, <2>1, <2>2 DEF SearchInv
<1>13. CASE queue' = <<>> \o Tail(queue) /\ ledger' = [again EXCEPT !.claims = @ \cup {Node}]
            /\ units' = units \cup {signed} /\ open' = Gone(lines)
  <2>1. ledger'.claims = ledger.claims \cup {Node}
    BY <1>2, <1>13
  <2>2. Observed'
    BY <1>3, <1>4, <1>8, <2>1 DEF Observed, TrialType
  <2>3. \A s \in Settled' : s \in Settled \/ s = lines
    BY <1>6, <1>13, <2>1 DEF Settled, lines
  <2>4. \A u \in units : u.verdict = "INERT" => u.lines \in Settled
    BY DEF Settled
  <2>5. Disjoint'
    BY <1>3, <1>6, <1>7, <1>13, <2>1, <2>4 DEF Disjoint, Off, lines
  <2>6. Located' /\ Searches' /\ Tries'
    BY <1>10, <1>11, <1>13, <2>3 DEF Gone
  <2> QED  BY <1>8, <2>2, <2>5, <2>6 DEF SearchInv
<1>14. CASE queue' = <<>> \o Tail(queue) /\ ledger' = again /\ UNCHANGED units /\ Resolve(lines, reason)
  <2>1. Observed' /\ Disjoint' /\ Settled' = Settled
    BY <1>2, <1>9, <1>14
  <2>2. Located' /\ Searches' /\ Tries'
    BY <1>10, <1>11, <1>14, <2>1 DEF Gone, Resolve
  <2> QED  BY <1>8, <2>1, <2>2 DEF SearchInv
<1> QED  BY <1>1, <1>12, <1>13, <1>14

LEMMA StartKeeps == ASSUME SearchInv, Shape, NEW f \in Files, StartProbe(f) PROVE SearchInv'
<1>1. /\ step = "idle" /\ f \in Files \ completed /\ anchor' = f /\ Going
      /\ UNCHANGED <<completed, units, raised>> /\ Going'
      /\ \/ step' = "drift" /\ UNCHANGED <<ledger>>
         \/ EntersDeletion(f)
  BY DEF StartProbe, Ready, Going, engine
<1>2. Located /\ Entered = completed /\ Observed /\ Once /\ Disjoint
  BY <1>1 DEF SearchInv, Entered
<1>3. CASE step' = "drift" /\ UNCHANGED <<ledger>>
  <2>1. SameRecords
    BY <1>1, <1>3 DEF SameRecords
  <2>2. Settled' = Settled /\ Trials' = Trials /\ Entered' = completed
    BY <1>1, <1>3, <2>1, SameRecordsKeep DEF Entered
  <2>3. Located'
    BY <1>1, <1>2, <1>3, <2>2 DEF Located, Busy
  <2> QED  BY <1>3, <2>1, <2>3, Outside
<1>4. CASE EntersDeletion(f)
  <2>1. SameRecords
    BY <1>1, <1>4 DEF EntersDeletion, SameRecords, Shape, Values
  <2>2. \A t \in Trials : t.of # "unit" => t.of \in completed \cup {f}
    BY <1>1, <1>2 DEF Located
  <2> QED  BY <1>1, <1>2, <1>4, <2>1, <2>2, EntersSearch
<1> QED  BY <1>1, <1>3, <1>4

LEMMA UndriftKeeps == ASSUME SearchInv, Shape, Undrift PROVE SearchInv'
<1>1. /\ step = "undrift" /\ UNCHANGED <<completed, units, raised, anchor>> /\ Going
      /\ EntersDeletion(anchor)
  BY DEF Undrift, Ready, Going, world
<1>2. Located /\ Entered = completed /\ Observed /\ Once /\ Disjoint
  BY <1>1 DEF SearchInv, Entered
<1>3. SameRecords
  BY <1>1 DEF EntersDeletion, SameRecords, Shape, Values
<1>4. anchor \in Files \ completed /\ \A t \in Trials : t.of # "unit" => t.of \in completed \cup {anchor}
  BY <1>1, <1>2 DEF Located, Busy
<1> QED  BY <1>1, <1>2, <1>3, <1>4, EntersSearch

LEMMA PlacesKeep ==
    ASSUME SearchInv, Shape, DriftScan \/ RemoveFile \/ EndProbe \/ \E k \in 0..MaxMinimize : Minimize(k)
    PROVE  SearchInv'
<1> USE DEF world, engine, budget, setting
<1>1. SameRecords /\ Going
  BY DEF DriftScan, RemoveFile, EndProbe, Minimize, SameRecords, Shape, Values, Ready, Going
<1>2. Located /\ Settled' = Settled /\ Trials' = Trials
  BY <1>1, SameRecordsKeep DEF SearchInv
<1>3. CASE DriftScan
  <2>1. step = "drift" /\ step' \in {"cutfile", "undrift"} /\ UNCHANGED <<completed, anchor>>
    BY <1>3 DEF DriftScan
  <2>2. Located'
    BY <1>2, <2>1 DEF Located, Entered, Busy
  <2> QED  BY <1>1, <2>1, <2>2, Outside
<1>4. CASE RemoveFile
  <2>1. step = "cutfile" /\ step' = "removed" /\ UNCHANGED <<completed, anchor>>
    BY <1>4 DEF RemoveFile
  <2>2. Located'
    BY <1>2, <2>1 DEF Located, Entered, Busy
  <2> QED  BY <1>1, <2>1, <2>2, Outside
<1>5. CASE EndProbe
  <2>1. step = "done" /\ step' \in {"minimize", "idle"} /\ completed' = completed \cup {anchor}
        /\ UNCHANGED anchor
    BY <1>5 DEF EndProbe
  <2>2. Located'
    BY <1>2, <2>1 DEF Located, Entered, Busy
  <2> QED  BY <1>1, <2>1, <2>2, Outside
<1>6. CASE \E k \in 0..MaxMinimize : Minimize(k)
  <2>1. step = "minimize" /\ step' = "idle" /\ UNCHANGED <<completed, anchor>>
    BY <1>6 DEF Minimize
  <2>2. Located'
    BY <1>2, <2>1 DEF Located, Entered, Busy
  <2> QED  BY <1>1, <2>1, <2>2, Outside
<1> QED  BY <1>3, <1>4, <1>5, <1>6

(* No trial removed the file before.                                       *)
LEMMA FileKeeps ==
    ASSUME SearchInv, Shape, NEW status \in {"COMPLETE", "ABORTED", "TIMEOUT"},
           NEW vector \in {"none", "same", "strong"}, FileRestored(status, vector)
    PROVE  SearchInv'
<1> USE DEF world, engine
<1> DEFINE t == [of |-> anchor, lines |-> LinesOf[anchor], status |-> status, vector |-> vector]
           drift == [verdict |-> "DRIFT", lines |-> LinesOf[anchor]]
<1>1. /\ step = "removed" /\ step' \in {"done", "undrift"} /\ Going
      /\ UNCHANGED <<completed, anchor>>
      /\ units' = units \/ units' = units \cup {drift}
      /\ ledger'.trials = Append(ledger.trials, t) /\ ledger'.claims = ledger.claims
  BY DEF FileRestored, Ready, Going, Recorded, Shape, Values
<1>2. Located /\ Observed /\ Once /\ Disjoint
  BY <1>1 DEF SearchInv
<1>3. anchor \in Files \ completed /\ Entered = completed
      /\ \A x \in Trials : x.of # "unit" => x.of \in completed
  BY <1>1, <1>2 DEF Located, Busy, Entered
<1>4. anchor # "unit" /\ LinesOf[anchor] \subseteq Lines
  BY <1>3, SyntaxAssumption DEF Lines
<1>5. t \in TrialType /\ t.of = anchor /\ drift.verdict = "DRIFT"
  BY <1>3, <1>4 DEF TrialType
<1> HIDE DEF t, drift
<1>6. \A x \in Trials : x.of # t.of \/ x.lines # t.lines
  BY <1>3, <1>4, <1>5
<1>7. Trials' = Trials \cup {t} /\ Observed' /\ Once'
  BY <1>1, <1>2, <1>5, <1>6, Added, OnceMore DEF Observed, Adds, TrialType
<1>8. Disjoint' /\ Settled' = Settled
  BY <1>1, <1>2, <1>5 DEF Disjoint, Settled
<1>9. Located'
  BY <1>1, <1>2, <1>3, <1>4, <1>5, <1>7, <1>8 DEF Located, Busy, Entered, Within
<1> QED  BY <1>1, <1>7, <1>8, <1>9 DEF SearchInv, Searches, Tries

LEMMA DirtyKeeps == ASSUME SearchInv, TreeInv, Shape, TrialDirty PROVE SearchInv'
<1> USE DEF world, engine
<1> DEFINE t == IF step = "cut"
                THEN [of |-> "unit", lines |-> Span[Node], status |-> "DIRTY", vector |-> "none"]
                ELSE [of |-> anchor, lines |-> LinesOf[anchor], status |-> "DIRTY", vector |-> "none"]
<1>1. /\ step \in {"cut", "removed"} /\ Going /\ ~Going' /\ UNCHANGED units
      /\ ledger'.trials = Append(ledger.trials, t) /\ ledger'.claims = ledger.claims
  BY DEF TrialDirty, RestoreFails, Fails, Ready, Going, TreeInv, Recorded, Shape, Values, Node
<1>2. Located /\ Observed /\ Once /\ Disjoint /\ Searches /\ Tries
  BY <1>1 DEF SearchInv
<1>3. CASE step = "cut"
  <2>1. queue \in Seq(Nodes) /\ queue # <<>> /\ Span[Node] \notin UnitLines
    BY <1>2, <1>3 DEF Searches, Tries
  <2>2. Span[Node] \subseteq Lines
    BY <2>1, HeadOf
  <2>3. t \in TrialType /\ t.of = "unit" /\ t.lines = Span[Node]
    BY <1>3, <2>2 DEF TrialType
  <2> HIDE DEF t
  <2>4. Observed' /\ Once'
    BY <1>1, <1>2, <2>1, <2>3, Added, OnceMore DEF Observed, Adds, TrialType, UnitLines
  <2> QED  BY <1>1, <1>2, <2>4 DEF SearchInv, Disjoint
<1>4. CASE step = "removed"
  <2>1. anchor \in Files \ completed /\ \A x \in Trials : x.of # "unit" => x.of \in completed
    BY <1>2, <1>4 DEF Located, Busy
  <2>2. anchor # "unit" /\ LinesOf[anchor] \subseteq Lines
    BY <2>1, SyntaxAssumption DEF Lines
  <2>3. t \in TrialType /\ t.of = anchor
    BY <1>4, <2>1, <2>2 DEF TrialType
  <2> HIDE DEF t
  <2>4. \A x \in Trials : x.of # t.of \/ x.lines # t.lines
    BY <2>1, <2>2, <2>3
  <2>5. Observed' /\ Once'
    BY <1>1, <1>2, <2>3, <2>4, Added, OnceMore DEF Observed, Adds, TrialType
  <2> QED  BY <1>1, <1>2, <2>5 DEF SearchInv, Disjoint
<1> QED  BY <1>1, <1>3, <1>4

LEMMA SearchKept ==
    ASSUME SearchInv, TreeInv, ReasonsInv, Shape, [ESNext]_esvars
    PROVE  SearchInv'
<1> USE DEF world, engine, budget, setting, untouched
<1>1. UNCHANGED esvars => SearchInv'
  BY Still DEF esvars, SameRecords, Going
<1>2. Inspect => SearchInv'
  BY Still DEF Inspect, After, Fails, SameRecords, Going
<1>3. CollectScope => SearchInv'
  BY Still DEF CollectScope, Fails, SameRecords, Going
<1>4. RunBaseline => SearchInv'
  <2> HAVE RunBaseline
  <2>1. SameRecords /\ (Going' => Going) /\ UNCHANGED <<step, anchor, queue, seen, open, completed>>
    BY DEF RunBaseline, SameRecords, Going, Shape, Values
  <2> QED  BY <2>1, Still
<1>5. \A f \in Files : StartProbe(f) => SearchInv'
  BY StartKeeps
<1>6. Undrift => SearchInv'
  BY UndriftKeeps
<1>7. DriftScan \/ RemoveFile \/ EndProbe \/ (\E k \in 0..MaxMinimize : Minimize(k)) => SearchInv'
  BY PlacesKeep
<1>8. \A status \in {"COMPLETE", "ABORTED", "TIMEOUT"}, vector \in {"none", "same", "strong"} :
          FileRestored(status, vector) => SearchInv'
  BY FileKeeps
<1>9. SkipNode => SearchInv'
  BY SkipKeeps
<1>10. StopDeletion => SearchInv'
  BY StopKeeps
<1>11. InvalidNode => SearchInv'
  BY InvalidKeeps
<1>12. DeleteLines => SearchInv'
  BY DeleteKeeps
<1>13. \A status \in {"COMPLETE", "TIMEOUT"}, vector \in {"none", "same", "shifted", "weak", "strong"} :
          LinesRestored(status, vector) => SearchInv'
  BY LinesKeep
<1>14. \A rerun : Confirm(rerun) => SearchInv'
  BY ConfirmKeeps
<1>15. ConfirmDirty => SearchInv'
  BY Stopped DEF ConfirmDirty, RestoreFails, Fails, SameRecords, Going
<1>16. TrialDirty => SearchInv'
  BY DirtyKeeps
<1>17. TrialRaises => SearchInv'
  BY Stopped DEF TrialRaises, SameRecords, Going
<1>18. RunLate => SearchInv'
  BY Still DEF RunLate, SameRecords, Going
<1>19. FinishRun => SearchInv'
  BY Stopped DEF FinishRun, RestoreFails, Fails, SameRecords, Going
<1>20. CleanUp => SearchInv'
  BY Still DEF CleanUp, SameRecords, Going
<1> HIDE DEF world, engine, budget, setting, untouched
<1> QED  BY <1>1, <1>2, <1>3, <1>4, <1>5, <1>6, <1>7, <1>8, <1>9, <1>10, <1>11, <1>12, <1>13, <1>14,
            <1>15, <1>16, <1>17, <1>18, <1>19, <1>20 DEF ESNext

LEMMA StartsSearching == ASSUME ESInit PROVE SearchInv /\ ReasonsInv /\ Shape
<1>1. ledger.trials = <<>> /\ ledger.claims = {} /\ units = {} /\ step = "idle" /\ completed = {}
      /\ ledger.outcome = <<>> /\ why = <<>> /\ open = {} /\ unresolved = <<>> /\ phase = "CREATED" /\ Shape
  BY DEF ESInit, NoLedger, Shape, Values
<1>2. Trials = {} /\ Settled = {}
  BY <1>1 DEF Trials, ToSet, Settled
<1>3. SearchInv
  BY <1>1, <1>2 DEF SearchInv, Observed, Once, Disjoint, Located, Searches, Tries, Busy
<1>4. ReasonsInv
  BY <1>1 DEF ReasonsInv
<1> QED  BY <1>1, <1>3, <1>4

-----------------------------------------------------------------------------
(* The two accounts of what was observed.                                  *)

Grown ==
    /\ Trials \subseteq Trials' /\ units \subseteq units'
    /\ ledger.claims \subseteq ledger'.claims
    /\ ledger.git \subseteq ledger'.git /\ ledger.unreferenced \subseteq ledger'.unreferenced
    /\ \A k \in ledger.claims : k \in DOMAIN ledger.reruns =>
          k \in DOMAIN ledger'.reruns /\ ledger'.reruns[k] = ledger.reruns[k]

LEMMA RecordsOn ==
    ASSUME RecordsInv, Grown,
           \A t \in Trials' : t \in Trials \/ TrialTold(t)',
           \A u \in units' : u \in units \/ UnitGrounded(u)',
           \A k \in ledger'.claims : k \in ledger.claims \/ ClaimGrounded(k)',
           Going' => Underway'
    PROVE  RecordsInv'
<1>1. \A t \in Trials : TrialTold(t)'
  <2> SUFFICES ASSUME NEW t \in Trials PROVE TrialTold(t)'
    OBVIOUS
  <2>1. TrialTold(t)
    BY DEF RecordsInv
  <2> QED  BY <2>1 DEF TrialTold, Grown
<1>2. \A u \in units : UnitGrounded(u)'
  <2> SUFFICES ASSUME NEW u \in units PROVE UnitGrounded(u)'
    OBVIOUS
  <2>1. UnitGrounded(u)
    BY DEF RecordsInv
  <2> QED  BY <2>1 DEF UnitGrounded, Grown
<1>3. \A k \in ledger.claims : ClaimGrounded(k)'
  <2> SUFFICES ASSUME NEW k \in ledger.claims PROVE ClaimGrounded(k)'
    OBVIOUS
  <2>1. ClaimGrounded(k)
    BY DEF RecordsInv
  <2>2. k \in DOMAIN ledger'.reruns /\ ledger'.reruns[k] = ledger.reruns[k]
        /\ [verdict |-> "LOAD_BEARING", lines |-> Span[k]] \in units'
    BY <2>1 DEF ClaimGrounded, Grown
  <2>3. ChainComplete(k, ledger.reruns[k])'
    <3>1. ChainComplete(k, ledger.reruns[k]) /\ Trials \subseteq Trials'
      BY <2>1 DEF ClaimGrounded, Grown
    <3> QED  BY <2>2, <3>1 DEF ChainComplete
  <2> QED  BY <2>2, <2>3 DEF ClaimGrounded
<1>4. (\A t \in Trials : TrialTold(t))'
  BY <1>1
<1>5. (\A u \in units : UnitGrounded(u))'
  BY <1>2
<1>6. (\A k \in ledger.claims : ClaimGrounded(k))'
  BY <1>3
<1> QED  BY <1>4, <1>5, <1>6 DEF RecordsInv

(* A step that observes nothing.                                           *)
SameLedger ==
    /\ UNCHANGED units
    /\ \A f \in {"trials", "claims", "reruns", "git", "unreferenced"} : ledger'[f] = ledger[f]

LEMMA SameKeeps ==
    ASSUME RecordsInv, SameLedger,
           Going' => \/ step' \notin {"cutfile", "removed", "check"}
                     \/ Going /\ UNCHANGED <<step, anchor, queue>>
    PROVE  RecordsInv'
<1>1. /\ ledger'.trials = ledger.trials /\ ledger'.claims = ledger.claims
      /\ ledger'.reruns = ledger.reruns /\ ledger'.git = ledger.git
      /\ ledger'.unreferenced = ledger.unreferenced /\ units' = units
  BY DEF SameLedger
<1>2. Trials' = Trials
  BY <1>1 DEF Trials
<1>3. Grown
  BY <1>1, <1>2 DEF Grown
<1>4. Going' => Underway'
  BY <1>1, <1>2 DEF RecordsInv, Underway, Node
<1> QED  BY <1>1, <1>2, <1>3, <1>4, RecordsOn

LEMMA SameSteps ==
    ASSUME RecordsInv, Shape, ReasonsInv,
           \/ UNCHANGED esvars \/ Inspect \/ CollectScope \/ RunBaseline
           \/ (\E f \in Files : StartProbe(f)) \/ Undrift \/ SkipNode \/ StopDeletion \/ DeleteLines
           \/ ConfirmDirty \/ TrialRaises \/ EndProbe \/ (\E k \in 0..MaxMinimize : Minimize(k))
           \/ RunLate \/ FinishRun \/ CleanUp
    PROVE  RecordsInv'
<1> DEFINE Watch == {"cutfile", "removed", "check"}
           P == /\ SameLedger
                /\ Going' => step' \notin Watch \/ (Going /\ UNCHANGED <<step, anchor, queue>>)
<1> USE DEF world, engine, budget, setting, untouched, Ready, Going
<1>1. UNCHANGED esvars => P
  BY DEF esvars, SameLedger
<1>2. Inspect \/ CollectScope => P
  BY DEF Inspect, CollectScope, After, Fails, SameLedger
<1>3. RunBaseline => P
  BY DEF RunBaseline, SameLedger, Shape, Values
<1>4. \A f \in Files : EntersDeletion(f) =>
          step' \notin Watch /\ \A x \in Values \ {"outcome"} : ledger'[x] = ledger[x]
  BY DEF EntersDeletion, Shape, Values
<1>5. (\E f \in Files : StartProbe(f)) => P
  <2>1. ASSUME NEW f \in Files, StartProbe(f), f \in NewFiles PROVE P
    BY <2>1 DEF StartProbe, SameLedger
  <2>2. ASSUME NEW f \in Files, StartProbe(f), f \notin NewFiles PROVE P
    <3>1. EntersDeletion(f) /\ UNCHANGED units
      BY <2>2 DEF StartProbe
    <3> QED  BY <1>4, <3>1 DEF SameLedger, Values
  <2> QED  BY <2>1, <2>2
<1>6. Undrift => P
  <2> HAVE Undrift
  <2>1. EntersDeletion(anchor) /\ UNCHANGED units
    BY DEF Undrift
  <2>2. step' \notin Watch /\ \A x \in Values \ {"outcome"} : ledger'[x] = ledger[x]
    BY <2>1 DEF EntersDeletion, Shape, Values
  <2> QED  BY <2>1, <2>2 DEF SameLedger, Values
<1>7. SkipNode \/ DeleteLines => P
  BY DEF SkipNode, DeleteLines, Searching, SameLedger, MayDelete
<1>8. StopDeletion => P
  <2> HAVE StopDeletion
  <2>1. EndsDeletion(ledger, used + extra, {}, "none") /\ UNCHANGED units
    BY DEF StopDeletion
  <2>2. step' = "done" /\ \A x \in Values \ {"outcome"} : ledger'[x] = ledger[x]
    BY <2>1, EndsTells DEF Shape
  <2> QED  BY <2>1, <2>2 DEF SameLedger, Values
<1>9. ConfirmDirty \/ TrialRaises \/ EndProbe => P
  BY DEF ConfirmDirty, TrialRaises, EndProbe, RestoreFails, Fails, SameLedger
<1>10. (\E k \in 0..MaxMinimize : Minimize(k)) => P
  BY DEF Minimize, SameLedger
<1>11. RunLate \/ FinishRun \/ CleanUp => P
  BY DEF RunLate, FinishRun, CleanUp, RestoreFails, Fails, SameLedger
<1>12. P
  BY <1>1, <1>2, <1>3, <1>5, <1>6, <1>7, <1>8, <1>9, <1>10, <1>11
<1> HIDE DEF world, engine, budget, setting, untouched, Ready, Going
<1> QED  BY <1>12, SameKeeps

LEMMA ScanRecords == ASSUME RecordsInv, Shape, DriftScan \/ RemoveFile PROVE RecordsInv'
<1> USE DEF world, engine, Ready, Going
<1>1. /\ UNCHANGED <<units, anchor, phase, raised>> /\ Going
      /\ ledger'.trials = ledger.trials /\ ledger'.claims = ledger.claims
      /\ ledger'.reruns = ledger.reruns
      /\ ledger.git \subseteq ledger'.git /\ ledger.unreferenced \subseteq ledger'.unreferenced
      /\ \/ step' = "undrift"
         \/ step' = "cutfile" /\ anchor \in ledger'.git /\ anchor \in ledger'.unreferenced
         \/ step = "cutfile" /\ step' = "removed"
  BY DEF DriftScan, RemoveFile, Shape, Values
<1>2. Trials' = Trials
  BY <1>1 DEF Trials
<1>3. Grown
  BY <1>1, <1>2 DEF Grown
<1>4. Underway'
  BY <1>1 DEF RecordsInv, Underway
<1> QED  BY <1>1, <1>2, <1>3, <1>4, RecordsOn

(* One trial more, and at most one unit.                                   *)
Told(t) ==
    /\ t.vector # "none" => t.status = "COMPLETE"
    /\ t.of # "unit" => t.lines = LinesOf[t.of]
    /\ t.of = "unit" /\ t.vector = "same" => [verdict |-> "INERT", lines |-> t.lines] \in units'
    /\ t.of # "unit" /\ t.vector = "same" =>
          /\ t.of \in ledger'.git /\ t.of \in ledger'.unreferenced
          /\ [verdict |-> "DRIFT", lines |-> t.lines] \in units'

LEMMA TrialRecords ==
    ASSUME RecordsInv, Observed, NEW t, Adds(t), units \subseteq units',
           \A x \in {"claims", "reruns", "git", "unreferenced"} : ledger'[x] = ledger[x],
           Told(t),
           \A u \in units' : u \in units \/ UnitGrounded(u)',
           Going' => Underway'
    PROVE  RecordsInv'
<1>1. Trials' = Trials \cup {t}
  BY Added DEF Observed
<1>2. ledger'.claims = ledger.claims /\ ledger'.reruns = ledger.reruns
      /\ ledger'.git = ledger.git /\ ledger'.unreferenced = ledger.unreferenced
  OBVIOUS
<1>3. Grown
  BY <1>1, <1>2 DEF Grown
<1>4. \A x \in Trials' : x \in Trials \/ TrialTold(x)'
  <2> SUFFICES ASSUME NEW x \in Trials', x \notin Trials PROVE TrialTold(x)'
    OBVIOUS
  <2>1. Told(x)
    BY <1>1
  <2> QED  BY <2>1 DEF Told, TrialTold
<1> QED  BY <1>2, <1>3, <1>4, RecordsOn

LEMMA FileRecords ==
    ASSUME RecordsInv, SearchInv, Shape, NEW status \in {"COMPLETE", "ABORTED", "TIMEOUT"},
           NEW vector \in {"none", "same", "strong"}, FileRestored(status, vector)
    PROVE  RecordsInv'
<1> USE DEF world, engine
<1> DEFINE t == [of |-> anchor, lines |-> LinesOf[anchor], status |-> status, vector |-> vector]
           drift == [verdict |-> "DRIFT", lines |-> LinesOf[anchor]]
<1>1. /\ step = "removed" /\ step' \in {"done", "undrift"} /\ Going
      /\ IF vector = "same" THEN units' = units \cup {drift} ELSE units' = units
      /\ ledger'.trials = Append(ledger.trials, t)
      /\ \A x \in Values \ {"trials"} : ledger'[x] = ledger[x]
      /\ vector # "none" => status = "COMPLETE"
  BY DEF FileRestored, Ready, Going, Recorded, Shape, Values
<1>2. anchor \in Files /\ Observed
  BY <1>1 DEF SearchInv, Located, Busy
<1>3. anchor # "unit" /\ LinesOf[anchor] \subseteq Lines
  BY <1>2, SyntaxAssumption DEF Lines
<1>4. anchor \in ledger'.git /\ anchor \in ledger'.unreferenced
  BY <1>1 DEF RecordsInv, Underway, Values
<1>5. t \in TrialType /\ t.of = anchor /\ t.lines = LinesOf[anchor] /\ t.status = status /\ t.vector = vector
      /\ drift.verdict = "DRIFT" /\ drift.lines = LinesOf[anchor]
      /\ drift = [verdict |-> "DRIFT", lines |-> t.lines]
  BY <1>2, <1>3 DEF TrialType
<1> HIDE DEF t, drift
<1>6. Adds(t)
  BY <1>1, <1>5 DEF Adds
<1>7. Told(t)
  BY <1>1, <1>3, <1>4, <1>5 DEF Told
<1>8. t \in Trials'
  BY <1>2, <1>6, Added DEF Observed
<1>9. \A u \in units' : u \in units \/ UnitGrounded(u)'
  BY <1>1, <1>3, <1>5, <1>8 DEF UnitGrounded
<1>10. \A x \in {"claims", "reruns", "git", "unreferenced"} : ledger'[x] = ledger[x]
  BY <1>1 DEF Values
<1>11. units \subseteq units' /\ Underway'
  BY <1>1 DEF Underway
<1> QED  BY <1>2, <1>6, <1>7, <1>9, <1>10, <1>11, TrialRecords

LEMMA InvalidRecords == ASSUME RecordsInv, SearchInv, Shape, InvalidNode PROVE RecordsInv'
<1> USE DEF world
<1> DEFINE t == [of |-> "unit", lines |-> Span[Node], status |-> "INVALID", vector |-> "none"]
<1>1. /\ step = "next" /\ step' = "next" /\ queue # <<>> /\ Going /\ units' = units
      /\ ledger'.trials = Append(ledger.trials, t)
      /\ \A x \in Values \ {"trials"} : ledger'[x] = ledger[x]
  BY DEF InvalidNode, MayDelete, Searching, Ready, Going, Recorded, Shape, Values
<1>2. Observed /\ queue \in Seq(Nodes)
  BY <1>1 DEF SearchInv, Searches
<1>3. Span[Node] \subseteq Lines
  BY <1>1, <1>2, HeadOf
<1>4. t \in TrialType /\ t.of = "unit" /\ t.vector = "none"
  BY <1>3 DEF TrialType
<1> HIDE DEF t
<1>5. Adds(t) /\ Told(t)
  BY <1>1, <1>4 DEF Adds, Told
<1>6. \A x \in {"claims", "reruns", "git", "unreferenced"} : ledger'[x] = ledger[x]
  BY <1>1 DEF Values
<1>7. Underway'
  BY <1>1 DEF Underway
<1> QED  BY <1>1, <1>2, <1>5, <1>6, <1>7, TrialRecords

LEMMA LinesRecords ==
    ASSUME RecordsInv, SearchInv, ReasonsInv, Shape, NEW status \in {"COMPLETE", "TIMEOUT"},
           NEW vector \in {"none", "same", "shifted", "weak", "strong"}, LinesRestored(status, vector)
    PROVE  RecordsInv'
<1> USE DEF world
<1> DEFINE t == [of |-> "unit", lines |-> Span[Node], status |-> status, vector |-> vector]
           inert == [verdict |-> "INERT", lines |-> Span[Node]]
           recorded == [ledger EXCEPT !.trials = Recorded("unit", Span[Node], status, vector)]
<1>1. /\ step = "cut" /\ Going /\ (vector # "none" => status = "COMPLETE")
      /\ \/ EndsDeletion(recorded, used + 1 + extra, Span[Node], "budget_exhausted") /\ UNCHANGED units
            /\ vector # "same"
         \/ step' = "check" /\ ledger' = recorded /\ UNCHANGED <<units, queue>>
            /\ vector \in {"weak", "strong"}
         \/ /\ step' = "next" /\ ledger' = recorded
            /\ units' = IF vector = "same" THEN units \cup {inert} ELSE units
  BY DEF LinesRestored, Ready, Going
<1>2. DOMAIN recorded = Values /\ recorded.trials = Append(ledger.trials, t)
      /\ \A x \in Values \ {"trials"} : recorded[x] = ledger[x]
  BY DEF Shape, Values, Recorded
<1>3. Observed /\ queue \in Seq(Nodes) /\ queue # <<>>
  BY <1>1 DEF SearchInv, Searches, Tries
<1>4. Span[Node] \subseteq Lines
  BY <1>1, <1>3, HeadOf
<1>5. /\ t \in TrialType /\ t.of = "unit" /\ t.vector = vector /\ t.lines = Span[Node] /\ t.status = status
      /\ inert = [verdict |-> "INERT", lines |-> t.lines]
      /\ inert.verdict = "INERT" /\ inert.lines = t.lines
  BY <1>4 DEF TrialType
<1> HIDE DEF t, inert, recorded
<1>6. /\ ledger'.trials = Append(ledger.trials, t)
      /\ \A x \in {"claims", "reruns", "git", "unreferenced"} : ledger'[x] = ledger[x]
      /\ step' \in {"done", "next", "check"}
      /\ step' = "check" => UNCHANGED queue /\ status = "COMPLETE"
      /\ units' = IF vector = "same" THEN units \cup {inert} ELSE units
  <2>1. ASSUME EndsDeletion(recorded, used + 1 + extra, Span[Node], "budget_exhausted")
        PROVE  /\ ledger'.trials = recorded.trials /\ step' = "done"
               /\ \A x \in Values \ {"trials", "outcome"} : ledger'[x] = recorded[x]
    BY <1>2, <2>1, EndsTells DEF Values
  <2>2. CASE EndsDeletion(recorded, used + 1 + extra, Span[Node], "budget_exhausted") /\ UNCHANGED units
             /\ vector # "same"
    BY <1>2, <2>1, <2>2 DEF Values
  <2>3. CASE ledger' = recorded /\ step' = "check" /\ UNCHANGED <<units, queue>> /\ vector \in {"weak", "strong"}
    BY <1>1, <1>2, <2>3 DEF Values
  <2>4. CASE ledger' = recorded /\ step' = "next" /\ units' = IF vector = "same" THEN units \cup {inert} ELSE units
    BY <1>2, <2>4 DEF Values
  <2> QED  BY <1>1, <2>2, <2>3, <2>4
<1>7. Adds(t) /\ Told(t)
  BY <1>1, <1>5, <1>6 DEF Adds, Told
<1>8. t \in Trials' /\ Len(ledger'.trials) = Len(ledger.trials) + 1
      /\ ledger'.trials[Len(ledger.trials) + 1] = t
  BY <1>3, <1>7, Added DEF Observed
<1>9. \A u \in units' : u \in units \/ UnitGrounded(u)'
  BY <1>5, <1>6, <1>8 DEF UnitGrounded
<1>10. Underway'
  BY <1>5, <1>6, <1>8 DEF Underway, Node
<1>11. units \subseteq units'
  BY <1>6
<1> QED  BY <1>3, <1>6, <1>7, <1>9, <1>10, <1>11, TrialRecords

LEMMA DirtyRecords == ASSUME RecordsInv, SearchInv, TreeInv, Shape, TrialDirty PROVE RecordsInv'
<1> USE DEF world, engine
<1> DEFINE t == IF step = "cut"
                THEN [of |-> "unit", lines |-> Span[Node], status |-> "DIRTY", vector |-> "none"]
                ELSE [of |-> anchor, lines |-> LinesOf[anchor], status |-> "DIRTY", vector |-> "none"]
<1>1. /\ step \in {"cut", "removed"} /\ Going /\ ~Going' /\ UNCHANGED units
      /\ ledger'.trials = Append(ledger.trials, t)
      /\ \A x \in Values \ {"trials"} : ledger'[x] = ledger[x]
  BY DEF TrialDirty, RestoreFails, Fails, Ready, Going, TreeInv, Recorded, Shape, Values, Node
<1>2. Located /\ Observed /\ Searches /\ Tries
  BY <1>1 DEF SearchInv
<1>3. t \in TrialType /\ t.vector = "none" /\ (t.of # "unit" => t.lines = LinesOf[t.of])
  <2>1. CASE step = "cut"
    <3>1. queue \in Seq(Nodes) /\ queue # <<>>
      BY <1>2, <2>1 DEF Searches, Tries
    <3>2. Span[Node] \subseteq Lines
      BY <3>1, HeadOf
    <3> QED  BY <2>1, <3>2 DEF TrialType
  <2>2. CASE step = "removed"
    <3>1. anchor \in Files /\ LinesOf[anchor] \subseteq Lines
      BY <1>2, <2>2 DEF Located, Busy, Lines
    <3> QED  BY <2>2, <3>1 DEF TrialType
  <2> QED  BY <1>1, <2>1, <2>2
<1> HIDE DEF t
<1>4. Adds(t) /\ Told(t)
  BY <1>1, <1>3 DEF Adds, Told
<1>5. \A x \in {"claims", "reruns", "git", "unreferenced"} : ledger'[x] = ledger[x]
  BY <1>1 DEF Values
<1> QED  BY <1>1, <1>2, <1>4, <1>5, TrialRecords

(* The claim of a node is new, and rests on the trial that broke its tests *)
LEMMA ConfirmRecords ==
    ASSUME RecordsInv, SearchInv, Shape, NEW rerun, Confirm(rerun)
    PROVE  RecordsInv'
<1> USE DEF world
<1> DEFINE again == [ledger EXCEPT !.reruns = Over([m \in {Node} |-> rerun], @)]
           signed == [verdict |-> "LOAD_BEARING", lines |-> Span[Node]]
           signs == rerun = "same" /\ Kids[Node] = <<>> /\ LastVector = "strong"
<1>1. /\ step = "check" /\ step' = "next" /\ Going
      /\ \/ ledger' = again /\ UNCHANGED units
         \/ /\ ledger' = [again EXCEPT !.claims = @ \cup {Node}]
            /\ units' = units \cup {signed} /\ signs
  BY DEF Confirm, Ready, Going
<1>2. /\ \A x \in Values \ {"reruns"} : again[x] = ledger[x]
      /\ again.reruns = Over([m \in {Node} |-> rerun], ledger.reruns)
      /\ \A x \in Values \ {"reruns", "claims"} : [again EXCEPT !.claims = @ \cup {Node}][x] = ledger[x]
      /\ [again EXCEPT !.claims = @ \cup {Node}].claims = ledger.claims \cup {Node}
      /\ [again EXCEPT !.claims = @ \cup {Node}].reruns = Over([m \in {Node} |-> rerun], ledger.reruns)
  BY DEF Shape, Values
<1>3. signed.verdict = "LOAD_BEARING" /\ signed.lines = Span[Node]
  OBVIOUS
<1>4. Node \notin ledger.claims
  BY <1>1 DEF SearchInv, Searches, Tries, Settled
<1> HIDE DEF again
<1>5. /\ ledger'.trials = ledger.trials /\ ledger'.git = ledger.git
      /\ ledger'.unreferenced = ledger.unreferenced
      /\ ledger'.reruns = Over([m \in {Node} |-> rerun], ledger.reruns)
      /\ \/ ledger'.claims = ledger.claims /\ UNCHANGED units
         \/ ledger'.claims = ledger.claims \cup {Node} /\ units' = units \cup {signed} /\ signs
  BY <1>1, <1>2 DEF Values
<1>6. Trials' = Trials /\ Underway'
  BY <1>1, <1>5 DEF Trials, Underway
<1>7. /\ Node \in DOMAIN ledger'.reruns /\ ledger'.reruns[Node] = rerun
      /\ \A k \in DOMAIN ledger.reruns : k # Node =>
            k \in DOMAIN ledger'.reruns /\ ledger'.reruns[k] = ledger.reruns[k]
  BY <1>5 DEF Over
<1>8. Grown
  BY <1>4, <1>5, <1>6, <1>7 DEF Grown
<1>9. \A k \in ledger'.claims : k \in ledger.claims \/ ClaimGrounded(k)'
  <2> SUFFICES ASSUME NEW k \in ledger'.claims, k \notin ledger.claims PROVE ClaimGrounded(k)'
    OBVIOUS
  <2>1. k = Node /\ signed \in units' /\ signs
    BY <1>5
  <2>2. ChainComplete(Node, rerun)
    <3>1. Underway
      BY <1>1 DEF RecordsInv
    <3> QED  BY <1>1, <2>1, <3>1 DEF Underway, ChainComplete, LastVector
  <2>3. ChainComplete(k, ledger.reruns[k])'
    BY <1>6, <1>7, <2>1, <2>2 DEF ChainComplete
  <2> QED  BY <1>7, <2>1, <2>3 DEF ClaimGrounded
<1>10. \A u \in units' : u \in units \/ UnitGrounded(u)'
  BY <1>3, <1>5 DEF UnitGrounded
<1> QED  BY <1>6, <1>8, <1>9, <1>10, RecordsOn

LEMMA RecordsKept ==
    ASSUME RecordsInv, SearchInv, TreeInv, ReasonsInv, Shape, [ESNext]_esvars
    PROVE  RecordsInv'
<1>1. (\E f \in Files : StartProbe(f)) \/ (\E k \in 0..MaxMinimize : Minimize(k)) => RecordsInv'
  BY SameSteps
<1>2. UNCHANGED esvars \/ Inspect \/ CollectScope \/ RunBaseline \/ Undrift \/ SkipNode \/ StopDeletion
        \/ DeleteLines \/ ConfirmDirty \/ TrialRaises \/ EndProbe \/ RunLate \/ FinishRun \/ CleanUp => RecordsInv'
  BY SameSteps
<1>3. DriftScan \/ RemoveFile => RecordsInv'
  BY ScanRecords
<1>4. \A status \in {"COMPLETE", "ABORTED", "TIMEOUT"}, vector \in {"none", "same", "strong"} :
          FileRestored(status, vector) => RecordsInv'
  BY FileRecords
<1>5. \A status \in {"COMPLETE", "TIMEOUT"}, vector \in {"none", "same", "shifted", "weak", "strong"} :
          LinesRestored(status, vector) => RecordsInv'
  BY LinesRecords
<1>6. InvalidNode => RecordsInv'
  BY InvalidRecords
<1>7. TrialDirty => RecordsInv'
  BY DirtyRecords
<1>8. \A rerun : Confirm(rerun) => RecordsInv'
  BY ConfirmRecords
<1> QED  BY <1>1, <1>2, <1>3, <1>4, <1>5, <1>6, <1>7, <1>8 DEF ESNext

EvidenceIInv ==
    Shape /\ cover \in Covers /\ TreeInv /\ ReasonsInv /\ SearchInv /\ RecordsInv

LEMMA EvidenceStarts == ASSUME ESInit PROVE EvidenceIInv
<1>1. ledger.trials = <<>> /\ ledger.claims = {} /\ units = {} /\ step = "idle" /\ cover \in Covers
  BY DEF ESInit, NoLedger
<1>2. RecordsInv
  BY <1>1 DEF RecordsInv, Trials, ToSet, Underway
<1> QED  BY <1>1, <1>2, TreeInit, StartsSearching DEF EvidenceIInv

(* The invariant of the session.                                           *)
THEOREM EvidenceIInvHolds == ESSpec => []EvidenceIInv
<1>1. ESInit => EvidenceIInv
  BY EvidenceStarts
<1>2. EvidenceIInv /\ [ESNext]_esvars => EvidenceIInv'
  <2> SUFFICES ASSUME EvidenceIInv, [ESNext]_esvars PROVE EvidenceIInv'
    OBVIOUS
  <2>1. TreeInv /\ ReasonsInv /\ SearchInv /\ RecordsInv /\ Shape /\ cover \in Covers
    BY DEF EvidenceIInv
  <2>2. TreeInv'
    BY <2>1, TreeKept
  <2>3. Undrift => anchor \in Files
    BY <2>1 DEF SearchInv, Located, Busy, Undrift, Ready, Going
  <2>4. ReasonsInv' /\ Shape'
    BY <2>1, <2>3, ReasonsKept
  <2>5. SearchInv'
    BY <2>1, SearchKept
  <2>6. RecordsInv'
    BY <2>1, RecordsKept
  <2>7. cover' \in Covers
    BY <2>1, SettingStays DEF setting
  <2> QED  BY <2>2, <2>4, <2>5, <2>6, <2>7 DEF EvidenceIInv
<1> QED  BY <1>1, <1>2, PTL DEF ESSpec

(* What the two accounts say of a line.                                    *)
LEMMA SameFirst ==
    ASSUME EvidenceIInv, phase = "PROBING", NEW l \in Lines
    PROVE  DerivedFirst(l) = FirstLabel(l) /\ FirstLabel(l)[1] \in {"UNLABELED", "UNEVIDENCED"}
           /\ FileOf(l) \in Files /\ l \in LinesOf[FileOf(l)]
<1>1. FileOf(l) \in Files /\ l \in LinesOf[FileOf(l)]
  BY DEF Lines, FileOf
<1>2. ledger.context[FileOf(l)] = LineContext(FileOf(l))
  BY <1>1 DEF EvidenceIInv, ReasonsInv
<1>3. cover[l] \in {"text", "plain", "unrun", "run"}
  BY EvidenceAssumption DEF EvidenceIInv
<1>4. DerivedFirst(l) = FirstLabel(l)
  <2> DEFINE f == FileOf(l)
             c == LineContext(f)
  <2>1. /\ c.measured = (f \in facts.measured)
        /\ c.allowed = (f \in facts.allowed)
        /\ l \in c.textual <=> cover[l] = "text"
        /\ l \in c.executable <=> (f \in facts.measured /\ cover[l] \in {"unrun", "run"})
        /\ l \in c.executed <=> (l \in c.executable /\ cover[l] = "run")
    BY <1>1 DEF LineContext
  <2> HIDE DEF f, c
  <2>2. DerivedFirst(l) =
            IF l \in c.textual THEN Unlabeled("non_executable")
            ELSE IF ~c.measured THEN Unlabeled("not_measured")
            ELSE IF l \notin c.executable THEN Unlabeled("non_executable")
            ELSE IF l \notin c.executed THEN <<"UNEVIDENCED", "">>
            ELSE IF c.allowed THEN Unlabeled("not_isolated") ELSE Unlabeled("unsupported_file")
    BY <1>2 DEF DerivedFirst, f, c
  <2>3. FirstLabel(l) =
            IF cover[l] = "text" THEN Unlabeled("non_executable")
            ELSE IF f \notin facts.measured THEN Unlabeled("not_measured")
            ELSE IF cover[l] = "plain" THEN Unlabeled("non_executable")
            ELSE IF cover[l] = "unrun" THEN <<"UNEVIDENCED", "">>
            ELSE IF f \notin facts.allowed THEN Unlabeled("unsupported_file")
            ELSE Unlabeled("not_isolated")
    BY DEF FirstLabel, f
  <2>4. CASE cover[l] = "text"
    BY <2>1, <2>2, <2>3, <2>4
  <2>5. CASE cover[l] # "text" /\ f \notin facts.measured
    BY <2>1, <2>2, <2>3, <2>5
  <2>6. CASE cover[l] = "plain" /\ f \in facts.measured
    BY <2>1, <2>2, <2>3, <2>6
  <2>7. CASE cover[l] = "unrun" /\ f \in facts.measured
    BY <2>1, <2>2, <2>3, <2>7
  <2>8. CASE cover[l] = "run" /\ f \in facts.measured
    <3>1. l \in c.executable /\ l \in c.executed /\ l \notin c.textual /\ c.measured
      BY <2>1, <2>8
    <3>2. CASE f \in facts.allowed
      BY <2>1, <2>2, <2>3, <2>8, <3>1, <3>2
    <3>3. CASE f \notin facts.allowed
      BY <2>1, <2>2, <2>3, <2>8, <3>1, <3>3
    <3> QED  BY <3>2, <3>3
  <2> QED  BY <1>3, <2>4, <2>5, <2>6, <2>7, <2>8
<1>5. FirstLabel(l)[1] \in {"UNLABELED", "UNEVIDENCED"}
  BY DEF FirstLabel, Unlabeled
<1> QED  BY <1>1, <1>4, <1>5

FirstSaid(l) == IF l \in DOMAIN why THEN Unlabeled(why[l]) ELSE FirstLabel(l)

LEMMA SameReasons ==
    ASSUME EvidenceIInv, phase = "PROBING", NEW l \in Lines
    PROVE  /\ Explained(l) = FirstSaid(l)
           /\ \/ FirstSaid(l)[1] = "UNLABELED"
              \/ FirstSaid(l) = <<"UNEVIDENCED", "">>
<1>1. why = ledger.outcome /\ (l \in DOMAIN why => FirstLabel(l) = Unlabeled("not_isolated"))
  BY DEF EvidenceIInv, ReasonsInv, Hidden
<1>2. DerivedFirst(l) = FirstLabel(l)
  BY SameFirst
<1>3. FirstLabel(l)[1] = "UNLABELED" \/ FirstLabel(l) = <<"UNEVIDENCED", "">>
  BY DEF FirstLabel, Unlabeled
<1>4. Explained(l) = FirstSaid(l)
  BY <1>1, <1>2 DEF Explained, FirstSaid, Unlabeled
<1> QED  BY <1>1, <1>3, <1>4 DEF FirstSaid, Unlabeled

Holds(says, l) == \E u \in units : u.verdict = says /\ l \in u.lines

LEMMA SameVerdicts ==
    ASSUME EvidenceIInv, NEW l \in Lines
    PROVE  /\ DerivedDrift(FileOf(l)) <=> Holds("DRIFT", l)
           /\ (\E k \in ledger.claims : l \in Span[k]) <=> Holds("LOAD_BEARING", l)
           /\ SameVector("unit", {l}) <=> Holds("INERT", l)
<1>1. FileOf(l) \in Files /\ l \in LinesOf[FileOf(l)]
  BY DEF Lines, FileOf
<1>2. (\A t \in Trials : TrialTold(t)) /\ (\A u \in units : UnitGrounded(u))
      /\ (\A k \in ledger.claims : ClaimGrounded(k))
  BY DEF EvidenceIInv, RecordsInv
<1>3. \A t \in Trials : t.of \in Files \cup {"unit"}
  <2>1. ledger.trials \in Seq(TrialType)
    BY DEF EvidenceIInv, SearchInv, Observed
  <2>2. Trials \subseteq TrialType
    BY <2>1 DEF Trials, ToSet
  <2> QED  BY <2>2 DEF TrialType
<1>4. DerivedDrift(FileOf(l)) => Holds("DRIFT", l)
  <2> SUFFICES ASSUME DerivedDrift(FileOf(l)) PROVE Holds("DRIFT", l)
    OBVIOUS
  <2>1. PICK t \in Trials : t.of = FileOf(l) /\ t.vector = "same"
    BY DEF DerivedDrift, SameVector
  <2>2. TrialTold(t) /\ t.of # "unit"
    BY <1>1, <1>2, <2>1, SyntaxAssumption
  <2>3. [verdict |-> "DRIFT", lines |-> t.lines] \in units /\ t.lines = LinesOf[FileOf(l)]
    BY <2>1, <2>2 DEF TrialTold
  <2> QED  BY <1>1, <2>3 DEF Holds
<1>5. Holds("DRIFT", l) => DerivedDrift(FileOf(l))
  <2> SUFFICES ASSUME NEW u \in units, u.verdict = "DRIFT", l \in u.lines PROVE DerivedDrift(FileOf(l))
    BY DEF Holds
  <2>1. PICK t \in Trials : t.vector = "same" /\ t.lines = u.lines /\ t.of # "unit"
    BY <1>2 DEF UnitGrounded
  <2>2. TrialTold(t) /\ t.of \in Files
    BY <1>2, <1>3, <2>1
  <2>3. t.lines = LinesOf[t.of] /\ t.of \in ledger.git /\ t.of \in ledger.unreferenced /\ t.status = "COMPLETE"
    BY <2>1, <2>2 DEF TrialTold
  <2>4. t.of = FileOf(l)
    BY <1>1, <2>1, <2>2, <2>3, SyntaxAssumption
  <2> QED  BY <2>1, <2>3, <2>4 DEF DerivedDrift, SameVector
<1>6. (\E k \in ledger.claims : l \in Span[k]) <=> Holds("LOAD_BEARING", l)
  BY <1>2 DEF Holds, ClaimGrounded, UnitGrounded
<1>7. SameVector("unit", {l}) => Holds("INERT", l)
  <2> SUFFICES ASSUME SameVector("unit", {l}) PROVE Holds("INERT", l)
    OBVIOUS
  <2>1. PICK t \in Trials : t.of = "unit" /\ l \in t.lines /\ t.vector = "same"
    BY DEF SameVector
  <2>2. [verdict |-> "INERT", lines |-> t.lines] \in units
    BY <1>2, <2>1 DEF TrialTold
  <2> QED  BY <2>1, <2>2 DEF Holds
<1>8. Holds("INERT", l) => SameVector("unit", {l})
  BY <1>2 DEF Holds, UnitGrounded, TrialTold, SameVector
<1> QED  BY <1>4, <1>5, <1>6, <1>7, <1>8

(* The verdict of the smallest rank.                                       *)
LEMMA Best ==
    ASSUME NEW over, NEW a \in over, over \subseteq DOMAIN Rank, \A b \in over : b # a => Rank[a] < Rank[b]
    PROVE  (CHOOSE x \in over : \A b \in over : Rank[x] <= Rank[b]) = a
<1>1. \A x \in DOMAIN Rank : Rank[x] \in Nat
  BY DEF Rank
<1>2. \A b \in over : Rank[a] <= Rank[b]
  BY <1>1
<1>3. ASSUME NEW x \in over, \A b \in over : Rank[x] <= Rank[b] PROVE x = a
  <2>1. Rank[x] <= Rank[a] /\ Rank[x] \in Nat /\ Rank[a] \in Nat
    BY <1>1, <1>3
  <2> QED  BY <2>1
<1> QED  BY <1>2, <1>3

LEMMA Ranked ==
    /\ DOMAIN Rank = {"DRIFT", "LOAD_BEARING", "UNEVIDENCED", "INERT", "UNLABELED"}
    /\ Rank["DRIFT"] = 0 /\ Rank["LOAD_BEARING"] = 1 /\ Rank["UNEVIDENCED"] = 2
    /\ Rank["INERT"] = 3 /\ Rank["UNLABELED"] = 4
BY DEF Rank

LEMMA MergedIs ==
    ASSUME EvidenceIInv, phase = "PROBING", NEW l \in Lines
    PROVE  Merged(l) = IF Holds("DRIFT", l) THEN <<"DRIFT", "">>
                       ELSE IF Holds("LOAD_BEARING", l) THEN <<"LOAD_BEARING", "">>
                       ELSE IF FirstSaid(l)[1] = "UNLABELED" /\ Holds("INERT", l) THEN <<"INERT", "">>
                       ELSE FirstSaid(l)
<1> DEFINE first == FirstSaid(l)
           over == {u.verdict : u \in {v \in units : l \in v.lines}} \cup {first[1]}
           best == CHOOSE a \in over : \A b \in over : Rank[a] <= Rank[b]
<1>1. Merged(l) = IF best = first[1] THEN first ELSE <<best, "">>
  BY DEF Merged, FirstSaid
<1>2. first[1] = "UNLABELED" \/ (first[1] = "UNEVIDENCED" /\ first = <<"UNEVIDENCED", "">>)
  <2>1. first[1] = "UNLABELED" \/ first = <<"UNEVIDENCED", "">>
    BY SameReasons
  <2>2. ASSUME NEW x, x = <<"UNEVIDENCED", "">> PROVE x[1] = "UNEVIDENCED"
    BY <2>2
  <2> HIDE DEF first
  <2>3. CASE first = <<"UNEVIDENCED", "">>
    BY <2>2, <2>3
  <2> QED  BY <2>1, <2>3
<1>3. \A u \in units : u.verdict \in {"DRIFT", "INERT", "LOAD_BEARING"}
  BY DEF EvidenceIInv, RecordsInv, UnitGrounded
<1>4. \A says \in {"DRIFT", "INERT", "LOAD_BEARING"} : says \in over <=> Holds(says, l)
  BY <1>2 DEF Holds
<1>5. over \subseteq {"DRIFT", "INERT", "LOAD_BEARING", first[1]} /\ first[1] \in over
  BY <1>3
<1> DEFINE tag == first[1]
<1>6. tag \in {"UNLABELED", "UNEVIDENCED"} /\ tag \in over
      /\ over \subseteq {"DRIFT", "INERT", "LOAD_BEARING", tag}
  BY <1>2, <1>5, Zenon
<1> HIDE DEF first, over
<1> HIDE DEF tag
<1>7. over \subseteq DOMAIN Rank
  BY <1>2, <1>5, Ranked
<1>8. CASE Holds("DRIFT", l)
  <2>1. "DRIFT" \in over /\ \A b \in over : b # "DRIFT" => Rank["DRIFT"] < Rank[b]
    BY <1>6, <1>4, <1>8, Ranked
  <2>2. best = "DRIFT"
    BY <1>7, <2>1, Best
  <2> HIDE DEF best
  <2> QED  BY <1>1, <1>2, <1>8, <2>2
<1>9. CASE ~Holds("DRIFT", l) /\ Holds("LOAD_BEARING", l)
  <2>1. "LOAD_BEARING" \in over /\ \A b \in over : b # "LOAD_BEARING" => Rank["LOAD_BEARING"] < Rank[b]
    BY <1>6, <1>4, <1>9, Ranked
  <2>2. best = "LOAD_BEARING"
    BY <1>7, <2>1, Best
  <2> HIDE DEF best
  <2> QED  BY <1>1, <1>2, <1>9, <2>2
<1>10. CASE ~Holds("DRIFT", l) /\ ~Holds("LOAD_BEARING", l) /\ first[1] = "UNLABELED" /\ Holds("INERT", l)
  <2>1. "INERT" \in over /\ \A b \in over : b # "INERT" => Rank["INERT"] < Rank[b]
    BY <1>6, <1>4, <1>10, Ranked DEF tag
  <2>2. best = "INERT"
    BY <1>7, <2>1, Best
  <2> HIDE DEF best
  <2> QED  BY <1>1, <1>10, <2>2 DEF first
<1>11. CASE /\ ~Holds("DRIFT", l) /\ ~Holds("LOAD_BEARING", l)
            /\ ~(first[1] = "UNLABELED" /\ Holds("INERT", l))
  <2>1. first[1] \in over /\ \A b \in over : b # first[1] => Rank[first[1]] < Rank[b]
    BY <1>6, <1>4, <1>11, Ranked DEF tag
  <2>2. best = first[1]
    BY <1>7, <2>1, Best
  <2> HIDE DEF best
  <2> QED  BY <1>1, <1>11, <2>2 DEF first
<1> QED  BY <1>8, <1>9, <1>10, <1>11

ChainsKept ==
    \A k \in ledger.claims : k \in DOMAIN ledger.reruns /\ ChainComplete(k, ledger.reruns[k])

(* Whatever the statements of the files, finish_run never turns away its   *)
(* own evidence, and "it depends on this line" is signed on a whole chain  *)
(* of records (ledger.validate, parity.check_derived, claim_builder).      *)
THEOREM SelfChecksAlwaysPass == ESSpec => [](SelfChecksPass /\ ChainsKept)
<1>1. EvidenceIInv => SelfChecksPass /\ ChainsKept
  <2> SUFFICES ASSUME EvidenceIInv PROVE SelfChecksPass /\ ChainsKept
    OBVIOUS
  <2>1. Once /\ \A k \in ledger.claims : ClaimGrounded(k)
    BY DEF EvidenceIInv, SearchInv, RecordsInv
  <2>2. LedgerValid /\ ChainsKept
    BY <2>1 DEF LedgerValid, Once, ClaimGrounded, ChainsKept
  <2>3. ASSUME phase = "PROBING", NEW l \in Lines PROVE Derived(l) = Merged(l)
    BY <2>3, SameVerdicts, SameReasons, MergedIs DEF Derived
  <2>4. phase = "PROBING" => DeriveParity
    BY <2>3 DEF DeriveParity
  <2> QED  BY <2>2, <2>4 DEF SelfChecksPass
<1> QED  BY <1>1, EvidenceIInvHolds, PTL

(* Where statements side by side do not share a line in part, no line that *)
(* a claim names is in a unit that was shown to change nothing (hdd.run).  *)
THEOREM VerdictsAreSound ==
    ASSUME StatementsApart
    PROVE  ESSpec => []VerdictsSound
<1>1. EvidenceIInv /\ SelfChecksPass /\ ChainsKept => VerdictsSound
  <2> SUFFICES ASSUME EvidenceIInv, SelfChecksPass, ChainsKept PROVE VerdictsSound
    OBVIOUS
  <2>1. Disjoint
    BY DEF EvidenceIInv, SearchInv
  <2>2. LoadBearingConfirmed
    BY <2>1 DEF LoadBearingConfirmed, Disjoint, Off, ChainsKept
  <2> QED  BY <2>2 DEF VerdictsSound
<1> QED  BY <1>1, EvidenceIInvHolds, SelfChecksAlwaysPass, PTL

-----------------------------------------------------------------------------
(* The mapping of targets.                                                 *)

(* Lines of one file among the lines of a diff.                            *)
DiffLines == [tag : {" ", "-", "+"}, text : M!Lines]

Entries(s, o, from, to) == {p \in from..to : s[p].tag # o}

LEMMA EntriesFinite ==
    ASSUME NEW s, NEW o, NEW a \in Int, NEW b \in Int
    PROVE  IsFiniteSet(Entries(s, o, a, b)) /\ M!Count(s, a, b, o) = Cardinality(Entries(s, o, a, b))
<1>1. IsFiniteSet(a..b)
  BY FS_Interval
<1>2. Entries(s, o, a, b) \in SUBSET (a..b)
  BY DEF Entries
<1>3. IsFiniteSet(Entries(s, o, a, b))
  BY <1>1, <1>2, FS_Subset
<1>4. M!Cardinality(Entries(s, o, a, b)) = Cardinality(Entries(s, o, a, b))
  BY Zenon DEF M!Cardinality, Cardinality
<1> QED  BY <1>3, <1>4, Zenon DEF M!Count, Entries

LEMMA CountIs ==
    ASSUME NEW s, NEW o, NEW a \in Int, NEW b \in Int
    PROVE  M!Count(s, a, b, o) \in Nat /\ (a > b => M!Count(s, a, b, o) = 0)
<1>1. a > b => Entries(s, o, a, b) = {}
  BY DEF Entries
<1> QED  BY <1>1, EntriesFinite, FS_CardinalityType, FS_EmptySet

LEMMA CountSplit ==
    ASSUME NEW s, NEW o, NEW a \in Int, NEW m \in Int, NEW b \in Int, a <= m + 1, m <= b
    PROVE  M!Count(s, a, b, o) = M!Count(s, a, m, o) + M!Count(s, m + 1, b, o)
<1> DEFINE all == Entries(s, o, a, b)
           low == Entries(s, o, a, m)
           high == Entries(s, o, m + 1, b)
<1>1. all = low \cup high /\ low \cap high = {}
  BY DEF Entries
<1>2. /\ IsFiniteSet(low) /\ IsFiniteSet(high) /\ M!Count(s, a, b, o) = Cardinality(all)
      /\ M!Count(s, a, m, o) = Cardinality(low) /\ M!Count(s, m + 1, b, o) = Cardinality(high)
  BY EntriesFinite
<1> HIDE DEF all, low, high
<1>3. Cardinality(all) = Cardinality(low) + Cardinality(high)
  <2>1. Cardinality(low \cap high) = 0 /\ Cardinality(low) \in Nat /\ Cardinality(high) \in Nat
    BY <1>1, <1>2, FS_EmptySet, FS_CardinalityType
  <2>2. Cardinality(low \cup high) = Cardinality(low) + Cardinality(high) - Cardinality(low \cap high)
    BY <1>2, FS_Union
  <2> QED  BY <1>1, <2>1, <2>2
<1> QED  BY <1>2, <1>3

LEMMA CountOne ==
    ASSUME NEW s, NEW o, NEW p \in Int
    PROVE  M!Count(s, p, p, o) = IF s[p].tag # o THEN 1 ELSE 0
<1>1. Entries(s, o, p, p) = IF s[p].tag # o THEN {p} ELSE {}
  BY DEF Entries
<1> QED  BY <1>1, EntriesFinite, FS_Singleton, FS_EmptySet

(* Up to which line of the file the diff has come.                         *)
LEMMA CountsUp ==
    ASSUME NEW s, NEW o, NEW p \in Nat, NEW q \in Nat, p <= q
    PROVE  /\ M!Count(s, 1, p, o) \in Nat /\ M!Count(s, 1, q, o) \in Nat
           /\ M!Count(s, 1, p, o) <= M!Count(s, 1, q, o)
           /\ p < q /\ s[q].tag # o => M!Count(s, 1, p, o) < M!Count(s, 1, q, o)
           /\ q > 0 => M!Count(s, 1, q, o) = M!Count(s, 1, q - 1, o) + IF s[q].tag # o THEN 1 ELSE 0
<1>1. /\ M!Count(s, 1, p, o) \in Nat /\ M!Count(s, 1, q, o) \in Nat
      /\ M!Count(s, 1, q - 1, o) \in Nat /\ M!Count(s, p + 1, q, o) \in Nat
  BY CountIs
<1>2. M!Count(s, 1, q, o) = M!Count(s, 1, p, o) + M!Count(s, p + 1, q, o)
  BY CountSplit
<1>3. ASSUME q > 0 PROVE M!Count(s, 1, q, o) = M!Count(s, 1, q - 1, o) + IF s[q].tag # o THEN 1 ELSE 0
  <2>1. M!Count(s, 1, q, o) = M!Count(s, 1, q - 1, o) + M!Count(s, (q - 1) + 1, q, o)
    BY <1>3, CountSplit
  <2>2. (q - 1) + 1 = q
    OBVIOUS
  <2> QED  BY <2>1, <2>2, CountOne
<1>4. ASSUME p < q PROVE M!Count(s, 1, p, o) <= M!Count(s, 1, q - 1, o)
  <2>1. M!Count(s, 1, q - 1, o) = M!Count(s, 1, p, o) + M!Count(s, p + 1, q - 1, o)
    BY <1>4, CountSplit
  <2>2. M!Count(s, p + 1, q - 1, o) \in Nat
    BY CountIs
  <2> QED  BY <1>1, <2>1, <2>2
<1> QED  BY <1>1, <1>2, <1>3, <1>4

LEMMA OneEntry ==
    ASSUME NEW s, NEW o, NEW p \in Nat \ {0}, NEW q \in Nat \ {0},
           s[p].tag # o, s[q].tag # o, M!Count(s, 1, p, o) = M!Count(s, 1, q, o)
    PROVE  p = q
<1>1. p < q => FALSE
  BY CountsUp
<1>2. q < p => FALSE
  BY CountsUp
<1> QED  BY <1>1, <1>2

LEMMA EntryIs ==
    ASSUME NEW s \in Seq(DiffLines), NEW o, NEW p \in 1..Len(s), s[p].tag # o
    PROVE  M!Entry(s, M!Count(s, 1, p, o), o) = p
<1>1. \A q \in 1..Len(s) : s[q].tag # o /\ M!Count(s, 1, q, o) = M!Count(s, 1, p, o) => q = p
  BY OneEntry
<1> QED  BY <1>1 DEF M!Entry

LEMMA EntryExists ==
    ASSUME NEW s \in Seq(DiffLines), NEW o, NEW k \in 1..M!Count(s, 1, Len(s), o)
    PROVE  \E p \in 1..Len(s) : s[p].tag # o /\ M!Count(s, 1, p, o) = k
<1> DEFINE T == {p \in Nat : M!Count(s, 1, p, o) >= k}
<1>1. T \in SUBSET Nat /\ Len(s) \in T /\ M!Count(s, 1, Len(s), o) \in Nat
  BY CountIs
<1>2. PICK p \in T : \A q \in T : p <= q
  <2> HIDE DEF T
  <2> QED  BY <1>1, LeastNumber
<1>3. p # 0
  BY CountIs
<1>4. p - 1 \in Nat /\ p - 1 \notin T /\ p <= Len(s)
  BY <1>1, <1>2, <1>3
<1>5. M!Count(s, 1, p, o) \in Nat /\ M!Count(s, 1, p - 1, o) \in Nat
  BY CountIs
<1>6. M!Count(s, 1, p, o) = M!Count(s, 1, p - 1, o) + IF s[p].tag # o THEN 1 ELSE 0
  BY <1>3, CountsUp
<1>7. M!Count(s, 1, p - 1, o) < k /\ M!Count(s, 1, p, o) >= k
  BY <1>4, <1>5
<1> QED  BY <1>3, <1>4, <1>5, <1>6, <1>7

(* The lines of a file are those of its entries, in their order.           *)
LEMMA SideIs ==
    ASSUME NEW s \in Seq(DiffLines), NEW o
    PROVE  /\ Len(M!Side(s, o)) = M!Count(s, 1, Len(s), o)
           /\ \A p \in 1..Len(s) : s[p].tag # o =>
                 /\ M!Count(s, 1, p, o) \in 1..Len(M!Side(s, o))
                 /\ M!Side(s, o)[M!Count(s, 1, p, o)] = s[p].text
<1>1. M!Count(s, 1, Len(s), o) \in Nat
  BY CountIs
<1>2. Len(M!Side(s, o)) = M!Count(s, 1, Len(s), o)
  BY <1>1 DEF M!Side
<1>3. ASSUME NEW p \in 1..Len(s), s[p].tag # o
      PROVE  /\ M!Count(s, 1, p, o) \in 1..Len(M!Side(s, o))
             /\ M!Side(s, o)[M!Count(s, 1, p, o)] = s[p].text
  <2>1. M!Count(s, 1, p, o) \in Nat /\ M!Count(s, 1, 0, o) = 0 /\ M!Count(s, 1, 0, o) < M!Count(s, 1, p, o)
    BY <1>3, CountIs, CountsUp
  <2>2. M!Count(s, 1, p, o) <= M!Count(s, 1, Len(s), o)
    BY CountsUp
  <2>3. M!Count(s, 1, p, o) \in 1..M!Count(s, 1, Len(s), o)
    BY <1>1, <2>1, <2>2
  <2> QED  BY <1>2, <1>3, <2>3, EntryIs DEF M!Side
<1> QED  BY <1>2, <1>3

(* The hunks of a diff: its largest runs of lines that are shown.          *)
Stretch(shown, a, b) ==
    a \in shown /\ b \in shown /\ a <= b /\ a..b \subseteq shown /\ a - 1 \notin shown /\ b + 1 \notin shown

LEMMA RunAround ==
    ASSUME NEW k \in Nat, NEW shown \in SUBSET (1..k), NEW q \in shown
    PROVE  \E a, b \in shown : Stretch(shown, a, b) /\ a <= q /\ q <= b
<1> DEFINE T == {x \in 1..q : x..q \subseteq shown}
<1>1. T \in SUBSET Nat /\ q \in T
  OBVIOUS
<1>2. PICK a \in T : \A x \in T : a <= x
  <2> HIDE DEF T
  <2> QED  BY <1>1, LeastNumber
<1>3. a \in shown /\ a <= q /\ a..q \subseteq shown
  OBVIOUS
<1>4. a - 1 \notin shown
  <2> SUFFICES ASSUME a - 1 \in shown PROVE FALSE
    OBVIOUS
  <2>1. \A y \in (a - 1)..q : y = a - 1 \/ y \in a..q
    BY <1>3
  <2>2. a - 1 \in T
    BY <1>3, <2>1
  <2> QED  BY <1>2, <1>3, <2>2
<1> DEFINE U == {d \in Nat : q + d + 1 \notin shown}
<1>5. U \in SUBSET Nat /\ k \in U
  OBVIOUS
<1>6. PICK d \in U : \A y \in U : d <= y
  <2> HIDE DEF U
  <2> QED  BY <1>5, LeastNumber
<1>7. \A e \in Nat : e < d => q + e + 1 \in shown
  BY <1>6
<1>8. \A y \in Nat : q < y /\ y <= q + d => y \in shown
  <2> SUFFICES ASSUME NEW y \in Nat, q < y, y <= q + d PROVE y \in shown
    OBVIOUS
  <2>1. y - q - 1 \in Nat /\ y - q - 1 < d /\ q + (y - q - 1) + 1 = y
    OBVIOUS
  <2> QED  BY <1>7, <2>1
<1>9. q + d \in shown /\ q + d + 1 \notin shown /\ q <= q + d
  BY <1>8
<1> HIDE DEF T, U
<1>10. a..(q + d) \subseteq shown
  BY <1>3, <1>8
<1>11. PICK b \in shown : b = q + d
  BY <1>9
<1>12. Stretch(shown, a, b) /\ a <= q /\ q <= b
  BY <1>3, <1>4, <1>9, <1>10, <1>11 DEF Stretch
<1> QED  BY <1>3, <1>11, <1>12, Zenon

LEMMA RunsApart ==
    ASSUME NEW k \in Nat, NEW shown \in SUBSET (1..k), NEW a, NEW b, NEW c, NEW d, NEW p \in Nat,
           Stretch(shown, a, b), Stretch(shown, c, d), a <= p, p <= b, c <= p, p <= d
    PROVE  a = c /\ b = d
<1>1. a \in Nat /\ b \in Nat /\ c \in Nat /\ d \in Nat
  BY DEF Stretch
<1>2. ~(a < c) /\ ~(c < a)
  <2>1. a < c => c - 1 \in a..b
    BY <1>1
  <2>2. c < a => a - 1 \in c..d
    BY <1>1
  <2> QED  BY <2>1, <2>2 DEF Stretch
<1>3. ~(b < d) /\ ~(d < b)
  <2>1. b < d => b + 1 \in c..d
    BY <1>1
  <2>2. d < b => d + 1 \in a..b
    BY <1>1
  <2> QED  BY <2>1, <2>2 DEF Stretch
<1> QED  BY <1>1, <1>2, <1>3

LEMMA HunksAre ==
    ASSUME NEW s \in Seq(DiffLines)
    PROVE  /\ M!Shown(s) \in SUBSET (1..Len(s))
           /\ \A h \in M!Hunks(s) : Stretch(M!Shown(s), h.first, h.last) /\ h = M!Hunk(s, h.first, h.last)
           /\ \A a, b \in M!Shown(s) : Stretch(M!Shown(s), a, b) => M!Hunk(s, a, b) \in M!Hunks(s)
<1> DEFINE shown == M!Shown(s)
           ends == {y \in shown \X shown :
                y[1]..y[2] \subseteq shown /\ y[1] <= y[2] /\ {y[1] - 1, y[2] + 1} \cap shown = {}}
<1>1. shown \in SUBSET (1..Len(s))
  BY DEF M!Shown
<1>2. M!Hunks(s) = {M!Hunk(s, x[1], x[2]) : x \in ends}
  BY <1>1 DEF M!Hunks
<1>3. \A x \in ends : Stretch(shown, x[1], x[2])
  BY DEF Stretch
<1>4. \A a, b \in shown : Stretch(shown, a, b) => <<a, b>> \in ends
  BY DEF Stretch
<1>5. \A a, b : M!Hunk(s, a, b).first = a /\ M!Hunk(s, a, b).last = b
  BY DEF M!Hunk
<1> HIDE DEF shown, ends
<1>6. \A h \in M!Hunks(s) : \E x \in ends : h = M!Hunk(s, x[1], x[2])
  BY <1>2, Zenon
<1>7. ASSUME NEW h \in M!Hunks(s) PROVE Stretch(shown, h.first, h.last) /\ h = M!Hunk(s, h.first, h.last)
  <2>1. PICK x \in ends : h = M!Hunk(s, x[1], x[2])
    BY <1>6, Zenon
  <2>2. h.first = x[1] /\ h.last = x[2]
    BY <1>5, <2>1, Zenon
  <2> QED  BY <1>3, <2>1, <2>2, Zenon
<1>8. ASSUME NEW a \in shown, NEW b \in shown, Stretch(shown, a, b) PROVE M!Hunk(s, a, b) \in M!Hunks(s)
  <2>1. <<a, b>> \in ends /\ <<a, b>>[1] = a /\ <<a, b>>[2] = b
    BY <1>4, <1>8
  <2> QED  BY <1>2, <2>1, Zenon
<1> QED  BY <1>1, <1>7, <1>8 DEF shown

(* What the header of a hunk says.                                         *)
LEMMA HeaderIs ==
    ASSUME NEW s \in Seq(DiffLines), NEW h \in M!Hunks(s)
    PROVE  /\ h.first \in 1..Len(s) /\ h.last \in 1..Len(s) /\ h.first <= h.last
           /\ h.old_count = M!Count(s, h.first, h.last, "+") /\ h.new_count = M!Count(s, h.first, h.last, "-")
           /\ h.old_count \in Nat /\ h.new_count \in Nat
           /\ h.old_start = M!Count(s, 1, h.first - 1, "+") + IF h.old_count = 0 THEN 0 ELSE 1
           /\ h.new_start = M!Count(s, 1, h.first - 1, "-") + IF h.new_count = 0 THEN 0 ELSE 1
           /\ M!Count(s, 1, h.last, "+") = M!Count(s, 1, h.first - 1, "+") + h.old_count
           /\ M!Count(s, 1, h.last, "-") = M!Count(s, 1, h.first - 1, "-") + h.new_count
<1>1. /\ h.first \in M!Shown(s) /\ h.last \in M!Shown(s) /\ h.first <= h.last /\ M!Shown(s) \in SUBSET (1..Len(s))
      /\ h = M!Hunk(s, h.first, h.last)
  BY HunksAre DEF Stretch
<1> DEFINE a == h.first  b == h.last
<1>2. a \in 1..Len(s) /\ b \in 1..Len(s) /\ a <= b
  BY <1>1
<1>3. /\ h.old_count = M!Count(s, a, b, "+") /\ h.new_count = M!Count(s, a, b, "-")
      /\ h.old_start = M!Start(s, a, b, "+") /\ h.new_start = M!Start(s, a, b, "-")
  <2>1. \A x, y : /\ M!Hunk(s, x, y).old_count = M!Count(s, x, y, "+") /\ M!Hunk(s, x, y).new_count = M!Count(s, x, y, "-")
                  /\ M!Hunk(s, x, y).old_start = M!Start(s, x, y, "+") /\ M!Hunk(s, x, y).new_start = M!Start(s, x, y, "-")
    BY DEF M!Hunk
  <2> QED  BY <1>1, <2>1, Zenon
<1> HIDE DEF a, b
<1>4. \A o : M!Count(s, a, b, o) \in Nat
  BY <1>2, CountIs
<1>5. \A o : M!Count(s, 1, b, o) = M!Count(s, 1, a - 1, o) + M!Count(s, a, b, o)
  <2>1. \A o : M!Count(s, 1, b, o) = M!Count(s, 1, a - 1, o) + M!Count(s, (a - 1) + 1, b, o)
    BY <1>2, CountSplit
  <2>2. (a - 1) + 1 = a
    BY <1>2
  <2> QED  BY <2>1, <2>2
<1> QED  BY <1>2, <1>3, <1>4, <1>5 DEF M!Start, a, b

(* The lines of the hunks of a set, and their number; with a tag o that no *)
(* line has, all of them.                                                  *)
Inside(s, o, T) == {p \in 1..Len(s) : s[p].tag # o /\ \E h \in T : h.first <= p /\ p <= h.last}
Amount(s, o, T) == Cardinality(Inside(s, o, T))

LEMMA AmountIs ==
    ASSUME NEW s \in Seq(DiffLines), NEW o, NEW T
    PROVE  IsFiniteSet(Inside(s, o, T)) /\ Amount(s, o, T) \in Nat
<1>1. IsFiniteSet(1..Len(s)) /\ Inside(s, o, T) \in SUBSET (1..Len(s))
  BY FS_Interval DEF Inside
<1> QED  BY <1>1, FS_Subset, FS_CardinalityType DEF Amount

LEMMA AmountStep ==
    ASSUME NEW s \in Seq(DiffLines), NEW o, NEW T \in SUBSET M!Hunks(s), NEW h \in T
    PROVE  Amount(s, o, T) = M!Count(s, h.first, h.last, o) + Amount(s, o, T \ {h})
<1> DEFINE all == Inside(s, o, T)  rest == Inside(s, o, T \ {h})  here == Entries(s, o, h.first, h.last)
<1>1. h.first \in 1..Len(s) /\ h.last \in 1..Len(s)
  BY HeaderIs
<1>2. all = here \cup rest
  BY <1>1 DEF Inside, Entries
<1>3. here \cap rest = {}
  <2> SUFFICES ASSUME NEW p \in here, p \in rest PROVE FALSE
    OBVIOUS
  <2>1. PICK g \in T \ {h} : g.first <= p /\ p <= g.last
    BY DEF Inside
  <2>2. p \in Nat /\ h.first <= p /\ p <= h.last
    BY <1>1 DEF Entries
  <2>3. /\ Stretch(M!Shown(s), h.first, h.last) /\ h = M!Hunk(s, h.first, h.last)
        /\ Stretch(M!Shown(s), g.first, g.last) /\ g = M!Hunk(s, g.first, g.last)
    BY <2>1, HunksAre
  <2>4. h.first = g.first /\ h.last = g.last
    <3>1. Len(s) \in Nat /\ M!Shown(s) \in SUBSET (1..Len(s))
      BY HunksAre
    <3> QED  BY <2>1, <2>2, <2>3, <3>1, RunsApart
  <2> QED  BY <2>1, <2>3, <2>4, Zenon
<1>4. /\ IsFiniteSet(here) /\ M!Count(s, h.first, h.last, o) = Cardinality(here)
      /\ IsFiniteSet(rest) /\ Amount(s, o, T \ {h}) = Cardinality(rest) /\ Amount(s, o, T) = Cardinality(all)
  BY <1>1, EntriesFinite, AmountIs DEF Amount
<1> HIDE DEF all, rest, here
<1>5. Cardinality(here \cap rest) = 0 /\ Cardinality(here) \in Nat /\ Cardinality(rest) \in Nat
  BY <1>3, <1>4, FS_EmptySet, FS_CardinalityType
<1>6. Cardinality(here \cup rest) = Cardinality(here) + Cardinality(rest) - Cardinality(here \cap rest)
  BY <1>4, FS_Union
<1> QED  BY <1>2, <1>4, <1>5, <1>6

LEMMA AmountNone ==
    ASSUME NEW s \in Seq(DiffLines), NEW o
    PROVE  Amount(s, o, {}) = 0
<1>1. Inside(s, o, {}) = {}
  BY DEF Inside
<1> QED  BY <1>1, FS_EmptySet DEF Amount

(* What the hunks of a set add, added up in any order.                     *)
Gain(s, T) == Amount(s, "-", T) - Amount(s, "+", T)
Chosen(t) == CHOOSE h \in t : TRUE
Sums(f, T) ==
    f = [t \in SUBSET T |->
            IF t = {} THEN 0
            ELSE (Chosen(t).new_count - Chosen(t).old_count) + f[t \ {Chosen(t)}]]

LEMMA GainStep ==
    ASSUME NEW s \in Seq(DiffLines), NEW T \in SUBSET M!Hunks(s), NEW h \in T
    PROVE  /\ Gain(s, T) = (h.new_count - h.old_count) + Gain(s, T \ {h})
           /\ Amount(s, "none", T \ {h}) < Amount(s, "none", T)
<1>1. \A o : Amount(s, o, T) = M!Count(s, h.first, h.last, o) + Amount(s, o, T \ {h})
  BY AmountStep
<1>2. \A o : Amount(s, o, T \ {h}) \in Nat
  BY AmountIs
<1>3. /\ h.first \in 1..Len(s) /\ h.last \in 1..Len(s) /\ h.first <= h.last
      /\ h.old_count = M!Count(s, h.first, h.last, "+") /\ h.new_count = M!Count(s, h.first, h.last, "-")
      /\ h.old_count \in Nat /\ h.new_count \in Nat
  BY HeaderIs
<1>4. M!Count(s, h.first, h.last, "none") \in Nat /\ M!Count(s, h.first, h.last, "none") >= 1
  <2>1. M!Count(s, h.first, h.last, "none")
        = M!Count(s, h.first, h.first, "none") + M!Count(s, h.first + 1, h.last, "none")
    BY <1>3, CountSplit
  <2>2. M!Count(s, h.first + 1, h.last, "none") \in Nat
    BY <1>3, CountIs
  <2>3. M!Count(s, h.first, h.first, "none") = 1
    <3>1. \A p \in 1..Len(s) : s[p] \in DiffLines
      OBVIOUS
    <3>2. \A l \in DiffLines : l.tag # "none"
      BY DEF DiffLines
    <3> QED  BY <1>3, <3>1, <3>2, CountOne
  <2> QED  BY <2>1, <2>2, <2>3
<1>5. /\ Amount(s, "-", T) = h.new_count + Amount(s, "-", T \ {h})
      /\ Amount(s, "+", T) = h.old_count + Amount(s, "+", T \ {h})
      /\ Amount(s, "none", T) = M!Count(s, h.first, h.last, "none") + Amount(s, "none", T \ {h})
  BY <1>1, <1>3
<1>6. /\ Amount(s, "-", T \ {h}) \in Nat /\ Amount(s, "+", T \ {h}) \in Nat
      /\ Amount(s, "none", T \ {h}) \in Nat
  BY <1>2
<1> QED  BY <1>3, <1>4, <1>5, <1>6 DEF Gain

LEMMA GainSums ==
    ASSUME NEW s \in Seq(DiffLines), NEW T \in SUBSET M!Hunks(s)
    PROVE  Sums([t \in SUBSET T |-> Gain(s, t)], T)
<1>1. Gain(s, {}) = 0
  BY AmountNone DEF Gain
<1>2. ASSUME NEW t \in SUBSET T, t # {}
      PROVE  Gain(s, t) = (Chosen(t).new_count - Chosen(t).old_count) + Gain(s, t \ {Chosen(t)})
  <2>1. Chosen(t) \in t
    BY <1>2 DEF Chosen
  <2> QED  BY <2>1, GainStep
<1> QED  BY <1>1, <1>2 DEF Sums

LEMMA SumsOnce ==
    ASSUME NEW s \in Seq(DiffLines), NEW T \in SUBSET M!Hunks(s), NEW f, Sums(f, T)
    PROVE  f[T] = Gain(s, T)
<1> DEFINE Odd(t) == f[t] # Gain(s, t)
           U == {k \in Nat : \E t \in SUBSET T : Amount(s, "none", t) = k /\ Odd(t)}
<1>1. SUFFICES ASSUME NEW r \in SUBSET T, Odd(r) PROVE FALSE
  OBVIOUS
<1>2. U \in SUBSET Nat /\ Amount(s, "none", r) \in U
  BY <1>1, AmountIs
<1>3. PICK k \in U : \A j \in U : k <= j
  <2> HIDE DEF U
  <2> QED  BY <1>2, LeastNumber
<1>4. PICK t \in SUBSET T : Amount(s, "none", t) = k /\ Odd(t)
  OBVIOUS
<1>5. t # {}
  <2>1. f[{}] = 0
    BY DEF Sums
  <2>2. Gain(s, {}) = 0
    BY AmountNone DEF Gain
  <2> QED  BY <1>4, <2>1, <2>2
<1> DEFINE h == Chosen(t)
<1>6. h \in t /\ t \ {h} \in SUBSET T
  BY <1>5 DEF Chosen
<1>7. f[t] = (h.new_count - h.old_count) + f[t \ {h}]
  BY <1>5 DEF Sums
<1> HIDE DEF h
<1>8. /\ Gain(s, t) = (h.new_count - h.old_count) + Gain(s, t \ {h})
      /\ Amount(s, "none", t \ {h}) < Amount(s, "none", t)
  BY <1>6, GainStep
<1>9. Odd(t \ {h})
  BY <1>4, <1>7, <1>8
<1>10. Amount(s, "none", t \ {h}) \in U
  BY <1>6, <1>9, AmountIs
<1>11. k <= Amount(s, "none", t \ {h}) /\ Amount(s, "none", t \ {h}) \in Nat /\ k \in Nat
  BY <1>3, <1>10
<1> QED  BY <1>4, <1>8, <1>11

LEMMA DeltaIs ==
    ASSUME NEW s \in Seq(DiffLines), NEW line
    PROVE  M!Delta(M!Hunks(s), line) = Gain(s, {h \in M!Hunks(s) : M!Before(h, line)})
<1> DEFINE T == {h \in M!Hunks(s) : M!Before(h, line)}
           f == CHOOSE x : Sums(x, T)
<1>1. T \in SUBSET M!Hunks(s)
  OBVIOUS
<1>2. M!Delta(M!Hunks(s), line) = f[T]
  BY Zenon DEF M!Delta, M!MapThenSumSet, M!MapThenFoldSet, Sums, Chosen
<1> HIDE DEF T
<1>3. Sums(f, T)
  BY <1>1, GainSums, Zenon
<1> HIDE DEF f
<1>4. f[T] = Gain(s, T)
  BY <1>1, <1>3, SumsOnce
<1> QED  BY <1>2, <1>4, Zenon DEF T

(* The lines that are shown lie in hunks; what is not shown was kept.      *)
LEMMA NotShown ==
    ASSUME NEW s \in Seq(DiffLines), NEW p \in 1..Len(s), p \notin M!Shown(s)
    PROVE  s[p].tag = " "
<1>1. Context \in Nat
  BY TargetsAssumption DEF M!MappingAssumption
<1>2. p - p <= Context
  BY <1>1
<1> QED  BY <1>2 DEF M!Shown

LEMMA ShownInHunk ==
    ASSUME NEW s \in Seq(DiffLines), NEW p \in M!Shown(s)
    PROVE  \E h \in M!Hunks(s) : h.first <= p /\ p <= h.last
<1>1. M!Shown(s) \in SUBSET (1..Len(s)) /\ Len(s) \in Nat
  BY HunksAre
<1>2. PICK a, b \in M!Shown(s) : Stretch(M!Shown(s), a, b) /\ a <= p /\ p <= b
  BY <1>1, RunAround
<1>3. M!Hunk(s, a, b) \in M!Hunks(s)
  BY <1>2, HunksAre
<1>4. M!Hunk(s, a, b).first = a /\ M!Hunk(s, a, b).last = b
  BY DEF M!Hunk
<1> QED  BY <1>2, <1>3, <1>4, Zenon

LEMMA HunkShown ==
    ASSUME NEW s \in Seq(DiffLines), NEW h \in M!Hunks(s), NEW p \in Nat, h.first <= p, p <= h.last
    PROVE  p \in M!Shown(s)
<1>1. Stretch(M!Shown(s), h.first, h.last) /\ h.first \in 1..Len(s) /\ h.last \in 1..Len(s)
  BY HunksAre, HeaderIs
<1>2. p \in h.first..h.last
  BY <1>1
<1> QED  BY <1>1, <1>2 DEF Stretch

(* What lies beside a change is shown.                                     *)
Change(s, p) == s[p].tag # " "

LEMMA BesideShown ==
    ASSUME NEW s \in Seq(DiffLines), NEW c \in 1..Len(s), NEW p \in 1..Len(s),
           Change(s, c), c = p + 1 \/ p = c + 1
    PROVE  p \in M!Shown(s)
<1>1. Context \in Nat /\ Context >= 1
  BY TargetsAssumption DEF M!MappingAssumption
<1>2. c - p <= Context /\ p - c <= Context
  BY <1>1
<1> QED  BY <1>2, Zenon DEF M!Shown, Change

(* A hunk without a line of the old file is the whole of the diff: a kept  *)
(* or removed line beside its first addition would be shown.               *)
LEMMA HunkHasOld ==
    ASSUME NEW s \in Seq(DiffLines), NEW h \in M!Hunks(s), h.old_count = 0
    PROVE  h.first = 1 /\ h.last = Len(s)
<1> DEFINE shown == M!Shown(s)
<1>1. /\ Stretch(shown, h.first, h.last) /\ h.first \in 1..Len(s) /\ h.last \in 1..Len(s) /\ h.first <= h.last
      /\ M!Count(s, h.first, h.last, "+") = 0
  BY HunksAre, HeaderIs
<1>2. ASSUME NEW p \in h.first..h.last PROVE s[p].tag = "+"
  <2>1. p \in Entries(s, "+", h.first, h.last) \/ s[p].tag = "+"
    BY DEF Entries
  <2>2. Entries(s, "+", h.first, h.last) = {}
    BY <1>1, EntriesFinite, FS_EmptySet
  <2> QED  BY <2>1, <2>2
<1>3. Change(s, h.first) /\ Change(s, h.last)
  <2>1. h.first \in h.first..h.last /\ h.last \in h.first..h.last
    BY <1>1
  <2>2. \A p : s[p].tag = "+" => Change(s, p)
    BY Zenon DEF Change
  <2> QED  BY <1>2, <2>1, <2>2
<1>4. ASSUME NEW c \in 1..Len(s), NEW p \in 1..Len(s), Change(s, c), c = p + 1 \/ p = c + 1
      PROVE  p \in shown
  BY <1>4, BesideShown
<1> HIDE DEF shown
<1>5. h.first - 1 \in 1..Len(s) => h.first - 1 \in shown
  <2> SUFFICES ASSUME NEW p \in 1..Len(s), p = h.first - 1 PROVE p \in shown
    OBVIOUS
  <2>1. h.first = p + 1
    BY <1>1
  <2> QED  BY <1>1, <1>3, <1>4, <2>1
<1>6. h.last + 1 \in 1..Len(s) => h.last + 1 \in shown
  <2> SUFFICES ASSUME NEW p \in 1..Len(s), p = h.last + 1 PROVE p \in shown
    OBVIOUS
  <2>1. p = h.last + 1
    BY <1>1
  <2> QED  BY <1>1, <1>3, <1>4, <2>1
<1> QED  BY <1>1, <1>5, <1>6 DEF Stretch

(* The hunk a line of the old file is in is the one its header says.       *)
LEMMA HunkOfLine ==
    ASSUME NEW s \in Seq(DiffLines), NEW h \in M!Hunks(s), NEW p \in 1..Len(s), s[p].tag # "+"
    PROVE  LET line == M!Count(s, 1, p, "+")
           IN  /\ h.old_start <= line /\ line < h.old_start + h.old_count <=> h.first <= p /\ p <= h.last
               /\ h.old_count # 0 => (M!Before(h, line) <=> h.last < p)
<1> DEFINE line == M!Count(s, 1, p, "+")
           before == M!Count(s, 1, h.first - 1, "+")
           to == M!Count(s, 1, h.last, "+")
<1>1. /\ h.first \in 1..Len(s) /\ h.last \in 1..Len(s) /\ h.first <= h.last /\ h.old_count \in Nat
      /\ h.old_start = before + IF h.old_count = 0 THEN 0 ELSE 1
      /\ to = before + h.old_count
  BY HeaderIs
<1>2. line \in Nat /\ before \in Nat /\ to \in Nat
  BY <1>1, CountIs
<1>3. h.first <= p => before < line
  BY <1>1, CountsUp
<1>4. p < h.first => line <= before
  BY <1>1, CountsUp
<1>5. p <= h.last => line <= to
  BY <1>1, CountsUp
<1>6. h.last < p => to < line
  BY <1>1, CountsUp
<1> HIDE DEF line, before, to
<1>7. h.old_start <= line /\ line < h.old_start + h.old_count <=> h.first <= p /\ p <= h.last
  BY <1>1, <1>2, <1>3, <1>4, <1>5, <1>6
<1>8. h.old_count # 0 => (h.old_start + h.old_count - 1 < line <=> h.last < p)
  BY <1>1, <1>2, <1>5, <1>6
<1> QED  BY <1>7, <1>8 DEF M!Before, line

(* A line that is in a hunk: the entry is found again, and counted on from *)
(* the header.                                                             *)
LEMMA MapsInHunk ==
    ASSUME NEW s \in Seq(DiffLines), NEW p \in 1..Len(s), s[p].tag # "+", p \in M!Shown(s)
    PROVE  M!MapLine(s, M!Hunks(s), M!Count(s, 1, p, "+"))
           = IF s[p].tag = "-" THEN 0 ELSE M!Count(s, 1, p, "-")
<1> DEFINE line == M!Count(s, 1, p, "+")
           here == {h \in M!Hunks(s) : h.old_start <= line /\ line < h.old_start + h.old_count}
<1>1. PICK h \in M!Hunks(s) : h.first <= p /\ p <= h.last
  BY ShownInHunk
<1>2. ASSUME NEW g \in M!Hunks(s), g.first <= p, p <= g.last PROVE g = h
  <2>1. /\ Stretch(M!Shown(s), h.first, h.last) /\ h = M!Hunk(s, h.first, h.last)
        /\ Stretch(M!Shown(s), g.first, g.last) /\ g = M!Hunk(s, g.first, g.last)
        /\ Len(s) \in Nat /\ M!Shown(s) \in SUBSET (1..Len(s)) /\ p \in Nat
    BY HunksAre
  <2>2. h.first = g.first /\ h.last = g.last
    BY <1>1, <1>2, <2>1, RunsApart
  <2> QED  BY <2>1, <2>2, Zenon
<1>3. here = {h}
  <2>1. \A g \in M!Hunks(s) :
           (g.old_start <= line /\ line < g.old_start + g.old_count) <=> (g.first <= p /\ p <= g.last)
    BY HunkOfLine
  <2> QED  BY <1>1, <1>2, <2>1
<1>4. /\ h.first \in 1..Len(s) /\ h.last \in 1..Len(s)
      /\ h.old_count \in Nat /\ h.new_count \in Nat
      /\ h.old_start = M!Count(s, 1, h.first - 1, "+") + IF h.old_count = 0 THEN 0 ELSE 1
      /\ h.new_start = M!Count(s, 1, h.first - 1, "-") + IF h.new_count = 0 THEN 0 ELSE 1
      /\ h.new_count = M!Count(s, h.first, h.last, "-") /\ h.old_count = M!Count(s, h.first, h.last, "+")
  BY HeaderIs
<1>5. ASSUME NEW q \in h.first..h.last, NEW o
      PROVE  /\ M!Count(s, 1, h.first - 1, o) \in Nat /\ M!Count(s, h.first, q - 1, o) \in Nat
             /\ M!Count(s, 1, q - 1, o) = M!Count(s, 1, h.first - 1, o) + M!Count(s, h.first, q - 1, o)
             /\ M!Count(s, 1, q, o) = M!Count(s, 1, q - 1, o) + IF s[q].tag # o THEN 1 ELSE 0
             /\ s[q].tag # o => M!Count(s, h.first, h.last, o) > 0
  <2>1. M!Count(s, 1, q - 1, o) = M!Count(s, 1, h.first - 1, o) + M!Count(s, (h.first - 1) + 1, q - 1, o)
    BY <1>4, CountSplit
  <2>2. (h.first - 1) + 1 = h.first /\ q \in Nat /\ q > 0
    BY <1>4
  <2>3. M!Count(s, 1, q, o) = M!Count(s, 1, q - 1, o) + IF s[q].tag # o THEN 1 ELSE 0
    BY <2>2, CountsUp
  <2>4. M!Count(s, 1, h.first - 1, o) \in Nat /\ M!Count(s, h.first, q - 1, o) \in Nat
    BY <1>4, CountIs
  <2>5. M!Count(s, h.first, h.last, o) = M!Count(s, h.first, q - 1, o) + M!Count(s, (q - 1) + 1, h.last, o)
    BY <1>4, CountSplit
  <2>6. M!Count(s, q, h.last, o) = M!Count(s, q, q, o) + M!Count(s, q + 1, h.last, o)
    BY <1>4, CountSplit
  <2>7. M!Count(s, q + 1, h.last, o) \in Nat /\ M!Count(s, q, q, o) = IF s[q].tag # o THEN 1 ELSE 0
    BY <1>4, CountIs, CountOne
  <2>8. (q - 1) + 1 = q
    BY <2>2
  <2> QED  BY <2>1, <2>2, <2>3, <2>4, <2>5, <2>6, <2>7, <2>8
<1>6. h.old_count > 0 /\ h.old_start = M!Count(s, 1, h.first - 1, "+") + 1
  BY <1>1, <1>4, <1>5
<1>7. \A q \in h.first..h.last :
         s[q].tag # "+" => (h.old_start + M!Count(s, h.first, q - 1, "+") = M!Count(s, 1, q, "+"))
  BY <1>5, <1>6
<1>8. M!InHunk(s, h, line) = p
  <2>1. p \in h.first..h.last
    BY <1>1, <1>4
  <2>2. \A q \in h.first..h.last : s[q].tag # "+" /\ M!Count(s, 1, q, "+") = line => q = p
    BY <1>4, OneEntry
  <2> HIDE DEF line
  <2>3. \A q \in h.first..h.last :
           s[q].tag # "+" /\ h.old_start + M!Count(s, h.first, q - 1, "+") = line <=> q = p
    BY <1>7, <2>1, <2>2 DEF line
  <2> QED  BY <2>1, <2>3 DEF M!InHunk
<1>9. s[p].tag # "-" => h.new_start + M!Count(s, h.first, p - 1, "-") = M!Count(s, 1, p, "-")
  <2>1. p \in h.first..h.last
    BY <1>1, <1>4
  <2>2. /\ M!Count(s, 1, h.first - 1, "-") \in Nat /\ M!Count(s, h.first, p - 1, "-") \in Nat
        /\ M!Count(s, 1, p - 1, "-") = M!Count(s, 1, h.first - 1, "-") + M!Count(s, h.first, p - 1, "-")
        /\ M!Count(s, 1, p, "-") = M!Count(s, 1, p - 1, "-") + IF s[p].tag # "-" THEN 1 ELSE 0
        /\ s[p].tag # "-" => M!Count(s, h.first, h.last, "-") > 0
    BY <1>5, <2>1
  <2> QED  BY <1>4, <2>2
<1> HIDE DEF line
<1>10. (CHOOSE x \in here : TRUE) = h /\ here # {}
  BY <1>3
<1>11. M!MapLine(s, M!Hunks(s), line)
       = IF s[p].tag = "-" THEN 0 ELSE h.new_start + M!Count(s, h.first, p - 1, "-")
  BY <1>8, <1>10, Zenon DEF M!MapLine
<1> QED  BY <1>9, <1>11 DEF line

(* A line that no hunk shows moves by what the hunks before it add.        *)
LEMMA MapsBetween ==
    ASSUME NEW s \in Seq(DiffLines), NEW p \in 1..Len(s), p \notin M!Shown(s)
    PROVE  M!MapLine(s, M!Hunks(s), M!Count(s, 1, p, "+")) = M!Count(s, 1, p, "-")
<1> DEFINE line == M!Count(s, 1, p, "+")
           here == {h \in M!Hunks(s) : h.old_start <= line /\ line < h.old_start + h.old_count}
           past == {h \in M!Hunks(s) : M!Before(h, line)}
           gap == {q \in 1..p : q \notin M!Shown(s)}
<1>1. s[p].tag = " "
  BY NotShown
<1>2. \A h \in M!Hunks(s) : ~(h.first <= p /\ p <= h.last)
  BY HunkShown
<1>3. here = {}
  <2>1. \A h \in M!Hunks(s) :
           (h.old_start <= line /\ line < h.old_start + h.old_count) <=> (h.first <= p /\ p <= h.last)
    BY <1>1, HunkOfLine
  <2> QED  BY <1>2, <2>1
<1>4. \A h \in M!Hunks(s) : h.old_count # 0
  BY <1>2, HunkHasOld
<1>5. \A h \in M!Hunks(s) : h \in past <=> h.last < p
  BY <1>1, <1>4, HunkOfLine
<1>6. ASSUME NEW o, o # " "
      PROVE  /\ Entries(s, o, 1, p) = Inside(s, o, past) \cup gap
             /\ Inside(s, o, past) \cap gap = {}
  <2>1. ASSUME NEW q \in Entries(s, o, 1, p), q \notin gap PROVE q \in Inside(s, o, past)
    <3>1. q \in 1..p /\ q \in M!Shown(s) /\ s[q].tag # o
      BY <2>1 DEF Entries
    <3>2. PICK h \in M!Hunks(s) : h.first <= q /\ q <= h.last
      BY <3>1, ShownInHunk
    <3>3. h.first \in Nat /\ h.last \in Nat /\ q # p
      BY <3>1, HeaderIs
    <3>4. h.last < p
      BY <1>2, <3>1, <3>2, <3>3
    <3>5. h \in past
      BY <1>5, <3>4
    <3> QED  BY <3>1, <3>2, <3>5 DEF Inside
  <2>2. ASSUME NEW q \in gap PROVE q \in Entries(s, o, 1, p)
    <3>1. q \in 1..Len(s) /\ q \notin M!Shown(s) /\ q \in 1..p
      OBVIOUS
    <3>2. s[q].tag = " "
      BY <3>1, NotShown
    <3> QED  BY <1>6, <3>1, <3>2 DEF Entries
  <2>3. ASSUME NEW q \in Inside(s, o, past) PROVE q \in Entries(s, o, 1, p) /\ q \notin gap
    <3>1. PICK h \in past : h.first <= q /\ q <= h.last
      BY DEF Inside
    <3>2. h \in M!Hunks(s) /\ h.last < p /\ h.last \in Nat /\ q \in 1..Len(s) /\ s[q].tag # o
      BY <1>5, HeaderIs DEF Inside
    <3>3. q \in M!Shown(s)
      BY <3>1, <3>2, HunkShown
    <3> QED  BY <3>1, <3>2, <3>3 DEF Entries
  <2> HIDE DEF gap, past
  <2> QED  BY <2>1, <2>2, <2>3
<1>7. IsFiniteSet(gap)
  <2>1. IsFiniteSet(1..p) /\ gap \in SUBSET (1..p)
    BY FS_Interval
  <2> QED  BY <2>1, FS_Subset
<1>8. ASSUME NEW o, o # " " PROVE M!Count(s, 1, p, o) = Amount(s, o, past) + Cardinality(gap)
  <2>1. IsFiniteSet(Inside(s, o, past))
    BY AmountIs
  <2>2. M!Count(s, 1, p, o) = Cardinality(Inside(s, o, past) \cup gap)
    <3>1. M!Count(s, 1, p, o) = Cardinality(Entries(s, o, 1, p))
      BY EntriesFinite
    <3> HIDE DEF past, gap
    <3> QED  BY <1>6, <1>8, <3>1
  <2>3. /\ Cardinality(Inside(s, o, past) \cap gap) = 0
        /\ Cardinality(Inside(s, o, past)) \in Nat /\ Cardinality(gap) \in Nat
    BY <1>6, <1>7, <1>8, <2>1, FS_EmptySet, FS_CardinalityType
  <2> HIDE DEF past, gap
  <2>4. Cardinality(Inside(s, o, past) \cup gap)
        = Cardinality(Inside(s, o, past)) + Cardinality(gap) - Cardinality(Inside(s, o, past) \cap gap)
    BY <1>7, <2>1, FS_Union
  <2> QED  BY <2>2, <2>3, <2>4 DEF Amount
<1>9. M!Delta(M!Hunks(s), line) = Amount(s, "-", past) - Amount(s, "+", past)
  BY DeltaIs DEF Gain
<1>10. Amount(s, "-", past) \in Nat /\ Amount(s, "+", past) \in Nat /\ Cardinality(gap) \in Nat
  BY <1>7, AmountIs, FS_CardinalityType
<1>11. line = Amount(s, "+", past) + Cardinality(gap) /\ M!Count(s, 1, p, "-") = Amount(s, "-", past) + Cardinality(gap)
  BY <1>8
<1> HIDE DEF line, past, gap
<1>12. M!MapLine(s, M!Hunks(s), line) = line + M!Delta(M!Hunks(s), line)
  BY <1>3, Zenon DEF M!MapLine
<1> QED  BY <1>9, <1>10, <1>11, <1>12 DEF line

(* The numbers made of the headers are those of the diff.                  *)
LEMMA MapsRightly ==
    ASSUME NEW s \in Seq(DiffLines), NEW p \in 1..Len(s), s[p].tag # "+"
    PROVE  M!MapLine(s, M!Hunks(s), M!Count(s, 1, p, "+"))
           = IF s[p].tag = "-" THEN 0 ELSE M!Count(s, 1, p, "-")
<1>1. CASE p \in M!Shown(s)
  BY <1>1, MapsInHunk
<1>2. CASE p \notin M!Shown(s)
  BY <1>2, MapsBetween, NotShown
<1> QED  BY <1>1, <1>2

LEMMA LineHasEntry ==
    ASSUME NEW s \in Seq(DiffLines), NEW l \in 1..Len(M!Old(s))
    PROVE  \E p \in 1..Len(s) : s[p].tag # "+" /\ l = M!Count(s, 1, p, "+") /\ M!Entry(s, l, "+") = p
<1>1. Len(M!Old(s)) = M!Count(s, 1, Len(s), "+")
  BY SideIs DEF M!Old
<1>2. PICK p \in 1..Len(s) : s[p].tag # "+" /\ M!Count(s, 1, p, "+") = l
  BY <1>1, EntryExists
<1> QED  BY <1>2, EntryIs

(* However git cuts a diff into hunks, finalize and map_line find a kept   *)
(* line at its place and a removed one nowhere (FileChange).               *)
LEMMA NumbersHold ==
    ASSUME NEW s \in Seq(DiffLines), NEW l \in 1..Len(M!Old(s))
    PROVE  M!MapLine(s, M!Hunks(s), l) = M!Place(s, l)
<1>1. PICK p \in 1..Len(s) : s[p].tag # "+" /\ l = M!Count(s, 1, p, "+") /\ M!Entry(s, l, "+") = p
  BY LineHasEntry
<1>2. M!MapLine(s, M!Hunks(s), l) = IF s[p].tag = "-" THEN 0 ELSE M!Count(s, 1, p, "-")
  BY <1>1, MapsRightly
<1> QED  BY <1>1, <1>2 DEF M!Place

(* A line of the base that the diff keeps is where its text is; one that   *)
(* it removes has no place.                                                *)
LEMMA PlaceKeepsText ==
    ASSUME NEW s \in Seq(DiffLines), NEW l \in 1..Len(M!Old(s)), M!Place(s, l) # 0
    PROVE  M!Place(s, l) \in 1..Len(M!New(s)) /\ M!New(s)[M!Place(s, l)] = M!Old(s)[l]
<1>1. PICK p \in 1..Len(s) : s[p].tag # "+" /\ l = M!Count(s, 1, p, "+") /\ M!Entry(s, l, "+") = p
  BY LineHasEntry
<1>2. s[p].tag # "-" /\ M!Place(s, l) = M!Count(s, 1, p, "-")
  BY <1>1 DEF M!Place
<1>3. M!Old(s)[l] = s[p].text
  BY <1>1, SideIs DEF M!Old
<1>4. M!Place(s, l) \in 1..Len(M!New(s)) /\ M!New(s)[M!Place(s, l)] = s[p].text
  BY <1>2, SideIs DEF M!New
<1> QED  BY <1>3, <1>4

(* _map_one: what it maps on its own stays in its function.                *)
LEMMA TrackedStays ==
    ASSUME NEW old, NEW l, NEW new, NEW place, NEW row,
           row = M!Tracked(old, l, new, place), row.status = "mapped"
    PROVE  M!SameFunction(old, l, new, row.line)
<1>1. \A x, b : M!To(x, b).line = x /\ M!Ask(b).status # "mapped"
  BY DEF M!To, M!Ask
<1> QED  BY <1>1, Zenon DEF M!Tracked

LEMMA SearchedStays ==
    ASSUME NEW old, NEW l, NEW new, NEW renamed, NEW row,
           row = M!Searched(old, l, new, TRUE, renamed), row.status = "mapped"
    PROVE  M!SameFunction(old, l, new, row.line)
<1>1. \A x, b : M!To(x, b).line = x /\ M!Ask(b).status # "mapped" /\ M!Deleted(b).status # "mapped"
  BY DEF M!To, M!Ask, M!Deleted
<1>2. M!Nowhere(TRUE, renamed).status # "mapped"
  BY <1>1, Zenon DEF M!Nowhere
<1>3. PICK x : row = M!OnlyOne(old, l, new, x, TRUE, renamed)
  BY <1>1, <1>2, Zenon DEF M!Searched
<1>4. M!SameFunction(old, l, new, x) /\ row = M!To(x, "found")
  BY <1>1, <1>3, Zenon DEF M!OnlyOne
<1> QED  BY <1>1, <1>4, Zenon

LEMMA MappedInFunction ==
    ASSUME NEW s \in Seq(DiffLines), NEW l \in 1..Len(M!Old(s)), NEW what, NEW row,
           row = M!MapOne(M!Old(s), l, M!New(s), M!Old(s)[l], M!MapLine(s, M!Hunks(s), l), what),
           row.status = "mapped"
    PROVE  M!SameFunction(M!Old(s), l, M!New(s), row.line)
<1> DEFINE old == M!Old(s)  new == M!New(s)  place == M!Place(s, l)
<1>1. row = M!MapOne(old, l, new, old[l], place, what)
  BY NumbersHold
<1>2. place # 0 => place \in 1..Len(new) /\ new[place] = M!Anchor(old, l, old[l])
  BY PlaceKeepsText DEF M!Anchor
<1>3. place = 0 => place \notin 1..Len(new)
  OBVIOUS
<1>4. M!Deleted("file_deleted").status # "mapped"
  BY DEF M!Deleted
<1> HIDE DEF old, new, place
<1>5. CASE place # 0
  <2>1. row = M!Tracked(old, l, new, place)
    BY <1>1, <1>2, <1>4, <1>5, Zenon DEF M!MapOne
  <2> QED  BY <2>1, TrackedStays, Zenon DEF old, new
<1>6. CASE place = 0
  <2>1. (place = 0) = TRUE
    BY <1>6
  <2>2. row = M!Searched(old, l, new, TRUE, what = "renamed")
    BY <1>1, <1>3, <1>4, <1>6, <2>1, Zenon DEF M!MapOne
  <2> QED  BY <2>2, SearchedStays, Zenon DEF old, new
<1> QED  BY <1>5, <1>6

-----------------------------------------------------------------------------
(* The diff is one, and what was mapped when the base's lines are the      *)
(* targets stayed in its function.                                         *)
MapInv == script \in Seq(DiffLines) /\ M!StaysInFunction

LEMMA WriteStays ==
    ASSUME MapInv, NEW tag \in {" ", "-", "+"}, NEW text \in M!Lines, M!Write(tag, text)
    PROVE  MapInv'
<1>1. [tag |-> tag, text |-> text] \in DiffLines
  BY Zenon DEF DiffLines
<1>2. script' = Append(script, [tag |-> tag, text |-> text]) /\ fate' = "open"
  BY Zenon DEF M!Write
<1>3. script' \in Seq(DiffLines)
  BY <1>1, <1>2, AppendProperties DEF MapInv
<1>4. "open" \notin {"kept", "renamed"}
  OBVIOUS
<1> QED  BY <1>2, <1>3, <1>4, Zenon DEF MapInv, M!StaysInFunction

LEMMA RefreshStays ==
    ASSUME MapInv, NEW what, NEW others, NEW new, M!Refresh(what, others, new)
    PROVE  MapInv'
<1>1. script' = script /\ version' = new
  BY Zenon DEF M!Refresh
<1>2. SUFFICES ASSUME fate' \in {"kept", "renamed"}, new = "base", NEW l \in DOMAIN mapping',
                      mapping'[l].status = "mapped"
               PROVE  M!SameFunction(M!Old(script), l, M!New(script), mapping'[l].line)
  BY <1>1, Zenon DEF MapInv, M!StaysInFunction
<1>3. mapping' = M!Mapped(script, M!Hunks(script), what, "base")
  <2>1. fate' # "raised"
    BY <1>2
  <2> QED  BY <1>2, <2>1, Zenon DEF M!Refresh
<1>4. M!Targets(script, "base") = M!Old(script)
  BY DEF M!Targets
<1>5. mapping' = [x \in 1..Len(M!Old(script)) |->
                     M!MapOne(M!Old(script), x, M!New(script), M!Old(script)[x],
                              M!MapLine(script, M!Hunks(script), x), what)]
  BY <1>3, <1>4, Zenon DEF M!Mapped
<1>6. l \in 1..Len(M!Old(script))
  BY <1>5, Zenon
<1>7. mapping'[l] = M!MapOne(M!Old(script), l, M!New(script), M!Old(script)[l],
                             M!MapLine(script, M!Hunks(script), l), what)
  BY <1>5, <1>6, Zenon
<1> QED  BY <1>2, <1>6, <1>7, MappedInFunction DEF MapInv

LEMMA ConfirmStays ==
    ASSUME MapInv, NEW line, M!Confirm(line)
    PROVE  MapInv'
<1>1. UNCHANGED <<script, fate, beside, version>>
  BY Zenon DEF M!Confirm
<1>2. PICK place : mapping' = [mapping EXCEPT ![line] =
                                  [status |-> "confirmed", line |-> place, basis |-> "human"]]
  BY Zenon DEF M!Confirm
<1>3. \A l \in DOMAIN mapping' : mapping'[l].status = "mapped" => l \in DOMAIN mapping /\ mapping'[l] = mapping[l]
  BY <1>2
<1> QED  BY <1>1, <1>3, Zenon DEF MapInv, M!StaysInFunction

LEMMA MapInvStep ==
    MapInv /\ [M!Next]_(M!vars) => MapInv'
<1> SUFFICES ASSUME MapInv, [M!Next]_(M!vars) PROVE MapInv'
  OBVIOUS
<1>1. CASE \E tag \in {" ", "-", "+"}, text \in M!Lines : M!Write(tag, text)
  BY <1>1, WriteStays, Zenon
<1>2. CASE \E what \in {"kept", "renamed", "deleted"}, others \in BOOLEAN, new \in {"base", "now"} :
              M!Refresh(what, others, new)
  BY <1>2, RefreshStays, Zenon
<1>3. CASE \E line \in 1..MaxLines : M!Confirm(line)
  BY <1>3, ConfirmStays, Zenon
<1>4. CASE UNCHANGED M!vars
  BY <1>4, Zenon DEF M!vars, MapInv, M!StaysInFunction
<1> QED  BY <1>1, <1>2, <1>3, <1>4, Zenon DEF M!Next

(* However the diff is cut into hunks and whatever was moved, repeated or  *)
(* renamed, the numbers of finalize and map_line are the diff's own, and   *)
(* no target of the base is taken into another function unless somebody    *)
(* confirms it (_map_one, apply_confirmation).                             *)
THEOREM TargetsStay == M!Spec => []MappingHolds
<1>1. M!Init => MapInv
  <2>1. <<>> \in Seq(DiffLines)
    BY EmptySeq
  <2>2. "open" \notin {"kept", "renamed"}
    OBVIOUS
  <2> QED  BY <2>1, <2>2, Zenon DEF M!Init, MapInv, M!StaysInFunction
<1>2. MapInv => MappingHolds
  <2>1. ASSUME script \in Seq(DiffLines) PROVE M!LineNumbersHold
    BY <2>1, NumbersHold, Zenon DEF M!LineNumbersHold
  <2> QED  BY <2>1, Zenon DEF MapInv, MappingHolds, M!MappingHolds
<1> QED  BY <1>1, <1>2, MapInvStep, PTL DEF M!Spec
=============================================================================
