-------------------------- MODULE TaskRoundsProofs --------------------------
(***************************************************************************)
(* Proofs about TaskRounds: automatic adoption writes once, an interrupted *)
(* adoption is recoverable, what is shown as a success has evidence and    *)
(* what is adopted is what was planned, for any criteria, files, contents, *)
(* edits, requirement versions and deaths of the server.                   *)
(*                                                                         *)
(* What carries them is one fact about contents: the content of a plan     *)
(* that may still be written is recorded nowhere (Unspent).  A write or an *)
(* edit then makes the worktree differ from every source in the record, so *)
(* no state of the worktree ever comes back.                               *)
(***************************************************************************)
EXTENDS TaskRounds, WellFoundedInduction, TLAPS

Sources(n) == {NoSource} \cup [Files -> 0..n]
Plans(n) ==
    {NoPlan} \cup {p \in [before : [Files -> 0..n], content : 1..n, spec : Specs] :
                       \A f \in Files : p.before[f] # p.content}

Statuses == {"pending", "pending_recheck", "selected", "accepted_risk", "candidate_ready", "prepared",
             "applying", "recovery_required", "adopted", "reviewing", "reviewed"}
Outcomes == {"pending", "pending_recheck", "accepted_risk", "supported", "inconclusive", "gap_remains", "none"}
Unbound == {"pending", "pending_recheck", "selected", "accepted_risk", "reviewed"}
Halfway == {"applying", "recovery_required"}

Criterion(n) ==
    [status : Statuses, outcome : Outcomes, plan : Plans(n), adopted : Sources(n), experiment : Sources(n),
     child : 0..MaxGen + 1, gen : 0..MaxGen, mapping : {"none", "clear", "ambiguous"}]
Task(n) == [snap : Sources(n), seq : Nat, crit : [Criteria -> Criterion(n)]]

Confirming == {"confirm", "mark"}
Following == {"create", "remember", "bind", "approve", "started"}
Rounding == {"settle", "round", "recovered_round"}
Places == {"idle", "verify", "write", "content", "recovered", "measure", "loop"}
              \cup Confirming \cup Following \cup Rounding

Review == [st : {"absent", "awaiting", "running", "complete", "failed"}, snap : [Files -> Nat] \cup {NoSource},
           verdict : {"none", "supported", "gap_remains"}, approved : BOOLEAN]

(* Types.                                                                  *)
TypeOK ==
    /\ fresh \in Nat /\ source \in [Files -> 0..fresh]
    /\ disk \in Task(fresh) /\ mem \in Task(fresh)
    /\ op \in [at : Places, c : Criteria, auto : BOOLEAN, loop : Nat]
    /\ review \in [Keys -> Review]
    /\ written \in Nat /\ passed \subseteq Criteria

(* Contents that a source of the record, or the worktree, does not have.   *)
Lacks(s, v) == s = NoSource \/ \A f \in Files : s[f] # v
Avoids(r, v) ==
    /\ Lacks(r.adopted, v) /\ Lacks(r.experiment, v)
    /\ HasPlan(r) => Lacks(r.plan.before, v)

Unspent(t, c) ==
    LET v == t.crit[c].plan.content
    IN  /\ HasPlan(t.crit[c]) /\ Lacks(t.snap, v)
        /\ \A d \in Criteria :
              Avoids(t.crit[d], v) /\ (d # c /\ HasPlan(t.crit[d]) => t.crit[d].plan.content # v)

(* A prepared plan may still be written, and no file of s has its content. *)
Pending(t, s) ==
    \A c \in Criteria : t.crit[c].status = "prepared" =>
        Unspent(t, c) /\ \A f \in Files : s[f] # t.crit[c].plan.content

(* Torn, on a worktree s.                                                  *)
TornIn(r, s) ==
    /\ HasPlan(r)
    /\ \E f \in Patched : s[f] = r.plan.content
    /\ \E f \in Patched : s[f] = r.plan.before[f]

Recoverable(t, s, taken) ==
    \A c \in Criteria : TornIn(t.crit[c], s) => t.crit[c].status \in Halfway \/ c \in taken

(* Where a supported outcome comes from: a review, or an experiment that   *)
(* passed on the worktree s or was on another one.                         *)
Reviewed(c, records) == \E k \in Keys : k[1] = c /\ records[k].verdict = "supported"
Basis(r) == IF r.adopted # NoSource THEN r.adopted ELSE r.experiment

Founds(c, r, s, records, pass) ==
    r.outcome = "supported" =>
        /\ r.status = "reviewed"
        /\ \/ c \in Adoptable /\ Reviewed(c, records)
           \/ r.experiment # NoSource /\ (c \in pass \/ s # Basis(r))
Founded(t, s, records, pass) == \A c \in Criteria : Founds(c, t.crit[c], s, records, pass)

(* A criterion without findings is never adopted nor reviewed again.       *)
Bare(r) ==
    /\ r.status \in Unbound /\ r.plan = NoPlan /\ r.adopted = NoSource
    /\ r.child = 0 /\ r.mapping = "none"
Bindable(t) == \A c \in Criteria : c \in Adoptable \/ Bare(t.crit[c])

Sound(t, s, records, pass, taken) ==
    Pending(t, s) /\ Recoverable(t, s, taken) /\ Founded(t, s, records, pass) /\ Bindable(t)

(* What the place of the operation says.                                   *)
Placed ==
    /\ op.at \in {"verify"} \cup Confirming \cup Following \cup Rounding => op.c \in Adoptable
    /\ op.at = "verify" => Mine.status \in {"candidate_ready", "prepared"}
    /\ op.at \in Confirming => Mine.status = "prepared"
    /\ op.at = "write" => mem = disk /\ Mine.status = "applying" /\ Unspent(mem, op.c)
    /\ op.at = "content" =>
          /\ Mine.status = "applying" /\ HasPlan(Mine) /\ disk.crit[op.c].plan = Mine.plan
          /\ \A d \in Criteria : d # op.c => disk.crit[d] = mem.crit[d]
          /\ Mine.adopted # NoSource
          /\ \A f \in Files : source[f] = Mine.adopted[f] \/ source[f] # Target(Mine.plan)[f]
    /\ op.at = "recovered" => op.c \in Adoptable /\ Mine.status \in Halfway /\ ~TornIn(Mine, source)
    /\ op.at \in Rounding => Mine.status = "adopted"
    /\ op.at \in Following => Mine.status \in {"adopted", "pending_recheck"}
    /\ op.at = "measure" => Mine.status \in Selectable

(* The one automatic attempt: reserved before it writes.                   *)
Automatic ==
    /\ AutoWritesOnce
    /\ op.auto /\ op.at \in Confirming => auto # "none" /\ written = 0
    /\ op.auto /\ op.at = "write" => auto # "none" /\ (written = 0 \/ source[1] # Mine.plan.before[1])

(* A key nobody used has no review, and only a complete one has a verdict. *)
Keyed ==
    /\ key \in [Keys -> {"free", "inner"} \cup Specs]
    /\ \A k \in Keys : /\ key[k] = "free" => review[k].st = "absent"
                       /\ review[k].verdict # "none" => review[k].st = "complete"

SoundOnDisk == Sound(disk, source, review, passed, swept)
SoundInMemory == Sound(mem, source, review, passed, swept)

IInv == TypeOK /\ SoundOnDisk /\ SoundInMemory /\ Placed /\ Automatic /\ Keyed

-----------------------------------------------------------------------------
(* Records.                                                                *)

LEMMA Constants == N \in Nat /\ N >= 1 /\ LastFile \in Nat /\ LastFile >= 1 /\ MaxGen \in Nat
                   /\ 1 \in Criteria /\ 1 \in Patched /\ Patched \subseteq Files /\ Patched # {}
  BY BoundsAssumption DEF Criteria, Patched, Files

(* More contents, the same records.                                        *)
LEMMA SourcesGrow ==
    ASSUME NEW n \in Nat, NEW m \in Nat, n <= m
    PROVE  Sources(n) \subseteq Sources(m) /\ Plans(n) \subseteq Plans(m)
<1>1. 0..n \subseteq 0..m /\ 1..n \subseteq 1..m
  OBVIOUS
<1>2. [Files -> 0..n] \subseteq [Files -> 0..m]
  BY <1>1
<1>3. [before : [Files -> 0..n], content : 1..n, spec : Specs]
        \subseteq [before : [Files -> 0..m], content : 1..m, spec : Specs]
  BY <1>1, <1>2
<1> QED  BY <1>2, <1>3 DEF Sources, Plans

LEMMA TasksGrow ==
    ASSUME NEW n \in Nat, NEW m \in Nat, n <= m
    PROVE  Criterion(n) \subseteq Criterion(m) /\ Task(n) \subseteq Task(m)
<1>1. Sources(n) \subseteq Sources(m) /\ Plans(n) \subseteq Plans(m)
  BY SourcesGrow
<1>2. Criterion(n) \subseteq Criterion(m)
  BY <1>1 DEF Criterion
<1>3. [Criteria -> Criterion(n)] \subseteq [Criteria -> Criterion(m)]
  BY <1>2
<1> QED  BY <1>1, <1>2, <1>3 DEF Task

LEMMA NoPlanIsPlan ==
    ASSUME NEW n \in Nat
    PROVE  NoPlan \in Plans(n) /\ NoSource \in Sources(n) /\ NoPlan.content = 0
  BY DEF Plans, Sources, NoPlan

(* A plan there is.                                                        *)
LEMMA PlanOf ==
    ASSUME NEW n \in Nat, NEW r \in Criterion(n), HasPlan(r)
    PROVE  /\ r.plan.before \in [Files -> 0..n] /\ r.plan.content \in 1..n /\ r.plan.spec \in Specs
           /\ \A f \in Files : r.plan.before[f] # r.plan.content
  BY DEF Criterion, Plans, HasPlan

(* A source of files is not the missing one.                               *)
LEMMA SourceIsSource ==
    ASSUME NEW n \in Nat, NEW s \in [Files -> 0..n]
    PROVE  s # NoSource /\ s \in Sources(n)
<1>1. 0 \in Files
  BY Constants DEF Files
<1>2. DOMAIN s = Files /\ DOMAIN NoSource = {}
  BY DEF NoSource
<1> QED  BY <1>1, <1>2 DEF Sources

(* One criterion's record changes.                                         *)
Put(t, c, r) == [t EXCEPT !.crit[c] = r]

LEMMA PutCriterion ==
    ASSUME NEW n \in Nat, NEW t \in Task(n), NEW c \in Criteria, NEW r \in Criterion(n)
    PROVE  /\ Put(t, c, r) \in Task(n) /\ Put(t, c, r).snap = t.snap
           /\ Put(t, c, r).crit[c] = r
           /\ \A d \in Criteria : d # c => Put(t, c, r).crit[d] = t.crit[d]
<1> DEFINE u == [t.crit EXCEPT ![c] = r]
<1>1. t.crit \in [Criteria -> Criterion(n)] /\ t.snap \in Sources(n) /\ t.seq \in Nat
  BY DEF Task
<1>2. u \in [Criteria -> Criterion(n)] /\ u[c] = r /\ \A d \in Criteria : d # c => u[d] = t.crit[d]
  BY <1>1
<1>3. Put(t, c, r) = [t EXCEPT !.crit = u]
  BY DEF Put
<1> HIDE DEF u
<1>4. /\ [t EXCEPT !.crit = u] \in Task(n) /\ [t EXCEPT !.crit = u].snap = t.snap
      /\ [t EXCEPT !.crit = u].crit = u
  BY <1>2 DEF Task
<1> QED  BY <1>2, <1>3, <1>4

-----------------------------------------------------------------------------
(* A record keeps the invariant when one criterion changes.                *)

LEMMA PendingPut ==
    ASSUME NEW n \in Nat, NEW t \in Task(n), NEW s, NEW c \in Criteria, NEW r \in Criterion(n),
           Pending(t, s),
           r.plan \in {t.crit[c].plan, NoPlan},
           r.adopted \in {t.crit[c].adopted, s, t.snap}, r.experiment \in {t.crit[c].experiment, s},
           r.status = "prepared" => t.crit[c].status = "prepared" /\ r.plan = t.crit[c].plan
    PROVE  Pending(Put(t, c, r), s)
<1> DEFINE u == Put(t, c, r)
<1>1. u.snap = t.snap /\ u.crit[c] = r /\ \A d \in Criteria : d # c => u.crit[d] = t.crit[d]
  BY PutCriterion
<1> HIDE DEF u
<1> SUFFICES ASSUME NEW d \in Criteria, u.crit[d].status = "prepared"
             PROVE  Unspent(u, d) /\ \A f \in Files : s[f] # u.crit[d].plan.content
  BY DEF Pending, u
<1> DEFINE v == t.crit[d].plan.content
<1>2. /\ t.crit[d].status = "prepared" /\ u.crit[d].plan = t.crit[d].plan
      /\ Unspent(t, d) /\ \A f \in Files : s[f] # v
  BY <1>1 DEF Pending
<1>3. \A e \in Criteria : Avoids(t.crit[e], v) /\ (e # d /\ HasPlan(t.crit[e]) => t.crit[e].plan.content # v)
  BY <1>2 DEF Unspent
<1>4. Lacks(s, v) /\ Lacks(t.snap, v)
  BY <1>2 DEF Lacks, Unspent
<1>5. Avoids(r, v) /\ (c # d /\ HasPlan(r) => r.plan.content # v)
  BY <1>3, <1>4 DEF Avoids, HasPlan
<1>6. HasPlan(u.crit[d])
  BY <1>2 DEF Unspent, HasPlan
<1>7. \A e \in Criteria : Avoids(u.crit[e], v) /\ (e # d /\ HasPlan(u.crit[e]) => u.crit[e].plan.content # v)
  BY <1>1, <1>3, <1>5
<1> QED  BY <1>1, <1>2, <1>4, <1>6, <1>7 DEF Unspent

(* What one criterion may become.                                          *)
Fits(t, s, records, pass, taken, c, r) ==
    /\ r.plan \in {t.crit[c].plan, NoPlan}
    /\ r.adopted \in {t.crit[c].adopted, s, t.snap} /\ r.experiment \in {t.crit[c].experiment, s}
    /\ r.status = "prepared" => t.crit[c].status = "prepared" /\ r.plan = t.crit[c].plan
    /\ TornIn(r, s) => r.status \in Halfway \/ c \in taken
    /\ Founds(c, r, s, records, pass)
    /\ c \in Adoptable \/ Bare(r)

LEMMA SoundPut ==
    ASSUME NEW n \in Nat, NEW t \in Task(n), NEW s, NEW records, NEW pass, NEW taken,
           NEW c \in Criteria, NEW r \in Criterion(n),
           Sound(t, s, records, pass, taken), Fits(t, s, records, pass, taken, c, r)
    PROVE  Sound(Put(t, c, r), s, records, pass, taken)
<1> DEFINE u == Put(t, c, r)
<1>1. u.crit[c] = r /\ \A d \in Criteria : d # c => u.crit[d] = t.crit[d]
  BY PutCriterion
<1>2. Pending(u, s)
  BY PendingPut DEF Sound, Fits
<1> HIDE DEF u
<1>3. Recoverable(u, s, taken)
  BY <1>1 DEF Sound, Recoverable, Fits
<1>4. Founded(u, s, records, pass)
  BY <1>1 DEF Sound, Founded, Fits
<1>5. Bindable(u)
  BY <1>1 DEF Sound, Bindable, Fits
<1> QED  BY <1>2, <1>3, <1>4, <1>5 DEF Sound, u

(* The torn ones of a record stay when a criterion keeps its plan.         *)
LEMMA TornStays ==
    ASSUME NEW t, NEW s, NEW taken, NEW c \in Criteria, NEW r, Recoverable(t, s, taken),
           r.plan \in {t.crit[c].plan, NoPlan}, t.crit[c].status \notin Halfway
    PROVE  TornIn(r, s) => c \in taken
  BY DEF Recoverable, TornIn, HasPlan

(* The worktree gets a content that no recorded source has, and no plan    *)
(* but one that is being applied.                                          *)
LEMMA SoundMoves ==
    ASSUME NEW n \in Nat, NEW t \in Task(n), NEW s \in [Files -> Nat], NEW f \in Files, NEW v \in Nat,
           NEW records, NEW pass, NEW taken,
           Sound(t, s, records, pass, taken),
           \A d \in Criteria : Avoids(t.crit[d], v),
           \A d \in Criteria : HasPlan(t.crit[d]) /\ t.crit[d].plan.content = v => t.crit[d].status = "applying"
    PROVE  Sound(t, [s EXCEPT ![f] = v], records, {}, taken)
<1> DEFINE w == [s EXCEPT ![f] = v]
<1>1. w[f] = v /\ \A g \in Files : g # f => w[g] = s[g]
  OBVIOUS
<1> HIDE DEF w
<1>2. Pending(t, w)
  <2> SUFFICES ASSUME NEW c \in Criteria, t.crit[c].status = "prepared"
               PROVE  Unspent(t, c) /\ \A g \in Files : w[g] # t.crit[c].plan.content
    BY DEF Pending
  <2>1. Unspent(t, c) /\ \A g \in Files : s[g] # t.crit[c].plan.content
    BY DEF Sound, Pending
  <2>2. t.crit[c].plan.content # v
    BY <2>1 DEF Unspent
  <2> QED  BY <1>1, <2>1, <2>2
<1>3. Recoverable(t, w, taken)
  <2> SUFFICES ASSUME NEW c \in Criteria, TornIn(t.crit[c], w)
               PROVE  t.crit[c].status \in Halfway \/ c \in taken
    BY DEF Recoverable
  <2>1. CASE t.crit[c].plan.content = v
    BY <2>1 DEF TornIn, Halfway
  <2>2. CASE t.crit[c].plan.content # v
    <3>1. HasPlan(t.crit[c]) /\ Lacks(t.crit[c].plan.before, v)
      BY DEF TornIn, Avoids
    <3>2. t.crit[c].plan.before # NoSource
      BY <3>1, PlanOf, SourceIsSource DEF Task
    <3>3. t.crit[c].plan.before[f] # v
      BY <3>1, <3>2 DEF Lacks
    <3>4. TornIn(t.crit[c], s)
      BY <1>1, <2>2, <3>3, Constants DEF TornIn
    <3> QED  BY <3>4 DEF Sound, Recoverable
  <2> QED  BY <2>1, <2>2
<1>4. Founded(t, w, records, {})
  <2> SUFFICES ASSUME NEW c \in Criteria, t.crit[c].outcome = "supported"
               PROVE  /\ t.crit[c].status = "reviewed"
                      /\ \/ c \in Adoptable /\ Reviewed(c, records)
                         \/ t.crit[c].experiment # NoSource /\ w # Basis(t.crit[c])
    BY DEF Founded, Founds
  <2>1. /\ t.crit[c].status = "reviewed"
        /\ \/ c \in Adoptable /\ Reviewed(c, records)
           \/ t.crit[c].experiment # NoSource
    BY DEF Sound, Founded, Founds
  <2>2. ASSUME t.crit[c].experiment # NoSource PROVE w # Basis(t.crit[c])
    <3>1. Basis(t.crit[c]) # NoSource /\ Lacks(Basis(t.crit[c]), v)
      BY <2>2 DEF Basis, Avoids
    <3>2. Basis(t.crit[c])[f] # v
      BY <3>1 DEF Lacks
    <3> QED  BY <1>1, <3>2
  <2> QED  BY <2>1, <2>2
<1>5. Bindable(t)
  BY DEF Sound
<1> QED  BY <1>2, <1>3, <1>4, <1>5 DEF Sound, w

(* A record without prepared plans and supported outcomes.                 *)
LEMMA SoundByStatus ==
    ASSUME NEW t, NEW s, NEW records, NEW pass, NEW taken,
           \A c \in Criteria :
              /\ t.crit[c].status # "prepared" /\ t.crit[c].outcome # "supported"
              /\ TornIn(t.crit[c], s) => t.crit[c].status \in Halfway \/ c \in taken
              /\ c \in Adoptable \/ Bare(t.crit[c])
    PROVE  Sound(t, s, records, pass, taken)
  BY DEF Sound, Pending, Recoverable, Founded, Founds, Bindable

(* More reviews and passed experiments, more plans taken as found.         *)
LEMMA SoundGrows ==
    ASSUME NEW t, NEW s, NEW records, NEW pass, NEW taken, NEW records2, NEW pass2, NEW taken2,
           Sound(t, s, records, pass, taken), pass \subseteq pass2, taken \subseteq taken2,
           \A k \in Keys : records[k].verdict = "supported" => records2[k].verdict = "supported"
    PROVE  Sound(t, s, records2, pass2, taken2)
<1>1. \A c \in Criteria : Reviewed(c, records) => Reviewed(c, records2)
  BY DEF Reviewed
<1>2. Founded(t, s, records2, pass2)
  BY <1>1 DEF Sound, Founded, Founds
<1>3. Recoverable(t, s, taken2)
  BY DEF Sound, Recoverable
<1> QED  BY <1>2, <1>3 DEF Sound

(* Contents of the record are numbered up to n.                            *)
LEMMA NovelContent ==
    ASSUME NEW n \in Nat, NEW r \in Criterion(n)
    PROVE  Avoids(r, n + 1) /\ (HasPlan(r) => r.plan.content # n + 1)
<1>1. r.adopted \in Sources(n) /\ r.experiment \in Sources(n)
  BY DEF Criterion
<1>2. \A s \in Sources(n) : Lacks(s, n + 1)
  BY DEF Sources, Lacks
<1>3. HasPlan(r) => r.plan.before \in Sources(n) /\ r.plan.content \in 1..n
  BY PlanOf DEF Sources
<1> QED  BY <1>1, <1>2, <1>3 DEF Avoids

-----------------------------------------------------------------------------
(* What the state says of the records.                                     *)

LEMMA Types ==
    ASSUME IInv
    PROVE  /\ fresh \in Nat /\ source \in [Files -> 0..fresh] /\ source \in [Files -> Nat]
           /\ disk \in Task(fresh) /\ mem \in Task(fresh) /\ op.c \in Criteria
           /\ Mine \in Criterion(fresh) /\ \A c \in Criteria : disk.crit[c] \in Criterion(fresh)
           /\ source \in Sources(fresh) /\ source # NoSource
<1>1. fresh \in Nat /\ source \in [Files -> 0..fresh] /\ disk \in Task(fresh) /\ mem \in Task(fresh) /\ op.c \in Criteria
  BY DEF IInv, TypeOK
<1>2. source \in [Files -> Nat]
  BY <1>1
<1>3. source \in Sources(fresh) /\ source # NoSource
  BY <1>1, SourceIsSource
<1> QED  BY <1>1, <1>2, <1>3 DEF Task, Mine

(* A follow-up that did not finish gave the item back, and nothing else.   *)
LEMMA CurrentFits ==
    ASSUME IInv, NEW c \in Criteria
    PROVE  /\ Current(c) \in Criterion(fresh)
           /\ Current(c).plan = disk.crit[c].plan /\ Current(c).adopted = disk.crit[c].adopted
           /\ Current(c).experiment = disk.crit[c].experiment /\ Current(c).outcome = disk.crit[c].outcome
           /\ Current(c).mapping = disk.crit[c].mapping /\ Current(c).child = disk.crit[c].child
           /\ Current(c).status # disk.crit[c].status =>
                 disk.crit[c].status = "reviewing" /\ Current(c).status = "adopted"
           /\ Fits(disk, source, review, passed, swept, c, Current(c))
<1> DEFINE r == disk.crit[c]  q == Current(c)
<1>1. r \in Criterion(fresh)
  BY Types
<1>2. q = r \/ (r.status = "reviewing" /\ q = [r EXCEPT !.status = "adopted"])
  BY DEF Current
<1> HIDE DEF q
<1>3. /\ q \in Criterion(fresh) /\ q.plan = r.plan /\ q.adopted = r.adopted /\ q.experiment = r.experiment
      /\ q.outcome = r.outcome /\ q.mapping = r.mapping /\ q.child = r.child
      /\ q.status # r.status => r.status = "reviewing" /\ q.status = "adopted"
  BY <1>1, <1>2 DEF Criterion, Statuses
<1>4. /\ TornIn(r, source) => r.status \in Halfway \/ c \in swept
      /\ Founds(c, r, source, review, passed) /\ (c \in Adoptable \/ Bare(r))
  BY DEF IInv, SoundOnDisk, Sound, Recoverable, Founded, Bindable
<1>5. Basis(q) = Basis(r) /\ (TornIn(q, source) <=> TornIn(r, source))
  BY <1>3 DEF Basis, TornIn, HasPlan
<1>6. Fits(disk, source, review, passed, swept, c, q)
  BY <1>3, <1>4, <1>5 DEF Fits, Founds, Bare, Unbound, Halfway
<1> QED  BY <1>3, <1>6 DEF q

(* What the memory of an operation fits.                                   *)
LEMMA MineIs ==
    ASSUME IInv
    PROVE  /\ TornIn(Mine, source) => Mine.status \in Halfway \/ op.c \in swept
           /\ Founds(op.c, Mine, source, review, passed) /\ (op.c \in Adoptable \/ Bare(Mine))
  BY Types DEF IInv, SoundInMemory, Sound, Recoverable, Founded, Bindable, Mine

LEMMA WithIsPut ==
    ASSUME NEW r PROVE With(r) = Put(mem, op.c, r)
  BY DEF With, Put

(* Steps that begin, end or save: what they leave alone.                   *)
Rest == UNCHANGED <<source, fresh, review, key, written, passed, swept>>
Spent == auto # "none" => auto' # "none"

(* Nothing is said of an operation that is neither confirming nor writing. *)
LEMMA AutomaticKept ==
    ASSUME IInv, UNCHANGED written, Spent, op'.at \notin Confirming \cup {"write"}
    PROVE  Automatic'
  BY DEF IInv, Automatic, AutoWritesOnce, Spent

LEMMA PlacedIdle ==
    ASSUME op'.at \in {"idle", "loop"}
    PROVE  Placed'
  BY DEF Placed, Confirming, Following, Rounding

LEMMA KeyedKept ==
    ASSUME IInv, UNCHANGED <<review, key>> PROVE Keyed'
  BY DEF IInv, Keyed

(* An operation that saves a record which fits ends, or goes on.           *)
LEMMA IdleIsPlace ==
    /\ Idle \in [at : Places, c : Criteria, auto : BOOLEAN, loop : Nat] /\ Idle.at = "idle"
  BY Constants DEF Idle, Places

LEMMA RaiseStep ==
    ASSUME IInv, Raise, Rest, Spent PROVE IInv'
<1>1. op' = Idle /\ mem' = disk /\ disk' = disk
  BY DEF Raise
<1>2. TypeOK'
  BY <1>1, IdleIsPlace DEF IInv, TypeOK, Rest
<1>3. SoundOnDisk' /\ SoundInMemory'
  BY <1>1 DEF IInv, SoundOnDisk, SoundInMemory, Rest
<1>4. Placed' /\ Automatic' /\ Keyed'
  BY <1>1, IdleIsPlace, PlacedIdle, AutomaticKept, KeyedKept DEF Rest, Confirming
<1> QED  BY <1>2, <1>3, <1>4 DEF IInv

(* One criterion on disk is replaced by a record that fits.                *)
LEMMA EditStep ==
    ASSUME IInv, NEW c \in Criteria, NEW r \in Criterion(fresh), Free,
           Fits(disk, source, review, passed, swept, c, r),
           disk' = Put(disk, c, r), mem' = disk', op' = op, Rest, auto' = auto
    PROVE  IInv'
<1>1. disk' \in Task(fresh)
  BY Types, PutCriterion
<1>2. TypeOK'
  BY <1>1 DEF IInv, TypeOK, Rest
<1>3. SoundOnDisk' /\ SoundInMemory'
  BY Types, SoundPut DEF IInv, SoundOnDisk, SoundInMemory, Rest
<1>4. op'.at = "idle"
  BY DEF Free
<1>5. Placed' /\ Automatic' /\ Keyed'
  BY <1>4, PlacedIdle, AutomaticKept, KeyedKept DEF Rest, Confirming, Spent
<1> QED  BY <1>2, <1>3, <1>5 DEF IInv

-----------------------------------------------------------------------------
(* Operations that are one save.                                           *)

(* A record fits that is not to be written, keeps its plan or drops it,    *)
(* and does not forget a half-written one.                                 *)
LEMMA Fitting ==
    ASSUME NEW t, NEW s, NEW records, NEW pass, NEW taken, NEW c \in Criteria, NEW r,
           Recoverable(t, s, taken),
           r.plan \in {t.crit[c].plan, NoPlan},
           r.adopted \in {t.crit[c].adopted, s, t.snap}, r.experiment \in {t.crit[c].experiment, s},
           r.status # "prepared",
           t.crit[c].status \notin Halfway \/ r.status \in Halfway \/ r.plan = NoPlan,
           Founds(c, r, s, records, pass), c \in Adoptable \/ Bare(r)
    PROVE  Fits(t, s, records, pass, taken, c, r)
<1>1. TornIn(r, s) => r.status \in Halfway \/ c \in taken
  BY DEF Recoverable, TornIn, HasPlan
<1> QED  BY <1>1 DEF Fits

LEMMA SoundParts ==
    ASSUME IInv
    PROVE  /\ Recoverable(disk, source, swept) /\ Recoverable(mem, source, swept)
           /\ \A c \in Criteria : /\ Founds(c, disk.crit[c], source, review, passed)
                                  /\ c \in Adoptable \/ Bare(disk.crit[c])
  BY DEF IInv, SoundOnDisk, SoundInMemory, Sound, Founded, Bindable

LEMMA SelectStep ==
    ASSUME IInv, NEW c \in Criteria, Select(c) PROVE IInv'
<1> DEFINE q == Current(c)  r == [q EXCEPT !.status = "selected"]
<1>1. q \in Criterion(fresh) /\ q.status \in Selectable
  BY CurrentFits DEF Select
<1>2. /\ r \in Criterion(fresh) /\ r.status = "selected" /\ r.plan = q.plan /\ r.adopted = q.adopted
      /\ r.experiment = q.experiment /\ r.outcome = q.outcome /\ r.mapping = q.mapping /\ r.child = q.child
  BY <1>1 DEF Criterion, Statuses
<1>3. disk' = Put(disk, c, r) /\ mem' = disk' /\ op' = op /\ Rest /\ auto' = auto /\ Free
  BY DEF Select, Edit, Put, Rest, world, manager, history
<1> HIDE DEF q, r
<1>4. disk.crit[c].status \in Selectable /\ disk.crit[c].status \notin Halfway
  BY <1>1, CurrentFits DEF q, Selectable, Halfway
<1>5. Founds(c, r, source, review, passed)
  BY <1>2, <1>4, SoundParts, CurrentFits DEF Founds, q, Selectable
<1>6. c \in Adoptable \/ Bare(r)
  BY <1>2, SoundParts, CurrentFits DEF Bare, q, Unbound
<1>7. Fits(disk, source, review, passed, swept, c, r)
  BY <1>2, <1>4, <1>5, <1>6, SoundParts, CurrentFits, Fitting DEF q
<1> QED  BY <1>2, <1>3, <1>7, EditStep

LEMMA AcceptRiskStep ==
    ASSUME IInv, NEW c \in Criteria, AcceptRisk(c) PROVE IInv'
<1> DEFINE q == Current(c)  r == [q EXCEPT !.status = "accepted_risk", !.outcome = "accepted_risk"]
<1>1. q \in Criterion(fresh) /\ q.status \in Selectable
  BY CurrentFits DEF AcceptRisk
<1>2. /\ r \in Criterion(fresh) /\ r.status = "accepted_risk" /\ r.plan = q.plan /\ r.adopted = q.adopted
      /\ r.experiment = q.experiment /\ r.outcome = "accepted_risk" /\ r.mapping = q.mapping /\ r.child = q.child
  BY <1>1 DEF Criterion, Statuses, Outcomes
<1>3. disk' = Put(disk, c, r) /\ mem' = disk' /\ op' = op /\ Rest /\ auto' = auto /\ Free
  BY DEF AcceptRisk, Edit, Put, Rest, world, manager, history
<1> HIDE DEF q, r
<1>4. disk.crit[c].status \notin Halfway
  BY <1>1, CurrentFits DEF q, Selectable, Halfway
<1>5. Founds(c, r, source, review, passed)
  BY <1>2 DEF Founds
<1>6. c \in Adoptable \/ Bare(r)
  BY <1>2, SoundParts, CurrentFits DEF Bare, q, Unbound
<1>7. Fits(disk, source, review, passed, swept, c, r)
  BY <1>2, <1>4, <1>5, <1>6, SoundParts, CurrentFits, Fitting DEF q
<1> QED  BY <1>2, <1>3, <1>7, EditStep

(* A criterion gets no plan, and is a candidate again.                     *)
LEMMA DropPlanStep ==
    ASSUME IInv, NEW c \in Criteria, Free, c \in Adoptable, disk.crit[c].outcome # "supported",
           disk' = Put(disk, c, [Current(c) EXCEPT !.status = "candidate_ready", !.plan = NoPlan]),
           mem' = disk', op' = op, Rest, auto' = auto
    PROVE  IInv'
<1> DEFINE q == Current(c)  r == [q EXCEPT !.status = "candidate_ready", !.plan = NoPlan]
<1>1. q \in Criterion(fresh)
  BY CurrentFits
<1>2. /\ r \in Criterion(fresh) /\ r.status = "candidate_ready" /\ r.plan = NoPlan /\ r.adopted = q.adopted
      /\ r.experiment = q.experiment /\ r.outcome = q.outcome
  BY <1>1, Types, NoPlanIsPlan DEF Criterion, Statuses
<1>3. disk' = Put(disk, c, r)
  OBVIOUS
<1> HIDE DEF q, r
<1>4. Founds(c, r, source, review, passed)
  BY <1>2, CurrentFits DEF q, Founds
<1>5. Fits(disk, source, review, passed, swept, c, r)
  BY <1>2, <1>4, SoundParts, CurrentFits, Fitting DEF q
<1> QED  BY <1>2, <1>3, <1>5, EditStep

LEMMA BindStep ==
    ASSUME IInv, NEW c \in Criteria, Bind(c) PROVE IInv'
<1>1. /\ Free /\ c \in Adoptable /\ mem' = disk' /\ op' = op /\ Rest /\ auto' = auto
      /\ disk' = Put(disk, c, [Current(c) EXCEPT !.status = "candidate_ready", !.plan = NoPlan])
  BY DEF Bind, Edit, Put, Rest, world, manager, history
<1>2. disk.crit[c].status # "reviewed"
  BY CurrentFits DEF Bind
<1>3. disk.crit[c].outcome # "supported"
  BY <1>2, SoundParts DEF Founds
<1> QED  BY <1>1, <1>3, DropPlanStep

(* A follow-up a criterion is compared with again.                         *)
LEMMA ComparedIsReviewed ==
    ASSUME IInv, NEW c \in Criteria, NEW r \in Criterion(fresh), ChildState(c, r) = "complete"
    PROVE  /\ Compared(c, r) \in Outcomes
           /\ Compared(c, r) = "supported" => Reviewed(c, review)
<1>1. r.child \in 1..MaxGen + 1
  BY Constants DEF ChildState, Criterion
<1>2. ChildOf(c, r) \in Keys /\ ChildOf(c, r)[1] = c
  BY <1>1, Constants DEF ChildOf, Keys
<1>3. review[ChildOf(c, r)] \in Review
  BY <1>2 DEF IInv, TypeOK
<1>4. review[ChildOf(c, r)].verdict \in {"none", "supported", "gap_remains"}
  BY <1>3 DEF Review
<1> QED  BY <1>2, <1>4 DEF Compared, Reviewed, Outcomes

LEMMA ConfirmMappingStep ==
    ASSUME IInv, NEW c \in Criteria, ConfirmMapping(c) PROVE IInv'
<1> DEFINE q == Current(c)
<1>1. /\ q \in Criterion(fresh) /\ q.status = "pending_recheck" /\ q.mapping # "none" /\ Free
      /\ op' = op /\ mem' = disk' /\ Rest /\ auto' = auto
  BY CurrentFits DEF ConfirmMapping, Edit, Rest, world, manager, history
<1>2. PICK answer \in {"clear", "ambiguous"} :
          LET r == [q EXCEPT !.mapping = answer]  outcome == Compared(c, r)
          IN  Edit(c, IF ChildState(c, r) # "complete" THEN r
                      ELSE IF outcome = "inconclusive" THEN [r EXCEPT !.outcome = outcome]
                      ELSE [r EXCEPT !.outcome = outcome, !.status = "reviewed"])
  BY DEF ConfirmMapping
<1> DEFINE m == [q EXCEPT !.mapping = answer]
           r == IF ChildState(c, m) # "complete" THEN m
                ELSE IF Compared(c, m) = "inconclusive" THEN [m EXCEPT !.outcome = Compared(c, m)]
                ELSE [m EXCEPT !.outcome = Compared(c, m), !.status = "reviewed"]
<1>3. disk' = Put(disk, c, r)
  BY <1>2 DEF Edit, Put
<1>4. m \in Criterion(fresh) /\ m.status = "pending_recheck" /\ m.plan = q.plan /\ m.adopted = q.adopted
      /\ m.experiment = q.experiment /\ m.outcome = q.outcome
  BY <1>1 DEF Criterion
<1>5. ChildState(c, m) = "complete" =>
         Compared(c, m) \in Outcomes /\ (Compared(c, m) = "supported" => Reviewed(c, review))
  BY <1>4, ComparedIsReviewed
<1>6. c \in Adoptable
  BY <1>1, SoundParts, CurrentFits DEF Bare
<1>7. disk.crit[c].status = "pending_recheck" /\ disk.crit[c].outcome # "supported"
  BY <1>1, CurrentFits, SoundParts DEF q, Founds
<1>a. q.outcome # "supported"
  BY <1>7, CurrentFits
<1> HIDE DEF q, m
<1>8. /\ r \in Criterion(fresh) /\ r.status \in {"pending_recheck", "reviewed"} /\ r.plan = q.plan
      /\ r.adopted = q.adopted /\ r.experiment = q.experiment
      /\ r.outcome = "supported" => r.status = "reviewed" /\ Reviewed(c, review)
  <2>1. CASE ChildState(c, m) # "complete"
    BY <2>1, <1>4, <1>a
  <2>2. CASE ChildState(c, m) = "complete" /\ Compared(c, m) = "inconclusive"
    BY <2>2, <1>4, <1>5 DEF Criterion, Outcomes
  <2>3. CASE ChildState(c, m) = "complete" /\ Compared(c, m) # "inconclusive"
    BY <2>3, <1>4, <1>5 DEF Criterion, Statuses
  <2> QED  BY <2>1, <2>2, <2>3
<1> HIDE DEF r
<1>9. Fits(disk, source, review, passed, swept, c, r)
  BY <1>6, <1>7, <1>8, SoundParts, CurrentFits, Fitting DEF q, Founds, Halfway
<1> QED  BY <1>1, <1>3, <1>8, <1>9, EditStep

LEMMA NewCriterionIs ==
    NewCriterion \in Criterion(0) /\ Bare(NewCriterion) /\ NewCriterion.outcome = "pending"
    /\ NewCriterion.status = "pending" /\ \A s : ~TornIn(NewCriterion, s)
  BY NoPlanIsPlan, Constants DEF NewCriterion, Criterion, Statuses, Outcomes, Bare, Unbound, TornIn, HasPlan

LEMMA ChangeRequirementStep ==
    ASSUME IInv, ChangeRequirement PROVE IInv'
<1> DEFINE t == [snap |-> source, seq |-> disk.seq + 1, crit |-> [c \in Criteria |-> NewCriterion]]
<1>1. /\ disk' = t /\ mem' = t /\ op' = op /\ op.at = "idle"
      /\ UNCHANGED <<source, fresh, review, key, auto, written, passed>>
  BY DEF ChangeRequirement, world, manager, Free
<1>2. t \in Task(fresh) /\ \A c \in Criteria : t.crit[c] = NewCriterion
  BY Types, NewCriterionIs, TasksGrow DEF Task
<1> HIDE DEF t
<1>3. \A taken : Sound(t, source, review, passed, taken)
  BY <1>2, NewCriterionIs, SoundByStatus
<1>4. SoundOnDisk' /\ SoundInMemory'
  BY <1>1, <1>3 DEF SoundOnDisk, SoundInMemory
<1>5. TypeOK'
  BY <1>1, <1>2 DEF IInv, TypeOK
<1>6. Placed' /\ Automatic' /\ Keyed'
  BY <1>1, PlacedIdle, AutomaticKept, KeyedKept DEF Confirming, Spent
<1> QED  BY <1>4, <1>5, <1>6 DEF IInv

-----------------------------------------------------------------------------
(* Operations that begin.                                                  *)

LEMMA StartStep ==
    ASSUME IInv, NEW place \in Places, NEW c \in Criteria, NEW automatic \in BOOLEAN,
           Start(place, c, automatic), Rest
    PROVE  /\ TypeOK' /\ SoundOnDisk' /\ SoundInMemory' /\ Keyed'
           /\ op'.at = place /\ op'.c = c /\ op'.auto = automatic
           /\ Mine' = Current(c) /\ disk' = disk
<1>1. /\ op' = [Idle EXCEPT !.at = place, !.c = c, !.auto = automatic]
      /\ mem' = Put(disk, c, Current(c)) /\ disk' = disk
  BY DEF Start, Put
<1>2. /\ op' \in [at : Places, c : Criteria, auto : BOOLEAN, loop : Nat]
      /\ op'.at = place /\ op'.c = c /\ op'.auto = automatic
  BY <1>1, IdleIsPlace DEF Idle
<1>3. mem' \in Task(fresh) /\ mem'.crit[c] = Current(c)
  BY <1>1, Types, CurrentFits, PutCriterion
<1>4. Sound(mem', source, review, passed, swept)
  BY <1>1, Types, CurrentFits, SoundPut DEF IInv, SoundOnDisk
<1>5. TypeOK'
  BY <1>1, <1>2, <1>3 DEF IInv, TypeOK, Rest
<1>6. SoundOnDisk' /\ SoundInMemory'
  BY <1>1, <1>4 DEF IInv, SoundOnDisk, SoundInMemory, Rest
<1>7. Keyed'
  BY KeyedKept DEF Rest
<1> QED  BY <1>1, <1>2, <1>3, <1>5, <1>6, <1>7 DEF Mine

(* A criterion somebody bound has findings.                                *)
LEMMA BoundIsAdoptable ==
    ASSUME IInv, NEW c \in Criteria, Current(c).status \notin Unbound \/ Current(c).adopted # NoSource
    PROVE  c \in Adoptable
<1>1. Bare(disk.crit[c]) => Current(c).status \in Unbound /\ Current(c).adopted = NoSource
  BY CurrentFits DEF Bare, Unbound
<1> QED  BY <1>1, SoundParts

LEMMA TargetIsWhole ==
    ASSUME NEW n \in Nat, NEW r \in Criterion(n), NEW s, s = Target(r.plan)
    PROVE  ~TornIn(r, s)
<1> SUFFICES ASSUME TornIn(r, s) PROVE FALSE
  OBVIOUS
<1>1. \A f \in Files : r.plan.before[f] # r.plan.content
  BY PlanOf DEF TornIn
<1>2. \A f \in Patched : s[f] = r.plan.content
  BY Constants DEF Target
<1> QED  BY <1>1, <1>2, Constants DEF TornIn

LEMMA PrepareStep ==
    ASSUME IInv, NEW c \in Criteria, Prepare(c) PROVE IInv'
<1>1. Start("verify", c, FALSE) /\ Rest /\ auto' = auto /\ Current(c).status \in {"candidate_ready", "prepared"}
  BY DEF Prepare, Rest, world, manager, history
<1>2. /\ TypeOK' /\ SoundOnDisk' /\ SoundInMemory' /\ Keyed' /\ op'.at = "verify" /\ op'.c = c
      /\ Mine' = Current(c)
  BY <1>1, StartStep DEF Places
<1>3. c \in Adoptable
  BY <1>1, BoundIsAdoptable DEF Unbound
<1>4. Placed'
  BY <1>1, <1>2, <1>3 DEF Placed, Confirming, Following, Rounding
<1>5. Automatic'
  BY <1>1, <1>2, AutomaticKept DEF Rest, Spent, Confirming
<1> QED  BY <1>2, <1>4, <1>5 DEF IInv

LEMMA ConfirmStep ==
    ASSUME IInv, NEW c \in Criteria, Confirm(c) \/ AutoConfirm(c) PROVE IInv'
<1>1. PICK automatic \in BOOLEAN :
          /\ Start("confirm", c, automatic) /\ Rest /\ Current(c).status = "prepared"
          /\ IF automatic THEN auto = "none" /\ auto' = "reserved" ELSE auto' = auto
  <2>1. CASE Confirm(c)
    BY <2>1 DEF Confirm, Rest, world, manager, history
  <2>2. CASE AutoConfirm(c)
    BY <2>2 DEF AutoConfirm, Rest, world, manager, history
  <2> QED  BY <2>1, <2>2
<1>2. /\ TypeOK' /\ SoundOnDisk' /\ SoundInMemory' /\ Keyed' /\ op'.at = "confirm" /\ op'.c = c
      /\ op'.auto = automatic /\ Mine' = Current(c)
  BY <1>1, StartStep DEF Places, Confirming
<1>3. c \in Adoptable
  BY <1>1, BoundIsAdoptable DEF Unbound
<1>4. Placed'
  BY <1>1, <1>2, <1>3 DEF Placed, Confirming, Following, Rounding
<1>5. Automatic'
  BY <1>1, <1>2 DEF IInv, TypeOK, Automatic, AutoWritesOnce, Rest, Confirming
<1> QED  BY <1>2, <1>4, <1>5 DEF IInv

LEMMA RetryStep ==
    ASSUME IInv, NEW c \in Criteria, Retry(c) PROVE IInv'
<1>1. /\ Start("create", c, FALSE) /\ Rest /\ auto' = auto
      /\ Current(c).status \in {"adopted", "pending_recheck"}
      /\ Current(c).status = "adopted" \/ Current(c).adopted # NoSource
  BY DEF Retry, Rest, world, manager, history
<1>2. /\ TypeOK' /\ SoundOnDisk' /\ SoundInMemory' /\ Keyed' /\ op'.at = "create" /\ op'.c = c
      /\ Mine' = Current(c)
  BY <1>1, StartStep DEF Places, Following
<1>3. c \in Adoptable
  BY <1>1, BoundIsAdoptable DEF Unbound
<1>4. Placed'
  BY <1>1, <1>2, <1>3 DEF Placed, Confirming, Following, Rounding
<1>5. Automatic'
  BY <1>1, <1>2, AutomaticKept DEF Rest, Spent, Confirming
<1> QED  BY <1>2, <1>4, <1>5 DEF IInv

LEMMA StartExperimentStep ==
    ASSUME IInv, NEW c \in Criteria, StartExperiment(c) PROVE IInv'
<1>1. Start("measure", c, FALSE) /\ Rest /\ auto' = auto /\ Current(c).status \in Selectable
  BY DEF StartExperiment, Rest, world, manager, history
<1>2. /\ TypeOK' /\ SoundOnDisk' /\ SoundInMemory' /\ Keyed' /\ op'.at = "measure" /\ Mine' = Current(c)
  BY <1>1, StartStep DEF Places
<1>3. Placed'
  BY <1>1, <1>2 DEF Placed, Confirming, Following, Rounding
<1>4. Automatic'
  BY <1>1, <1>2, AutomaticKept DEF Rest, Spent, Confirming
<1> QED  BY <1>2, <1>3, <1>4 DEF IInv

LEMMA RecoverStep ==
    ASSUME IInv, NEW c \in Criteria, Recover(c) PROVE IInv'
<1> DEFINE plan == Current(c).plan
<1>1. /\ Current(c).status \in Halfway /\ Rest /\ auto' = auto
      /\ \/ source = Target(plan) /\ Start("recovered", c, auto # "none")
         \/ /\ Free /\ mem' = disk' /\ op' = op
            /\ disk' = Put(disk, c, [Current(c) EXCEPT !.status = "candidate_ready", !.plan = NoPlan])
  BY DEF Recover, Save, Put, Rest, world, manager, history, Halfway
<1>2. c \in Adoptable /\ disk.crit[c].outcome # "supported"
  BY <1>1, BoundIsAdoptable, CurrentFits, SoundParts DEF Unbound, Halfway, Founds
<1>3. CASE source = Target(plan) /\ Start("recovered", c, auto # "none")
  <2>1. /\ TypeOK' /\ SoundOnDisk' /\ SoundInMemory' /\ Keyed' /\ op'.at = "recovered" /\ op'.c = c
        /\ Mine' = Current(c)
    BY <1>1, <1>3, StartStep DEF Places
  <2>2. ~TornIn(Current(c), source)
    BY <1>3, Types, CurrentFits, TargetIsWhole
  <2>3. Placed'
    BY <1>1, <1>2, <2>1, <2>2 DEF Placed, Confirming, Following, Rounding, Rest
  <2>4. Automatic'
    BY <1>1, <2>1, AutomaticKept DEF Rest, Spent, Confirming
  <2> QED  BY <2>1, <2>3, <2>4 DEF IInv
<1>4. CASE /\ Free /\ mem' = disk' /\ op' = op
           /\ disk' = Put(disk, c, [Current(c) EXCEPT !.status = "candidate_ready", !.plan = NoPlan])
  BY <1>1, <1>2, <1>4, DropPlanStep
<1> QED  BY <1>1, <1>3, <1>4

-----------------------------------------------------------------------------
(* Adoption.                                                               *)

OpType == [at : Places, c : Criteria, auto : BOOLEAN, loop : Nat]

(* An operation goes to another place.                                     *)
LEMMA GoesTo ==
    ASSUME IInv, NEW place \in Places, Go(place)
    PROVE  op' \in OpType /\ op'.at = place /\ op'.c = op.c /\ op'.auto = op.auto /\ op'.loop = op.loop
  BY DEF IInv, TypeOK, Go, OpType

(* An operation changes its copy of one criterion, and may save it.        *)
LEMMA MemStep ==
    ASSUME IInv, NEW r \in Criterion(fresh), Fits(mem, source, review, passed, swept, op.c, r),
           mem' = With(r), disk' \in {disk, mem'}, op' \in OpType,
           UNCHANGED <<source, fresh, written, passed, swept>>,
           review' \in [Keys -> Review],
           \A k \in Keys : review[k].verdict = "supported" => review'[k].verdict = "supported"
    PROVE  /\ TypeOK' /\ SoundOnDisk' /\ SoundInMemory'
           /\ mem'.crit[op.c] = r /\ mem'.snap = mem.snap
           /\ \A d \in Criteria : d # op.c => mem'.crit[d] = mem.crit[d]
<1>1. mem' = Put(mem, op.c, r)
  BY WithIsPut
<1>2. /\ mem' \in Task(fresh) /\ mem'.crit[op.c] = r /\ mem'.snap = mem.snap
      /\ \A d \in Criteria : d # op.c => mem'.crit[d] = mem.crit[d]
  BY <1>1, Types, PutCriterion
<1>3. Sound(mem', source, review, passed, swept)
  BY <1>1, Types, SoundPut DEF IInv, SoundInMemory
<1>4. Sound(mem', source, review', passed, swept) /\ Sound(disk, source, review', passed, swept)
  BY <1>3, SoundGrows DEF IInv, SoundOnDisk
<1>5. TypeOK'
  BY <1>2 DEF IInv, TypeOK, OpType
<1> QED  BY <1>2, <1>4, <1>5 DEF SoundOnDisk, SoundInMemory

(* The same records, at another place.                                     *)
LEMMA OpStep ==
    ASSUME IInv, UNCHANGED <<disk, mem, source, fresh, written, passed, swept>>, op' \in OpType,
           review' \in [Keys -> Review],
           \A k \in Keys : review[k].verdict = "supported" => review'[k].verdict = "supported"
    PROVE  TypeOK' /\ SoundOnDisk' /\ SoundInMemory'
<1>1. Sound(mem, source, review', passed, swept) /\ Sound(disk, source, review', passed, swept)
  BY SoundGrows DEF IInv, SoundOnDisk, SoundInMemory
<1>2. TypeOK'
  BY DEF IInv, TypeOK, OpType
<1> QED  BY <1>1, <1>2 DEF SoundOnDisk, SoundInMemory

LEMMA SameReviews ==
    ASSUME IInv, UNCHANGED review
    PROVE  /\ review' \in [Keys -> Review]
           /\ \A k \in Keys : review[k].verdict = "supported" => review'[k].verdict = "supported"
  BY DEF IInv, TypeOK

(* A new plan: its content is new, and it replaces what is there.          *)
NewPlan(s) == [before |-> source, content |-> fresh + 1, spec |-> s]

LEMMA NewPlanPending ==
    ASSUME IInv, NEW s \in Specs, At("verify"),
           NEW r, r = [Mine EXCEPT !.status = "prepared", !.plan = NewPlan(s)]
    PROVE  /\ r \in Criterion(fresh + 1) /\ Put(mem, op.c, r) \in Task(fresh + 1)
           /\ Sound(Put(mem, op.c, r), source, review, passed, swept)
<1> DEFINE p == NewPlan(s)  v == fresh + 1  t == Put(mem, op.c, r)
<1>1. /\ Mine \in Criterion(fresh) /\ Mine \in Criterion(v) /\ mem \in Task(v) /\ mem \in Task(fresh)
      /\ op.c \in Criteria /\ fresh \in Nat /\ v \in Nat /\ v > fresh
  BY Types, TasksGrow
<1>2. \A f \in Files : source[f] \in 0..fresh /\ source[f] # v
  BY Types
<1>3. /\ p.before = source /\ p.content = v /\ p.spec = s
      /\ p \in [before : [Files -> 0..v], content : 1..v, spec : Specs]
      /\ p # NoPlan
  <2>1. source \in [Files -> 0..v]
    BY Types
  <2>2. v \in 1..v
    BY <1>1
  <2>3. p.content # 0
    BY <1>1 DEF NewPlan
  <2> QED  BY <2>1, <2>2, <2>3 DEF NewPlan, NoPlan
<1>4. p \in Plans(v)
  BY <1>2, <1>3 DEF Plans
<1> HIDE DEF p
<1>5. /\ r \in Criterion(v) /\ r.status = "prepared" /\ r.plan = p /\ r.adopted = Mine.adopted
      /\ r.experiment = Mine.experiment /\ r.outcome = Mine.outcome
  BY <1>1, <1>4 DEF Criterion, Statuses, p
<1>6. t \in Task(v) /\ t.snap = mem.snap /\ t.crit[op.c] = r /\ \A d \in Criteria : d # op.c => t.crit[d] = mem.crit[d]
  BY <1>1, <1>5, PutCriterion
<1> HIDE DEF t
<1>7. \A d \in Criteria : Avoids(mem.crit[d], v) /\ (HasPlan(mem.crit[d]) => mem.crit[d].plan.content # v)
  BY <1>1, NovelContent DEF Task
<1>8. Lacks(mem.snap, v) /\ Lacks(source, v)
  BY <1>1, <1>2 DEF Lacks, Task, Sources
<1>9. Pending(t, source)
  <2> SUFFICES ASSUME NEW c \in Criteria, t.crit[c].status = "prepared"
               PROVE  Unspent(t, c) /\ \A f \in Files : source[f] # t.crit[c].plan.content
    BY DEF Pending
  <2>1. CASE c = op.c
    <3>0. Avoids(Mine, v)
      BY <1>1, <1>7 DEF Mine
    <3>1. Avoids(r, v)
      BY <3>0, <1>3, <1>5, <1>8 DEF Avoids
    <3>2. HasPlan(r)
      BY <1>3, <1>5 DEF HasPlan
    <3>3. \A d \in Criteria : Avoids(t.crit[d], v) /\ (d # c /\ HasPlan(t.crit[d]) => t.crit[d].plan.content # v)
      BY <2>1, <3>1, <1>6, <1>7
    <3>4. t.crit[c] = r /\ r.plan.content = v
      BY <2>1, <1>3, <1>5, <1>6
    <3> QED  BY <3>2, <3>3, <3>4, <1>2, <1>6, <1>8 DEF Unspent
  <2>2. CASE c # op.c
    <3> DEFINE w == mem.crit[c].plan.content
    <3>1. t.crit[c] = mem.crit[c] /\ mem.crit[c].status = "prepared"
      BY <2>2, <1>6
    <3>2. Unspent(mem, c) /\ \A f \in Files : source[f] # w
      BY <3>1 DEF IInv, SoundInMemory, Sound, Pending
    <3>3. w # v
      BY <3>2, <1>7 DEF Unspent
    <3>4. Avoids(Mine, w) /\ Lacks(source, w) /\ Lacks(mem.snap, w)
      BY <3>2, <1>1 DEF Unspent, Lacks, Mine
    <3>5. Avoids(r, w) /\ r.plan.content # w
      BY <3>3, <3>4, <1>3, <1>5 DEF Avoids
    <3>6. \A d \in Criteria : Avoids(t.crit[d], w) /\ (d # c /\ HasPlan(t.crit[d]) => t.crit[d].plan.content # w)
      BY <3>2, <3>5, <1>6 DEF Unspent
    <3>7. HasPlan(t.crit[c]) /\ t.crit[c].plan.content = w
      BY <3>1, <3>2 DEF Unspent
    <3> QED  BY <3>2, <3>4, <3>6, <3>7, <1>6 DEF Unspent
  <2> QED  BY <2>1, <2>2
<1>10. Recoverable(t, source, swept)
  <2>1. ~TornIn(r, source)
    BY <1>2, <1>3, <1>5, Constants DEF TornIn
  <2> QED  BY <2>1, <1>6, SoundParts DEF Recoverable
<1>11. Mine.outcome # "supported" /\ op.c \in Adoptable
  BY MineIs DEF IInv, Placed, At, Founds
<1>12. Founded(t, source, review, passed) /\ Bindable(t)
  <2>1. Founded(mem, source, review, passed) /\ Bindable(mem)
    BY DEF IInv, SoundInMemory, Sound
  <2>2. Founds(op.c, r, source, review, passed)
    BY <1>5, <1>11 DEF Founds
  <2>3. Founded(t, source, review, passed)
    BY <2>1, <2>2, <1>6 DEF Founded
  <2>4. Bindable(t)
    BY <2>1, <1>6, <1>11 DEF Bindable
  <2> QED  BY <2>3, <2>4
<1> QED  BY <1>5, <1>6, <1>9, <1>10, <1>12 DEF Sound, t

LEMMA PreparedStep ==
    ASSUME IInv, Prepared PROVE IInv'
<1>1. /\ At("verify") /\ UNCHANGED <<source, review, key, auto, written, passed, swept>>
      /\ \/ /\ fresh' = fresh + 1 /\ op' = Idle
            /\ \E s \in Specs : Save(With([Mine EXCEPT !.status = "prepared", !.plan = NewPlan(s)]))
         \/ Raise /\ UNCHANGED fresh
  BY DEF Prepared, manager, history, NewPlan
<1>2. CASE Raise /\ UNCHANGED fresh
  BY <1>1, <1>2, RaiseStep DEF Rest, Spent
<1>3. CASE /\ fresh' = fresh + 1 /\ op' = Idle
           /\ \E s \in Specs : Save(With([Mine EXCEPT !.status = "prepared", !.plan = NewPlan(s)]))
  <2>1. PICK s \in Specs : Save(With([Mine EXCEPT !.status = "prepared", !.plan = NewPlan(s)]))
    BY <1>3
  <2> DEFINE r == [Mine EXCEPT !.status = "prepared", !.plan = NewPlan(s)]
  <2>2. mem' = Put(mem, op.c, r) /\ disk' = Put(mem, op.c, r)
    BY <2>1, WithIsPut DEF Save
  <2>3. /\ Put(mem, op.c, r) \in Task(fresh + 1)
        /\ Sound(Put(mem, op.c, r), source, review, passed, swept)
    BY <1>1, NewPlanPending
  <2> HIDE DEF r
  <2>4. SoundOnDisk' /\ SoundInMemory'
    BY <1>1, <2>2, <2>3 DEF SoundOnDisk, SoundInMemory
  <2>5. fresh + 1 \in Nat /\ source \in [Files -> 0..(fresh + 1)]
    BY Types
  <2>6. TypeOK'
    BY <1>1, <1>3, <2>2, <2>3, <2>5, IdleIsPlace DEF IInv, TypeOK
  <2>7. Placed' /\ Automatic' /\ Keyed'
    BY <1>1, <1>3, IdleIsPlace, PlacedIdle, AutomaticKept, KeyedKept DEF Confirming, Spent
  <2> QED  BY <2>4, <2>6, <2>7 DEF IInv
<1> QED  BY <1>1, <1>2, <1>3

LEMMA ConfirmGuardStep ==
    ASSUME IInv, ConfirmGuard PROVE IInv'
<1>1. /\ At("confirm") /\ Rest /\ auto' = auto
      /\ (Go("mark") /\ UNCHANGED <<disk, mem>>) \/ Raise
  BY DEF ConfirmGuard, Rest, world, manager, history
<1>2. CASE Raise
  BY <1>1, <1>2, RaiseStep DEF Spent
<1>3. CASE Go("mark") /\ UNCHANGED <<disk, mem>>
  <2>1. op' \in OpType /\ op'.at = "mark" /\ op'.c = op.c /\ op'.auto = op.auto
    BY <1>3, GoesTo DEF Places, Confirming
  <2>2. TypeOK' /\ SoundOnDisk' /\ SoundInMemory'
    BY <1>1, <1>3, <2>1, OpStep, SameReviews DEF Rest
  <2>3. op.c \in Adoptable /\ Mine.status = "prepared" /\ Mine' = Mine
    BY <1>1, <1>3, <2>1 DEF IInv, Placed, At, Confirming, Mine
  <2>4. Placed'
    BY <2>1, <2>3 DEF Placed, Confirming, Following, Rounding
  <2>5. Automatic'
    BY <1>1, <2>1 DEF IInv, Automatic, AutoWritesOnce, At, Confirming, Rest
  <2> QED  BY <1>1, <2>2, <2>4, <2>5, KeyedKept DEF IInv, Rest
<1> QED  BY <1>1, <1>2, <1>3

(* A plan stays unspent when only the status of its criterion changes.     *)
LEMMA MarkKeepsUnspent ==
    ASSUME NEW t, NEW u, NEW c \in Criteria, Unspent(t, c), u.snap = t.snap,
           u.crit[c].plan = t.crit[c].plan, u.crit[c].adopted = t.crit[c].adopted,
           u.crit[c].experiment = t.crit[c].experiment,
           \A d \in Criteria : d # c => u.crit[d] = t.crit[d]
    PROVE  Unspent(u, c)
<1> DEFINE v == t.crit[c].plan.content
<1>1. u.crit[c].plan.content = v /\ HasPlan(u.crit[c]) /\ Lacks(u.snap, v) /\ Avoids(u.crit[c], v)
  BY DEF Unspent, HasPlan, Avoids
<1>2. \A d \in Criteria : d # c => Avoids(u.crit[d], v) /\ (HasPlan(u.crit[d]) => u.crit[d].plan.content # v)
  BY DEF Unspent
<1> QED  BY <1>1, <1>2 DEF Unspent

LEMMA ConfirmMarkStep ==
    ASSUME IInv, ConfirmMark PROVE IInv'
<1>1. /\ At("mark") /\ Rest /\ auto' = auto
      /\ (Save(With([Mine EXCEPT !.status = "applying"])) /\ Go("write")) \/ Raise
  BY DEF ConfirmMark, Rest, world, manager, history
<1>2. CASE Raise
  BY <1>1, <1>2, RaiseStep DEF Spent
<1>3. CASE Save(With([Mine EXCEPT !.status = "applying"])) /\ Go("write")
  <2> DEFINE r == [Mine EXCEPT !.status = "applying"]
  <2>1. op' \in OpType /\ op'.at = "write" /\ op'.c = op.c /\ op'.auto = op.auto
    BY <1>3, GoesTo DEF Places
  <2>2. op.c \in Adoptable /\ Mine.status = "prepared" /\ op.c \in Criteria
    BY <1>1, Types DEF IInv, Placed, At, Confirming
  <2>3. /\ r \in Criterion(fresh) /\ r.status = "applying" /\ r.plan = Mine.plan /\ r.adopted = Mine.adopted
        /\ r.experiment = Mine.experiment /\ r.outcome = Mine.outcome
    BY Types DEF Criterion, Statuses
  <2>4. mem' = With(r) /\ disk' = mem'
    BY <1>3 DEF Save
  <2> HIDE DEF r
  <2>5. Mine.outcome # "supported"
    BY <2>2, MineIs DEF Founds
  <2>6. Fits(mem, source, review, passed, swept, op.c, r)
    BY <2>2, <2>3, <2>5, SoundParts, Fitting DEF Mine, Founds, Halfway
  <2>7. /\ TypeOK' /\ SoundOnDisk' /\ SoundInMemory' /\ mem'.crit[op.c] = r /\ mem'.snap = mem.snap
        /\ \A d \in Criteria : d # op.c => mem'.crit[d] = mem.crit[d]
    BY <1>1, <2>1, <2>3, <2>4, <2>6, MemStep, SameReviews DEF Rest
  <2>8. Unspent(mem, op.c)
    BY <2>2 DEF IInv, SoundInMemory, Sound, Pending, Mine
  <2>9. Unspent(mem', op.c)
    BY <2>2, <2>3, <2>7, <2>8, MarkKeepsUnspent DEF Mine
  <2>10. Mine'.status = "applying"
    BY <2>1, <2>3, <2>7 DEF Mine
  <2>11. Placed'
    BY <2>1, <2>4, <2>9, <2>10 DEF Placed, Confirming, Following, Rounding
  <2>12. Automatic'
    BY <1>1, <2>1 DEF IInv, Automatic, AutoWritesOnce, At, Confirming, Rest
  <2> QED  BY <1>1, <2>7, <2>11, <2>12, KeyedKept DEF IInv, Rest
<1> QED  BY <1>1, <1>2, <1>3

(* The first file of a plan nothing is written of is the first of all.     *)
LEMMA FirstFile ==
    ASSUME NEW plan, Unwritten(plan) = Patched PROVE NextFile(plan) = 1
<1>1. 1 \in Unwritten(plan) /\ \A g \in Unwritten(plan) : 1 <= g
  BY Constants DEF Patched
<1>2. \A f \in Unwritten(plan) : (\A g \in Unwritten(plan) : f <= g) => f = 1
  BY <1>1 DEF Unwritten, Patched
<1> QED  BY <1>1, <1>2 DEF NextFile

LEMMA Least ==
    ASSUME NEW T \in SUBSET Nat, T # {}
    PROVE  \E x \in T : \A y \in T : x <= y
<1>1. PICK x \in T : \A y \in T : <<y, x>> \notin OpToRel(<, Nat)
  BY WFMin, NatLessThanWellFounded, Zenon
<1>2. \A y \in T : ~(y < x)
  BY <1>1, Zenon DEF OpToRel
<1> QED  BY <1>2

(* There is a next file while something is to be written.                  *)
LEMMA NextIsUnwritten ==
    ASSUME IInv, WriteFile
    PROVE  NextFile(Mine.plan) \in Files
<1>1. source[NextFile(Mine.plan)] = Mine.plan.before[NextFile(Mine.plan)] /\ Unwritten(Mine.plan) # {}
  BY DEF WriteFile
<1>2. \E f \in Unwritten(Mine.plan) : \A g \in Unwritten(Mine.plan) : f <= g
  <2>1. Unwritten(Mine.plan) \in SUBSET Nat
    BY DEF Unwritten, Patched
  <2> QED  BY <1>1, <2>1, Least
<1> QED  BY <1>2, Constants DEF NextFile, Unwritten

LEMMA WriteFileStep ==
    ASSUME IInv, WriteFile PROVE IInv'
<1> DEFINE f == NextFile(Mine.plan)  v == Mine.plan.content  w == [source EXCEPT ![f] = v]
<1>1. /\ At("write") /\ f \in Files /\ source[f] = Mine.plan.before[f] /\ source' = w
      /\ written' = IF op.auto /\ Unwritten(Mine.plan) = Patched THEN written + 1 ELSE written
      /\ passed' = {} /\ UNCHANGED <<disk, mem, op, fresh, review, key, auto, swept>>
  BY NextIsUnwritten DEF WriteFile, manager
<1>2. mem = disk /\ Mine.status = "applying" /\ Unspent(mem, op.c) /\ mem.crit[op.c] = Mine
  BY <1>1 DEF IInv, Placed, At, Mine
<1>3. /\ HasPlan(Mine) /\ v \in 1..fresh /\ v \in Nat /\ \A g \in Files : Mine.plan.before[g] # v
      /\ fresh \in Nat /\ source \in [Files -> 0..fresh] /\ source \in [Files -> Nat]
  BY <1>2, Types, PlanOf DEF Unspent
<1>4. /\ \A d \in Criteria : Avoids(mem.crit[d], v)
      /\ \A d \in Criteria : HasPlan(mem.crit[d]) /\ mem.crit[d].plan.content = v
                                => mem.crit[d].status = "applying"
  BY <1>2 DEF Unspent
<1> HIDE DEF f, v, w
<1>5. Sound(mem, w, review, {}, swept)
  BY <1>1, <1>3, <1>4, Types, SoundMoves DEF IInv, SoundInMemory, w
<1>6. SoundOnDisk' /\ SoundInMemory'
  BY <1>1, <1>2, <1>5 DEF SoundOnDisk, SoundInMemory
<1>7. w \in [Files -> 0..fresh]
  <2>1. v \in 0..fresh /\ f \in Files
    BY <1>1, <1>3
  <2> QED  BY <1>3, <2>1 DEF w
<1>a. written' \in Nat
  BY <1>1 DEF IInv, TypeOK
<1>8. TypeOK'
  BY <1>1, <1>7, <1>a DEF IInv, TypeOK
<1>9. Placed'
  BY <1>1, <1>2 DEF Placed, At, Mine, Confirming, Following, Rounding
<1>10. source'[1] = IF f = 1 THEN v ELSE source[1]
  BY <1>1, <1>3, Constants DEF w
<1>11. op.auto => auto # "none" /\ (written = 0 \/ source[1] # Mine.plan.before[1])
  BY <1>1 DEF IInv, Automatic, At
<1>12. AutoWritesOnce /\ written \in Nat /\ 1 \in Files
  BY Constants DEF IInv, Automatic, TypeOK
<1>13. ASSUME op.auto, Unwritten(Mine.plan) = Patched PROVE Automatic'
  <2>1. f = 1
    BY <1>13, FirstFile DEF f
  <2>2. written = 0 /\ written' = 1 /\ source'[1] # Mine.plan.before[1] /\ auto' # "none"
    BY <2>1, <1>1, <1>3, <1>10, <1>11, <1>12, <1>13
  <2> QED  BY <2>2, <1>1, <1>13 DEF Automatic, AutoWritesOnce, At, Confirming, Mine
<1>14. ASSUME ~(op.auto /\ Unwritten(Mine.plan) = Patched) PROVE Automatic'
  <2>1. written' = written /\ (op.auto => written = 0 \/ source'[1] # Mine.plan.before[1])
    BY <1>1, <1>3, <1>10, <1>11, <1>12, <1>14
  <2>2. Automatic'
    BY <2>1, <1>1, <1>11, <1>12 DEF Automatic, AutoWritesOnce, At, Confirming, Mine
  <2> QED  BY <2>2
<1>15. Automatic'
  BY <1>13, <1>14
<1> QED  BY <1>1, <1>6, <1>8, <1>9, <1>15, KeyedKept DEF IInv

(* Past its mark an adoption is of a criterion with findings.              *)
LEMMA ApplyingIs ==
    ASSUME IInv, At("write") \/ At("content")
    PROVE  /\ Mine.status = "applying" /\ op.c \in Adoptable /\ Mine.outcome # "supported"
           /\ HasPlan(Mine) /\ op.c \in Criteria
<1>1. Mine.status = "applying" /\ HasPlan(Mine)
  BY DEF IInv, Placed, At, Unspent, Mine
<1> QED  BY <1>1, MineIs, Types DEF Founds, Bare, Unbound

LEMMA ApplyFailsStep ==
    ASSUME IInv, ApplyFails PROVE IInv'
<1> DEFINE r == [Mine EXCEPT !.status = "recovery_required"]
<1>1. /\ At("write") \/ At("content")
      /\ mem' = With(r) /\ disk' = mem' /\ op' = Idle /\ Rest /\ Spent
  BY DEF ApplyFails, Save, Rest, Spent, Settled, world, manager, history
<1>2. /\ r \in Criterion(fresh) /\ r.status = "recovery_required" /\ r.plan = Mine.plan
      /\ r.adopted = Mine.adopted /\ r.experiment = Mine.experiment /\ r.outcome = Mine.outcome
  BY Types DEF Criterion, Statuses
<1> HIDE DEF r
<1>3. Fits(mem, source, review, passed, swept, op.c, r)
  BY <1>1, <1>2, ApplyingIs, SoundParts, Fitting DEF Mine, Founds, Halfway
<1>4. op' \in OpType /\ op'.at = "idle"
  BY <1>1, IdleIsPlace DEF OpType
<1>5. TypeOK' /\ SoundOnDisk' /\ SoundInMemory'
  BY <1>1, <1>2, <1>3, <1>4, MemStep, SameReviews DEF Rest
<1>6. Placed' /\ Automatic' /\ Keyed'
  BY <1>1, <1>4, PlacedIdle, AutomaticKept, KeyedKept DEF Rest, Confirming
<1> QED  BY <1>5, <1>6 DEF IInv

LEMMA TakeSnapshotStep ==
    ASSUME IInv, TakeSnapshot PROVE IInv'
<1> DEFINE r == [Mine EXCEPT !.adopted = source]
<1>1. /\ At("write") /\ mem' = With(r) /\ disk' = disk /\ Go("content") /\ Rest /\ auto' = auto
  BY DEF TakeSnapshot, Rest, world, manager, history
<1>2. /\ r \in Criterion(fresh) /\ r.status = Mine.status /\ r.plan = Mine.plan
      /\ r.adopted = source /\ r.experiment = Mine.experiment /\ r.outcome = Mine.outcome
  BY Types DEF Criterion
<1> HIDE DEF r
<1>3. Fits(mem, source, review, passed, swept, op.c, r)
  BY <1>1, <1>2, ApplyingIs, SoundParts, Fitting DEF Mine, Founds, Halfway
<1>4. op' \in OpType /\ op'.at = "content" /\ op'.c = op.c
  BY <1>1, GoesTo DEF Places
<1>5. /\ TypeOK' /\ SoundOnDisk' /\ SoundInMemory' /\ mem'.crit[op.c] = r
      /\ \A d \in Criteria : d # op.c => mem'.crit[d] = mem.crit[d]
  BY <1>1, <1>2, <1>3, <1>4, MemStep, SameReviews DEF Rest
<1>6. mem = disk /\ Mine' = r /\ Mine = mem.crit[op.c]
  BY <1>1, <1>4, <1>5 DEF IInv, Placed, At, Mine
<1>7. /\ Mine'.status = "applying" /\ HasPlan(Mine') /\ disk'.crit[op'.c].plan = Mine'.plan
      /\ \A d \in Criteria : d # op'.c => disk'.crit[d] = mem'.crit[d]
      /\ Mine'.adopted # NoSource
      /\ \A g \in Files : source'[g] = Mine'.adopted[g]
  BY <1>1, <1>2, <1>4, <1>5, <1>6, ApplyingIs, Types DEF HasPlan, Rest
<1>8. Placed'
  BY <1>4, <1>7 DEF Placed, Confirming, Following, Rounding
<1>9. Automatic' /\ Keyed'
  BY <1>1, <1>4, AutomaticKept, KeyedKept DEF Rest, Spent, Confirming
<1> QED  BY <1>5, <1>8, <1>9 DEF IInv

LEMMA AdoptStep ==
    ASSUME IInv, Adopt PROVE IInv'
<1> DEFINE r == [Mine EXCEPT !.status = "adopted"]
<1>1. /\ At("content") /\ source = Target(Mine.plan) /\ mem' = With(r) /\ disk' = mem'
      /\ Go("settle") /\ Rest /\ auto' = auto
  BY DEF Adopt, Save, Rest, world, manager, history
<1>2. /\ r \in Criterion(fresh) /\ r.status = "adopted" /\ r.plan = Mine.plan
      /\ r.adopted = Mine.adopted /\ r.experiment = Mine.experiment /\ r.outcome = Mine.outcome
  BY Types DEF Criterion, Statuses
<1> HIDE DEF r
<1>3. ~TornIn(r, source)
  BY <1>1, <1>2, Types, TargetIsWhole
<1>4. Fits(mem, source, review, passed, swept, op.c, r)
  BY <1>1, <1>2, <1>3, ApplyingIs DEF Fits, Mine, Founds
<1>5. op' \in OpType /\ op'.at = "settle" /\ op'.c = op.c
  BY <1>1, GoesTo DEF Places, Rounding
<1>6. TypeOK' /\ SoundOnDisk' /\ SoundInMemory' /\ mem'.crit[op.c] = r
  BY <1>1, <1>2, <1>4, <1>5, MemStep, SameReviews DEF Rest
<1>7. Placed'
  BY <1>1, <1>2, <1>5, <1>6, ApplyingIs DEF Placed, Confirming, Following, Rounding, Mine
<1>8. Automatic' /\ Keyed'
  BY <1>1, <1>5, AutomaticKept, KeyedKept DEF Rest, Spent, Confirming
<1> QED  BY <1>6, <1>7, <1>8 DEF IInv

LEMMA SettleStep ==
    ASSUME IInv, Settle PROVE IInv'
<1>1. At("settle") /\ UNCHANGED <<disk, mem>> /\ Go("round") /\ Rest /\ Spent
  BY DEF Settle, Settled, Rest, Spent, world, manager, history
<1>2. op' \in OpType /\ op'.at = "round" /\ op'.c = op.c
  BY <1>1, GoesTo DEF Places, Rounding
<1>3. TypeOK' /\ SoundOnDisk' /\ SoundInMemory'
  BY <1>1, <1>2, OpStep, SameReviews DEF Rest
<1>4. op.c \in Adoptable /\ Mine.status = "adopted" /\ Mine' = Mine
  BY <1>1, <1>2 DEF IInv, Placed, At, Mine, Rounding
<1>5. Placed'
  BY <1>2, <1>4 DEF Placed, Confirming, Following, Rounding
<1>6. Automatic' /\ Keyed'
  BY <1>1, <1>2, AutomaticKept, KeyedKept DEF Rest, Confirming
<1> QED  BY <1>3, <1>5, <1>6 DEF IInv

LEMMA RecoveredSaveStep ==
    ASSUME IInv, RecoveredSave PROVE IInv'
<1> DEFINE r == [Mine EXCEPT !.status = "adopted", !.adopted = source]
<1>1. /\ At("recovered") /\ mem' = With(r) /\ disk' = mem' /\ Go("recovered_round") /\ Rest /\ Spent
  BY DEF RecoveredSave, Save, Settled, Rest, Spent, world, manager, history
<1>2. /\ r \in Criterion(fresh) /\ r.status = "adopted" /\ r.plan = Mine.plan
      /\ r.adopted = source /\ r.experiment = Mine.experiment /\ r.outcome = Mine.outcome
  BY Types DEF Criterion, Statuses
<1> HIDE DEF r
<1>3. op.c \in Adoptable /\ ~TornIn(Mine, source) /\ Mine.outcome # "supported"
  BY <1>1, MineIs DEF IInv, Placed, At, Founds, Halfway
<1>4. ~TornIn(r, source)
  BY <1>2, <1>3 DEF TornIn, HasPlan
<1>5. Fits(mem, source, review, passed, swept, op.c, r)
  BY <1>2, <1>3, <1>4 DEF Fits, Mine, Founds
<1>6. op' \in OpType /\ op'.at = "recovered_round" /\ op'.c = op.c
  BY <1>1, GoesTo DEF Places, Rounding
<1>7. TypeOK' /\ SoundOnDisk' /\ SoundInMemory' /\ mem'.crit[op.c] = r
  BY <1>1, <1>2, <1>5, <1>6, MemStep, SameReviews DEF Rest
<1>8. Placed'
  BY <1>2, <1>3, <1>6, <1>7 DEF Placed, Confirming, Following, Rounding, Mine
<1>9. Automatic' /\ Keyed'
  BY <1>1, <1>6, AutomaticKept, KeyedKept DEF Rest, Confirming
<1> QED  BY <1>7, <1>8, <1>9 DEF IInv

-----------------------------------------------------------------------------
(* Rounds.                                                                 *)

LEMMA CarriedIs ==
    ASSUME NEW n \in Nat, NEW crit \in [Criteria -> Criterion(n)], NEW keep
    PROVE  /\ Carried(crit, keep) \in [Criteria -> Criterion(n)]
           /\ \A c \in keep \cap Criteria : Carried(crit, keep)[c] = crit[c]
           /\ \A c \in Criteria \ keep :
                 LET r == Carried(crit, keep)[c]
                 IN  /\ r.status = "pending_recheck" /\ r.outcome = "pending_recheck"
                     /\ r.plan = crit[c].plan /\ r.adopted = crit[c].adopted
                     /\ r.child = crit[c].child /\ r.mapping = crit[c].mapping
<1> DEFINE back(c) == [crit[c] EXCEPT !.status = "pending_recheck", !.outcome = "pending_recheck"]
<1>1. \A c \in Criteria :
         /\ back(c) \in Criterion(n) /\ back(c).status = "pending_recheck" /\ back(c).outcome = "pending_recheck"
         /\ back(c).plan = crit[c].plan /\ back(c).adopted = crit[c].adopted
         /\ back(c).child = crit[c].child /\ back(c).mapping = crit[c].mapping
  BY DEF Criterion, Statuses, Outcomes
<1>2. Carried(crit, keep) = [c \in Criteria |-> IF c \in keep THEN crit[c] ELSE back(c)]
  BY DEF Carried
<1> HIDE DEF back
<1> QED  BY <1>1, <1>2

LEMMA RefreshedIs ==
    ASSUME NEW n \in Nat, NEW crit \in [Criteria -> Criterion(n)], NEW choice \in {"none", "clear", "ambiguous"}
    PROVE  /\ Refreshed(crit, choice) \in [Criteria -> Criterion(n)]
           /\ \A c \in Criteria :
                 LET r == Refreshed(crit, choice)[c]
                 IN  /\ r.status = crit[c].status /\ r.outcome = crit[c].outcome
                     /\ r.plan = crit[c].plan /\ r.adopted = crit[c].adopted /\ r.child = crit[c].child
                     /\ c \in Adoptable \/ r.mapping = crit[c].mapping
<1> DEFINE new(c) == [crit[c] EXCEPT !.mapping = choice]
<1>1. \A c \in Criteria :
         /\ new(c) \in Criterion(n) /\ new(c).status = crit[c].status /\ new(c).outcome = crit[c].outcome
         /\ new(c).plan = crit[c].plan /\ new(c).adopted = crit[c].adopted /\ new(c).child = crit[c].child
  BY DEF Criterion
<1>2. Refreshed(crit, choice) = [c \in Criteria |-> IF c \in Adoptable THEN new(c) ELSE crit[c]]
  BY DEF Refreshed
<1> HIDE DEF new
<1> QED  BY <1>1, <1>2

(* What a round takes as found is what is half-written.                    *)
LEMMA TornIsTornIn ==
    ASSUME NEW r PROVE Torn(r) <=> TornIn(r, source)
  BY DEF Torn, TornIn

LEMMA OpenRoundStep ==
    ASSUME IInv, OpenRound PROVE IInv'
<1>1. PICK choice \in {"none", "clear", "ambiguous"} :
         LET crit == Carried(mem.crit, {op.c})
         IN  Save([mem EXCEPT !.snap = Mine.adopted,
                              !.crit = IF At("round") THEN Refreshed(crit, choice) ELSE crit])
  BY DEF OpenRound
<1> DEFINE carried == Carried(mem.crit, {op.c})
           crit == IF At("round") THEN Refreshed(carried, choice) ELSE carried
           t == [mem EXCEPT !.snap = Mine.adopted, !.crit = crit]
<1>2. /\ At("round") \/ At("recovered_round")
      /\ mem' = t /\ disk' = t /\ Go("create")
      /\ UNCHANGED <<source, fresh, review, key, auto, written, passed>>
      /\ swept' = swept \cup {c \in Criteria \ {op.c} : Torn(mem.crit[c])}
  BY <1>1 DEF OpenRound, Save, world, manager
<1>3. /\ fresh \in Nat /\ mem \in Task(fresh) /\ mem.crit \in [Criteria -> Criterion(fresh)]
      /\ Mine.adopted \in Sources(fresh) /\ op.c \in Criteria
  BY Types DEF Task, Criterion
<1>4. op.c \in Adoptable /\ Mine.status = "adopted" /\ Mine = mem.crit[op.c]
  BY <1>2 DEF IInv, Placed, At, Mine, Rounding
<1>5. /\ carried \in [Criteria -> Criterion(fresh)] /\ carried[op.c] = Mine
      /\ \A c \in Criteria \ {op.c} :
            /\ carried[c].status = "pending_recheck" /\ carried[c].outcome = "pending_recheck"
            /\ carried[c].plan = mem.crit[c].plan /\ carried[c].adopted = mem.crit[c].adopted
            /\ carried[c].child = mem.crit[c].child /\ carried[c].mapping = mem.crit[c].mapping
  BY <1>3, <1>4, CarriedIs
<1> HIDE DEF carried
<1>6. /\ crit \in [Criteria -> Criterion(fresh)]
      /\ \A c \in Criteria : /\ crit[c].status = carried[c].status /\ crit[c].outcome = carried[c].outcome
                             /\ crit[c].plan = carried[c].plan /\ crit[c].adopted = carried[c].adopted
                             /\ crit[c].child = carried[c].child
                             /\ c \in Adoptable \/ crit[c].mapping = carried[c].mapping
  <2>1. CASE At("round")
    BY <2>1, <1>3, <1>5, RefreshedIs
  <2>2. CASE ~At("round")
    BY <2>2, <1>5
  <2> QED  BY <2>1, <2>2
<1> HIDE DEF crit
<1>7. t \in Task(fresh) /\ t.crit = crit
  BY <1>3, <1>6 DEF Task
<1> HIDE DEF t
<1>8. ASSUME NEW c \in Criteria
      PROVE  /\ t.crit[c].status # "prepared" /\ t.crit[c].outcome # "supported"
             /\ TornIn(t.crit[c], source) => t.crit[c].status \in Halfway \/ c \in swept'
             /\ c \in Adoptable \/ Bare(t.crit[c])
  <2>1. CASE c = op.c
    <3>1. t.crit[c].status = "adopted" /\ t.crit[c].plan = Mine.plan /\ t.crit[c].outcome = Mine.outcome
      BY <2>1, <1>4, <1>5, <1>6, <1>7
    <3>2. TornIn(t.crit[c], source) => TornIn(Mine, source)
      BY <3>1 DEF TornIn, HasPlan
    <3>3. Mine.outcome # "supported" /\ (TornIn(Mine, source) => op.c \in swept)
      BY <1>4, MineIs DEF Founds, Halfway
    <3> QED  BY <2>1, <3>1, <3>2, <3>3, <1>2, <1>4
  <2>2. CASE c # op.c
    <3>1. /\ t.crit[c].status = "pending_recheck" /\ t.crit[c].outcome = "pending_recheck"
          /\ t.crit[c].plan = mem.crit[c].plan /\ t.crit[c].adopted = mem.crit[c].adopted
          /\ t.crit[c].child = mem.crit[c].child /\ (c \in Adoptable \/ t.crit[c].mapping = mem.crit[c].mapping)
      BY <2>2, <1>5, <1>6, <1>7
    <3>2. TornIn(t.crit[c], source) => Torn(mem.crit[c])
      BY <3>1 DEF TornIn, Torn, HasPlan
    <3>3. c \in Adoptable \/ Bare(mem.crit[c])
      BY DEF IInv, SoundInMemory, Sound, Bindable
    <3>4. c \in Adoptable \/ Bare(t.crit[c])
      BY <3>1, <3>3 DEF Bare, Unbound
    <3> QED  BY <2>2, <3>1, <3>2, <3>4, <1>2
  <2> QED  BY <2>1, <2>2
<1>9. Sound(t, source, review, passed, swept')
  BY <1>8, SoundByStatus
<1>10. SoundOnDisk' /\ SoundInMemory'
  BY <1>2, <1>9 DEF SoundOnDisk, SoundInMemory
<1>11. op' \in OpType /\ op'.at = "create" /\ op'.c = op.c
  BY <1>2, GoesTo DEF Places, Following
<1>12. TypeOK'
  BY <1>2, <1>7, <1>11 DEF IInv, TypeOK, OpType
<1>13. Mine'.status = "adopted"
  BY <1>2, <1>3, <1>4, <1>5, <1>6, <1>7, <1>11 DEF Mine
<1>14. Placed'
  BY <1>4, <1>11, <1>13 DEF Placed, Confirming, Following, Rounding
<1>15. Automatic' /\ Keyed'
  BY <1>2, <1>11, AutomaticKept, KeyedKept DEF Spent, Confirming
<1> QED  BY <1>10, <1>12, <1>14, <1>15 DEF IInv

LEMMA RebasedIs ==
    ASSUME NEW n \in Nat, NEW crit \in [Criteria -> Criterion(n)], source \in Sources(n)
    PROVE  /\ Rebased(crit) \in [Criteria -> Criterion(n)]
           /\ \A c \in Criteria :
                 LET r == Rebased(crit)[c]
                 IN  /\ r.status = crit[c].status /\ r.outcome = crit[c].outcome /\ r.plan = crit[c].plan
                     /\ r.child = crit[c].child /\ r.mapping = crit[c].mapping
                     /\ crit[c].adopted = NoSource => r.adopted = NoSource
<1> DEFINE new(c) == [crit[c] EXCEPT !.adopted = source]
<1>1. \A c \in Criteria :
         /\ new(c) \in Criterion(n) /\ new(c).status = crit[c].status /\ new(c).outcome = crit[c].outcome
         /\ new(c).plan = crit[c].plan /\ new(c).child = crit[c].child /\ new(c).mapping = crit[c].mapping
  BY DEF Criterion
<1>2. Rebased(crit) = [c \in Criteria |-> IF crit[c].adopted = NoSource THEN crit[c] ELSE new(c)]
  BY DEF Rebased
<1> HIDE DEF new
<1> QED  BY <1>1, <1>2

LEMMA ReverifyStep ==
    ASSUME IInv, Reverify PROVE IInv'
<1>1. /\ op' = [Idle EXCEPT !.at = "loop", !.loop = 1] /\ disk' = disk
      /\ UNCHANGED <<source, fresh, review, key, auto, written, passed>>
  BY DEF Reverify, world, manager
<1>2. op' \in OpType /\ op'.at = "loop"
  BY <1>1, IdleIsPlace DEF OpType, Places, Idle
<1>3. mem' \in Task(fresh) /\ Sound(mem', source, review, passed, swept') /\ swept \subseteq swept'
  <2>1. CASE source = disk.snap
    BY <2>1, Types DEF Reverify, IInv, SoundOnDisk
  <2>2. CASE source # disk.snap
    <3>1. PICK choice \in {"clear", "ambiguous"} :
             mem' = [disk EXCEPT !.snap = source,
                         !.crit = Refreshed(Rebased(Carried(disk.crit, {})), choice)]
      BY <2>2 DEF Reverify
    <3>2. swept' = swept \cup {c \in Criteria : Torn(disk.crit[c])}
      BY <2>2 DEF Reverify
    <3> DEFINE carried == Carried(disk.crit, {})  rebased == Rebased(carried)
               crit == Refreshed(rebased, choice)
    <3>3. fresh \in Nat /\ disk.crit \in [Criteria -> Criterion(fresh)] /\ source \in Sources(fresh)
          /\ disk \in Task(fresh)
      BY Types DEF Task
    <3>4. /\ carried \in [Criteria -> Criterion(fresh)]
          /\ \A c \in Criteria :
                /\ carried[c].status = "pending_recheck" /\ carried[c].outcome = "pending_recheck"
                /\ carried[c].plan = disk.crit[c].plan /\ carried[c].adopted = disk.crit[c].adopted
                /\ carried[c].child = disk.crit[c].child /\ carried[c].mapping = disk.crit[c].mapping
      BY <3>3, CarriedIs
    <3> HIDE DEF carried
    <3>5. /\ rebased \in [Criteria -> Criterion(fresh)]
          /\ \A c \in Criteria :
                /\ rebased[c].status = carried[c].status /\ rebased[c].outcome = carried[c].outcome
                /\ rebased[c].plan = carried[c].plan /\ rebased[c].child = carried[c].child
                /\ rebased[c].mapping = carried[c].mapping
                /\ carried[c].adopted = NoSource => rebased[c].adopted = NoSource
      BY <3>3, <3>4, RebasedIs
    <3> HIDE DEF rebased
    <3>6. /\ crit \in [Criteria -> Criterion(fresh)]
          /\ \A c \in Criteria :
                /\ crit[c].status = rebased[c].status /\ crit[c].outcome = rebased[c].outcome
                /\ crit[c].plan = rebased[c].plan /\ crit[c].adopted = rebased[c].adopted
                /\ crit[c].child = rebased[c].child
                /\ c \in Adoptable \/ crit[c].mapping = rebased[c].mapping
      BY <3>3, <3>5, RefreshedIs
    <3>7. mem' = [disk EXCEPT !.snap = source, !.crit = crit]
      BY <3>1 DEF carried, rebased
    <3> HIDE DEF crit
    <3>8. mem' \in Task(fresh) /\ mem'.crit = crit
      BY <3>3, <3>6, <3>7 DEF Task
    <3>9. ASSUME NEW c \in Criteria
          PROVE  /\ mem'.crit[c].status # "prepared" /\ mem'.crit[c].outcome # "supported"
                 /\ TornIn(mem'.crit[c], source) => mem'.crit[c].status \in Halfway \/ c \in swept'
                 /\ c \in Adoptable \/ Bare(mem'.crit[c])
      <4>1. /\ crit[c].status = "pending_recheck" /\ crit[c].outcome = "pending_recheck"
            /\ crit[c].plan = disk.crit[c].plan /\ crit[c].child = disk.crit[c].child
            /\ disk.crit[c].adopted = NoSource => crit[c].adopted = NoSource
            /\ c \in Adoptable \/ crit[c].mapping = disk.crit[c].mapping
        BY <3>4, <3>5, <3>6
      <4>2. TornIn(crit[c], source) => Torn(disk.crit[c])
        BY <4>1 DEF TornIn, Torn, HasPlan
      <4>3. c \in Adoptable \/ Bare(crit[c])
        BY <4>1, SoundParts DEF Bare, Unbound
      <4> QED  BY <3>2, <3>8, <4>1, <4>2, <4>3
    <3>10. Sound(mem', source, review, passed, swept')
      BY <3>9, SoundByStatus
    <3> QED  BY <3>2, <3>8, <3>10
  <2> QED  BY <2>1, <2>2
<1>4. SoundInMemory'
  BY <1>1, <1>3 DEF SoundInMemory
<1>5. Sound(disk, source, review, passed, swept')
  BY <1>3, SoundGrows DEF IInv, SoundOnDisk
<1>6. SoundOnDisk'
  BY <1>1, <1>5 DEF SoundOnDisk
<1>7. TypeOK'
  BY <1>1, <1>2, <1>3 DEF IInv, TypeOK, OpType
<1>8. Placed' /\ Automatic' /\ Keyed'
  BY <1>1, <1>2, PlacedIdle, AutomaticKept, KeyedKept DEF Spent, Confirming
<1> QED  BY <1>4, <1>6, <1>7, <1>8 DEF IInv

-----------------------------------------------------------------------------
(* The follow-up review.                                                   *)

LEMMA FollowingIs ==
    ASSUME IInv, op.at \in Following
    PROVE  /\ op.c \in Adoptable /\ Mine.status \in {"adopted", "pending_recheck"}
           /\ Mine.outcome # "supported" /\ op.c \in Criteria
           /\ Mine.gen \in 0..MaxGen /\ KeyOf \in Keys
<1>1. op.c \in Adoptable /\ Mine.status \in {"adopted", "pending_recheck"} /\ op.c \in Criteria
  BY Types DEF IInv, Placed
<1>2. Mine.outcome # "supported"
  BY <1>1, MineIs DEF Founds
<1>3. Mine.gen \in 0..MaxGen
  BY Types DEF Criterion
<1> QED  BY <1>1, <1>2, <1>3 DEF KeyOf, Keys

(* Only the generation or the child of the criterion changes.              *)
LEMMA FollowingFits ==
    ASSUME IInv, op.at \in Following, NEW r \in Criterion(fresh),
           r.status \in {Mine.status, "reviewing"}, r.plan = Mine.plan, r.adopted = Mine.adopted,
           r.experiment = Mine.experiment, r.outcome = Mine.outcome
    PROVE  Fits(mem, source, review, passed, swept, op.c, r)
  BY FollowingIs, SoundParts, Fitting DEF Mine, Founds, Halfway

LEMMA FollowsOn ==
    ASSUME op'.at \in Following, op'.c \in Adoptable, Mine'.status \in {"adopted", "pending_recheck"}
    PROVE  Placed'
  BY DEF Placed, Confirming, Following, Rounding

LEMMA CreateStep ==
    ASSUME IInv, Create PROVE IInv'
<1> DEFINE k == <<op.c, Generation>>  r == [Mine EXCEPT !.gen = Generation]
           new == [NoReview EXCEPT !.st = "awaiting", !.snap = source]
<1>1. /\ At("create") /\ Generation <= MaxGen /\ disk' = disk
      /\ UNCHANGED <<source, fresh, auto, written, passed, swept>>
      /\ \/ mem' = With(r) /\ Go("bind") /\ UNCHANGED <<review, key>>
         \/ /\ mem' = With(r) /\ Go("remember") /\ key[k] = "free"
            /\ review' = [review EXCEPT ![k] = new] /\ key' = [key EXCEPT ![k] = "inner"]
         \/ Raise /\ UNCHANGED <<review, key>>
  BY DEF Create, Raise, world, manager, history
<1>2. op.at \in Following
  BY <1>1 DEF At, Following
<1>3. Generation \in 0..MaxGen
  BY <1>1, <1>2, FollowingIs, Constants DEF Generation
<1>4. /\ r \in Criterion(fresh) /\ r.status = Mine.status /\ r.plan = Mine.plan
      /\ r.adopted = Mine.adopted /\ r.experiment = Mine.experiment /\ r.outcome = Mine.outcome
  BY <1>3, Types DEF Criterion
<1>5. k \in Keys
  BY <1>2, <1>3, FollowingIs DEF Keys
<1>6. new \in Review /\ new.verdict = "none"
  <2>1. source \in [Files -> Nat]
    BY Types
  <2> QED  BY <2>1 DEF Review, NoReview
<1> HIDE DEF r, k, new
<1>7. Fits(mem, source, review, passed, swept, op.c, r)
  BY <1>2, <1>4, FollowingFits
<1>8. CASE Raise /\ UNCHANGED <<review, key>>
  BY <1>1, <1>8, RaiseStep DEF Rest, Spent
<1>9. CASE mem' = With(r) /\ Go("bind") /\ UNCHANGED <<review, key>>
  <2>1. op' \in OpType /\ op'.at = "bind" /\ op'.c = op.c
    BY <1>9, GoesTo DEF Places, Following
  <2>2. TypeOK' /\ SoundOnDisk' /\ SoundInMemory' /\ mem'.crit[op.c] = r
    BY <1>1, <1>4, <1>7, <1>9, <2>1, MemStep, SameReviews
  <2>3. Placed'
    BY <1>2, <1>4, <2>1, <2>2, FollowingIs, FollowsOn DEF Mine, Following
  <2>4. Automatic' /\ Keyed'
    BY <1>1, <1>9, <2>1, AutomaticKept, KeyedKept DEF Spent, Confirming
  <2> QED  BY <2>2, <2>3, <2>4 DEF IInv
<1>10. CASE /\ mem' = With(r) /\ Go("remember") /\ key[k] = "free"
            /\ review' = [review EXCEPT ![k] = new] /\ key' = [key EXCEPT ![k] = "inner"]
  <2>1. op' \in OpType /\ op'.at = "remember" /\ op'.c = op.c
    BY <1>10, GoesTo DEF Places, Following
  <2>2. /\ review' \in [Keys -> Review] /\ review'[k] = new
        /\ \A j \in Keys : j # k => review'[j] = review[j]
    BY <1>5, <1>6, <1>10 DEF IInv, TypeOK
  <2>3. review[k].verdict = "none"
    BY <1>5, <1>10 DEF IInv, Keyed
  <2>4. \A j \in Keys : review[j].verdict = "supported" => review'[j].verdict = "supported"
    BY <2>2, <2>3
  <2>5. TypeOK' /\ SoundOnDisk' /\ SoundInMemory' /\ mem'.crit[op.c] = r
    BY <1>1, <1>4, <1>7, <1>10, <2>1, <2>2, <2>4, MemStep
  <2>6. Placed'
    BY <1>2, <1>4, <2>1, <2>5, FollowingIs, FollowsOn DEF Mine, Following
  <2>7. Automatic'
    BY <1>1, <2>1, AutomaticKept DEF Spent, Confirming
  <2>8. ASSUME NEW j \in Keys, key'[j] = "free"
        PROVE  review'[j].st = "absent"
    <3>1. key \in [Keys -> {"free", "inner"} \cup Specs]
      BY DEF IInv, Keyed
    <3>2. j # k /\ key[j] = "free"
      BY <1>5, <1>10, <2>8, <3>1
    <3> QED  BY <3>2, <2>2 DEF IInv, Keyed
  <2>9. \A j \in Keys : review'[j].verdict # "none" => review'[j].st = "complete"
    BY <1>6, <2>2 DEF IInv, Keyed
  <2>10. Keyed'
    BY <1>10, <2>8, <2>9 DEF IInv, Keyed
  <2> QED  BY <2>5, <2>6, <2>7, <2>10 DEF IInv
<1> QED  BY <1>1, <1>8, <1>9, <1>10

LEMMA RememberStep ==
    ASSUME IInv, Remember PROVE IInv'
<1>1. /\ At("remember") /\ Go("bind") /\ key' = [key EXCEPT ![KeyOf] = Mine.plan.spec]
      /\ UNCHANGED <<disk, mem, source, fresh, review, auto, written, passed, swept>>
  BY DEF Remember, world, history
<1>2. op.at \in Following
  BY <1>1 DEF At, Following
<1>3. op' \in OpType /\ op'.at = "bind" /\ op'.c = op.c
  BY <1>1, GoesTo DEF Places, Following
<1>4. TypeOK' /\ SoundOnDisk' /\ SoundInMemory'
  BY <1>1, <1>3, OpStep, SameReviews
<1>5. Placed'
  BY <1>1, <1>2, <1>3, FollowingIs, FollowsOn DEF Mine, Following
<1>6. Automatic'
  BY <1>1, <1>3, AutomaticKept DEF Spent, Confirming
<1>7. Mine.plan.spec \in Specs /\ Mine.plan.spec # "free"
  BY Types, BoundsAssumption DEF Criterion, Plans, NoPlan
<1>8. Keyed'
  BY <1>1, <1>7 DEF IInv, Keyed
<1> QED  BY <1>4, <1>5, <1>6, <1>8 DEF IInv

LEMMA BindChildStep ==
    ASSUME IInv, BindChild PROVE IInv'
<1> DEFINE r == [Mine EXCEPT !.child = Mine.gen + 1]
<1>1. /\ At("bind") /\ mem' = With(r) /\ disk' = mem' /\ Go("approve") /\ Rest /\ auto' = auto
  BY DEF BindChild, Save, Rest, world, manager, history
<1>2. op.at \in Following
  BY <1>1 DEF At, Following
<1>3. Mine.gen + 1 \in 0..MaxGen + 1
  BY <1>2, FollowingIs, Constants
<1>4. /\ r \in Criterion(fresh) /\ r.status = Mine.status /\ r.plan = Mine.plan
      /\ r.adopted = Mine.adopted /\ r.experiment = Mine.experiment /\ r.outcome = Mine.outcome
  BY <1>3, Types DEF Criterion
<1> HIDE DEF r
<1>5. Fits(mem, source, review, passed, swept, op.c, r)
  BY <1>2, <1>4, FollowingFits
<1>6. op' \in OpType /\ op'.at = "approve" /\ op'.c = op.c
  BY <1>1, GoesTo DEF Places, Following
<1>7. TypeOK' /\ SoundOnDisk' /\ SoundInMemory' /\ mem'.crit[op.c] = r
  BY <1>1, <1>4, <1>5, <1>6, MemStep, SameReviews DEF Rest
<1>8. Placed'
  BY <1>2, <1>4, <1>6, <1>7, FollowingIs, FollowsOn DEF Mine, Following
<1>9. Automatic' /\ Keyed'
  BY <1>1, <1>6, AutomaticKept, KeyedKept DEF Rest, Spent, Confirming
<1> QED  BY <1>7, <1>8, <1>9 DEF IInv

LEMMA ApproveStep ==
    ASSUME IInv, Approve PROVE IInv'
<1> DEFINE new == [review[KeyOf] EXCEPT !.st = "running", !.approved = TRUE]
<1>1. /\ At("approve") /\ UNCHANGED <<source, fresh, key, auto, written, passed, swept>>
      /\ \/ Go("started") /\ UNCHANGED <<disk, mem, review>>
         \/ /\ review[KeyOf].st = "awaiting" /\ review' = [review EXCEPT ![KeyOf] = new]
            /\ Go("started") /\ UNCHANGED <<disk, mem>>
         \/ Raise /\ UNCHANGED review
  BY DEF Approve, Raise, world, history
<1>2. op.at \in Following
  BY <1>1 DEF At, Following
<1>3. KeyOf \in Keys
  BY <1>2, FollowingIs
<1>4. new \in Review /\ new.verdict = review[KeyOf].verdict
  <2>1. review[KeyOf] \in Review
    BY <1>3 DEF IInv, TypeOK
  <2> QED  BY <2>1 DEF Review
<1> HIDE DEF new
<1>5. CASE Raise /\ UNCHANGED review
  BY <1>1, <1>5, RaiseStep DEF Rest, Spent
<1>6. CASE /\ Go("started") /\ UNCHANGED <<disk, mem>>
           /\ \/ UNCHANGED review
              \/ review[KeyOf].st = "awaiting" /\ review' = [review EXCEPT ![KeyOf] = new]
  <2>1. op' \in OpType /\ op'.at = "started" /\ op'.c = op.c
    BY <1>6, GoesTo DEF Places, Following
  <2>2. /\ review' \in [Keys -> Review]
        /\ \A j \in Keys : review'[j].verdict = review[j].verdict
        /\ \A j \in Keys : \/ review'[j].st = review[j].st
                           \/ review[j].st = "awaiting"
    <3>1. CASE UNCHANGED review
      BY <3>1 DEF IInv, TypeOK
    <3>2. CASE review[KeyOf].st = "awaiting" /\ review' = [review EXCEPT ![KeyOf] = new]
      <4>1. review' \in [Keys -> Review] /\ \A j \in Keys : review'[j] = IF j = KeyOf THEN new ELSE review[j]
        BY <3>2, <1>3, <1>4 DEF IInv, TypeOK
      <4> QED  BY <4>1, <3>2, <1>3, <1>4
    <3> QED  BY <1>6, <3>1, <3>2
  <2>3. TypeOK' /\ SoundOnDisk' /\ SoundInMemory'
    BY <1>1, <1>6, <2>1, <2>2, OpStep
  <2>4. Placed'
    BY <1>2, <1>6, <2>1, FollowingIs, FollowsOn DEF Mine, Following
  <2>5. Automatic'
    BY <1>1, <2>1, AutomaticKept DEF Spent, Confirming
  <2>6. Keyed'
    BY <1>1, <2>2 DEF IInv, Keyed
  <2> QED  BY <2>3, <2>4, <2>5, <2>6 DEF IInv
<1> QED  BY <1>1, <1>5, <1>6

(* A re-verification goes on with its next criterion.                      *)
LEMMA LoopsOn ==
    ASSUME IInv
    PROVE  LET next == [op EXCEPT !.at = "loop", !.loop = @ + 1, !.c = 1]
           IN  next \in OpType /\ next.at = "loop"
<1>1. op \in OpType /\ op.loop + 1 \in Nat /\ 1 \in Criteria
  BY Constants DEF IInv, TypeOK, OpType
<1>2. "loop" \in Places
  BY DEF Places
<1> QED  BY <1>1, <1>2 DEF OpType

LEMMA StartedStep ==
    ASSUME IInv, Started PROVE IInv'
<1> DEFINE r == [Mine EXCEPT !.status = "reviewing"]
<1>1. /\ At("started") /\ mem' = With(r) /\ disk' = mem' /\ Rest /\ auto' = auto
      /\ op' = IF op.loop > 0 THEN [op EXCEPT !.at = "loop", !.loop = @ + 1, !.c = 1] ELSE Idle
  BY DEF Started, Save, Rest, world, manager, history
<1>2. op.at \in Following
  BY <1>1 DEF At, Following
<1>3. /\ r \in Criterion(fresh) /\ r.status = "reviewing" /\ r.plan = Mine.plan
      /\ r.adopted = Mine.adopted /\ r.experiment = Mine.experiment /\ r.outcome = Mine.outcome
  BY Types DEF Criterion, Statuses
<1> HIDE DEF r
<1>4. Fits(mem, source, review, passed, swept, op.c, r)
  BY <1>2, <1>3, FollowingFits
<1>5. op' \in OpType /\ op'.at \in {"idle", "loop"}
  BY <1>1, LoopsOn, IdleIsPlace DEF OpType
<1>6. TypeOK' /\ SoundOnDisk' /\ SoundInMemory'
  BY <1>1, <1>3, <1>4, <1>5, MemStep, SameReviews DEF Rest
<1>7. Placed' /\ Automatic' /\ Keyed'
  BY <1>1, <1>5, PlacedIdle, AutomaticKept, KeyedKept DEF Rest, Spent, Confirming
<1> QED  BY <1>6, <1>7 DEF IInv

-----------------------------------------------------------------------------
(* Experiments and the re-verification.                                    *)

LEMMA EndExperimentStep ==
    ASSUME IInv, EndExperiment PROVE IInv'
<1>1. PICK good \in BOOLEAN :
         /\ passed' = IF good THEN passed \cup {op.c} ELSE passed
         /\ mem' = With(Measure(Mine, good))
  BY DEF EndExperiment
<1> DEFINE r == Measure(Mine, good)
<1>2. /\ At("measure") /\ disk' \in {disk, mem'} /\ auto' = auto
      /\ UNCHANGED <<source, fresh, review, key, written, swept>>
      /\ op' \in {Idle, [op EXCEPT !.at = "loop", !.loop = @ + 1, !.c = 1]}
  BY DEF EndExperiment, world, manager
<1>3. Mine.status \in Selectable /\ op.c \in Criteria /\ source # NoSource
  BY <1>2, Types DEF IInv, Placed, At
<1>4. /\ r \in Criterion(fresh) /\ r.plan = Mine.plan /\ r.adopted = Mine.adopted
      /\ r.child = Mine.child /\ r.mapping = Mine.mapping /\ r.experiment = source
      /\ r.status \in {Mine.status, "reviewed"}
      /\ r.outcome = "supported" => good /\ r.status = "reviewed"
  BY Types DEF Measure, Criterion, Statuses, Outcomes
<1> HIDE DEF r
<1>5. passed \subseteq passed' /\ passed' \subseteq Criteria /\ (good => op.c \in passed')
  BY <1>1, <1>3 DEF IInv, TypeOK
<1>6. Sound(mem, source, review, passed', swept) /\ Sound(disk, source, review, passed', swept)
  BY <1>5, SoundGrows DEF IInv, SoundOnDisk, SoundInMemory
<1>7. Founds(op.c, r, source, review, passed')
  BY <1>3, <1>4, <1>5 DEF Founds
<1>8. op.c \in Adoptable \/ Bare(r)
  BY <1>4, MineIs DEF Bare, Unbound
<1>9. Fits(mem, source, review, passed', swept, op.c, r)
  BY <1>3, <1>4, <1>7, <1>8, SoundParts, Fitting DEF Mine, Selectable, Halfway
<1>10. mem' = Put(mem, op.c, r)
  BY <1>1, WithIsPut DEF r
<1>11. mem' \in Task(fresh) /\ Sound(mem', source, review, passed', swept)
  BY <1>4, <1>6, <1>9, <1>10, Types, PutCriterion, SoundPut
<1>12. SoundOnDisk' /\ SoundInMemory'
  BY <1>2, <1>6, <1>11 DEF SoundOnDisk, SoundInMemory
<1>13. op' \in OpType /\ op'.at \in {"idle", "loop"}
  BY <1>2, LoopsOn, IdleIsPlace DEF OpType
<1>14. TypeOK'
  BY <1>2, <1>5, <1>11, <1>13 DEF IInv, TypeOK, OpType
<1>15. Placed' /\ Automatic' /\ Keyed'
  BY <1>2, <1>13, PlacedIdle, AutomaticKept, KeyedKept DEF Spent, Confirming
<1> QED  BY <1>12, <1>14, <1>15 DEF IInv

LEMMA ReverifyNextStep ==
    ASSUME IInv, ReverifyNext PROVE IInv'
<1> DEFINE c == CHOOSE c \in Due : \A d \in Due : c <= d
<1>1. /\ At("loop") /\ Due # {} /\ Rest /\ auto' = auto
      /\ \/ op' = [op EXCEPT !.at = "measure", !.c = c, !.loop = c] /\ UNCHANGED <<disk, mem>>
         \/ Raise
         \/ /\ c \notin Measured /\ mem' = [mem EXCEPT !.crit[c].adopted = mem.snap]
            /\ op' = [op EXCEPT !.at = "create", !.c = c, !.loop = c] /\ disk' = disk
  BY DEF ReverifyNext, Rest, world, manager, history
<1>2. c \in Due
  <2>1. Due \in SUBSET Nat
    BY DEF Due, Ahead, Criteria
  <2>2. \E x \in Due : \A y \in Due : x <= y
    BY <1>1, <2>1, Least
  <2> QED  BY <2>2
<1> HIDE DEF c
<1>3. /\ c \in Criteria /\ c \in Nat /\ mem.crit[c].status = "pending_recheck"
      /\ mem.crit[c] \in Criterion(fresh)
      /\ c \in Measured \/ (HasPlan(mem.crit[c]) /\ mem.crit[c].adopted # NoSource)
  <2>1. c \in Ahead /\ Rechecked(c)
    BY <1>2 DEF Due
  <2>2. c \in Criteria /\ mem.crit[c].status = "pending_recheck"
    BY <2>1 DEF Ahead
  <2>3. mem.crit[c] \in Criterion(fresh)
    BY <2>2, Types DEF Task
  <2>4. c \in Nat
    BY <2>2 DEF Criteria
  <2> QED  BY <2>1, <2>2, <2>3, <2>4 DEF Rechecked
<1>4. CASE Raise
  BY <1>1, <1>4, RaiseStep DEF Spent
<1>5. CASE op' = [op EXCEPT !.at = "measure", !.c = c, !.loop = c] /\ UNCHANGED <<disk, mem>>
  <2>1. op' \in OpType /\ op'.at = "measure" /\ op'.c = c
    BY <1>3, <1>5 DEF IInv, TypeOK, OpType, Places
  <2>2. TypeOK' /\ SoundOnDisk' /\ SoundInMemory'
    BY <1>1, <1>5, <2>1, OpStep, SameReviews DEF Rest
  <2>3. Mine'.status \in Selectable
    BY <1>3, <1>5, <2>1 DEF Mine, Selectable
  <2>4. Placed'
    BY <2>1, <2>3 DEF Placed, Confirming, Following, Rounding
  <2>5. Automatic' /\ Keyed'
    BY <1>1, <2>1, AutomaticKept, KeyedKept DEF Rest, Spent, Confirming
  <2> QED  BY <2>2, <2>4, <2>5 DEF IInv
<1>6. CASE /\ c \notin Measured /\ mem' = [mem EXCEPT !.crit[c].adopted = mem.snap]
           /\ op' = [op EXCEPT !.at = "create", !.c = c, !.loop = c] /\ disk' = disk
  <2> DEFINE q == mem.crit[c]  r == [q EXCEPT !.adopted = mem.snap]
  <2>1. op' \in OpType /\ op'.at = "create" /\ op'.c = c
    BY <1>3, <1>6 DEF IInv, TypeOK, OpType, Places, Following
  <2>2. /\ r \in Criterion(fresh) /\ r.status = q.status /\ r.plan = q.plan /\ r.adopted = mem.snap
        /\ r.experiment = q.experiment /\ r.outcome = q.outcome
    BY <1>3, Types DEF Criterion, Task
  <2>3. mem' = Put(mem, c, r)
    BY <1>6 DEF Put
  <2> HIDE DEF r
  <2>4. Founds(c, q, source, review, passed) /\ (c \in Adoptable \/ Bare(q))
    BY <1>3 DEF IInv, SoundInMemory, Sound, Founded, Bindable
  <2>5. c \in Adoptable /\ q.outcome # "supported"
    BY <1>3, <1>6, <2>4 DEF Bare, HasPlan, Founds
  <2>6. Fits(mem, source, review, passed, swept, c, r)
    BY <1>3, <2>2, <2>5, SoundParts, Fitting DEF Founds, Halfway
  <2>7. mem' \in Task(fresh) /\ mem'.crit[c] = r /\ Sound(mem', source, review, passed, swept)
    BY <1>3, <2>2, <2>3, <2>6, Types, PutCriterion, SoundPut DEF IInv, SoundInMemory
  <2>8. SoundOnDisk' /\ SoundInMemory'
    BY <1>1, <1>6, <2>7 DEF IInv, SoundOnDisk, SoundInMemory, Rest
  <2>9. TypeOK'
    BY <1>1, <1>6, <2>1, <2>7 DEF IInv, TypeOK, OpType, Rest
  <2>10. Placed'
    BY <1>3, <2>1, <2>2, <2>5, <2>7, FollowsOn DEF Mine, Following
  <2>11. Automatic' /\ Keyed'
    BY <1>1, <2>1, AutomaticKept, KeyedKept DEF Rest, Spent, Confirming
  <2> QED  BY <2>8, <2>9, <2>10, <2>11 DEF IInv
<1> QED  BY <1>1, <1>4, <1>5, <1>6

LEMMA ReverifyLeavesStep ==
    ASSUME IInv, ReverifyInterrupted \/ ReverifyEnds PROVE IInv'
<1>1. mem' = mem /\ disk' = mem /\ op' = Idle /\ Rest /\ auto' = auto
  BY DEF ReverifyInterrupted, ReverifyEnds, Save, Rest, world, manager, history
<1>2. TypeOK'
  BY <1>1, IdleIsPlace DEF IInv, TypeOK, Rest
<1>3. SoundOnDisk' /\ SoundInMemory'
  BY <1>1 DEF IInv, SoundOnDisk, SoundInMemory, Rest
<1>4. Placed' /\ Automatic' /\ Keyed'
  BY <1>1, IdleIsPlace, PlacedIdle, AutomaticKept, KeyedKept DEF Rest, Spent, Confirming
<1> QED  BY <1>2, <1>3, <1>4 DEF IInv

-----------------------------------------------------------------------------
(* The world.                                                              *)

LEMMA EditSourceStep ==
    ASSUME IInv, NEW f \in Edited, EditSource(f) PROVE IInv'
<1> DEFINE v == fresh + 1  w == [source EXCEPT ![f] = v]
<1>1. /\ fresh' = v /\ source' = w /\ passed' = {}
      /\ UNCHANGED <<disk, mem, op, review, key, auto, written, swept>>
  BY DEF EditSource, manager
<1>2. /\ f \in Files /\ fresh \in Nat /\ v \in Nat /\ v > fresh
      /\ source \in [Files -> 0..fresh] /\ source \in [Files -> Nat]
      /\ disk \in Task(fresh) /\ mem \in Task(fresh)
  BY Types, BoundsAssumption DEF Files
<1>3. w[f] = v /\ \A g \in Files : g # f => w[g] = source[g]
  BY <1>2
<1>4. ASSUME NEW t \in Task(fresh)
      PROVE  /\ \A d \in Criteria : Avoids(t.crit[d], v)
             /\ \A d \in Criteria : HasPlan(t.crit[d]) => t.crit[d].plan.content # v
  BY <1>2, NovelContent DEF Task
<1>5. ASSUME NEW t \in Task(fresh), Sound(t, source, review, passed, swept)
      PROVE  Sound(t, w, review, {}, swept)
  <2>1. \A d \in Criteria : HasPlan(t.crit[d]) /\ t.crit[d].plan.content = v => t.crit[d].status = "applying"
    BY <1>4
  <2> QED  BY <1>2, <1>4, <1>5, <2>1, SoundMoves
<1>6. w \in [Files -> 0..v]
  <2>1. source \in [Files -> 0..v] /\ v \in 0..v
    BY <1>2
  <2> QED  BY <2>1
<1> HIDE DEF w
<1>7. SoundOnDisk' /\ SoundInMemory'
  BY <1>1, <1>2, <1>5 DEF IInv, SoundOnDisk, SoundInMemory
<1>8. disk \in Task(v) /\ mem \in Task(v)
  BY <1>2, TasksGrow
<1>9. TypeOK'
  BY <1>1, <1>2, <1>6, <1>8 DEF IInv, TypeOK
<1>10. Mine' = Mine /\ Mine \in Criterion(fresh) /\ Avoids(Mine, v) /\ (HasPlan(Mine) => Mine.plan.content # v)
  BY <1>1, <1>4, Types DEF Mine
<1>11. ASSUME HasPlan(Mine) PROVE \A g \in Files : Mine.plan.before[g] # v /\ Target(Mine.plan)[g] # v
  <2>1. Mine.plan.before # NoSource /\ \A g \in Files : Mine.plan.before[g] # v
    BY <1>10, <1>11, Types, PlanOf, SourceIsSource DEF Avoids, Lacks
  <2>2. Mine.plan.content # v
    BY <1>10, <1>11
  <2> QED  BY <2>1, <2>2 DEF Target
<1>12. TornIn(Mine, w) => TornIn(Mine, source)
  BY <1>3, <1>10, <1>11, Constants DEF TornIn
<1>13. op.at = "content" =>
          \A g \in Files : source'[g] = Mine.adopted[g] \/ source'[g] # Target(Mine.plan)[g]
  BY <1>1, <1>3, <1>11 DEF IInv, Placed
<1>14. Placed'
  BY <1>1, <1>10, <1>12, <1>13 DEF IInv, Placed
<1>15. op.at = "write" => HasPlan(Mine)
  BY DEF IInv, Placed, Unspent, Mine
<1>16. op.at = "write" /\ source[1] # Mine.plan.before[1] => source'[1] # Mine.plan.before[1]
  BY <1>1, <1>3, <1>11, <1>15, Constants
<1>17. Automatic' /\ Keyed'
  BY <1>1, <1>10, <1>16, KeyedKept DEF IInv, Automatic, AutoWritesOnce
<1> QED  BY <1>7, <1>9, <1>14, <1>17 DEF IInv

(* The manager ends a review, and leaves the task alone.                   *)
LEMMA ReviewMoves ==
    ASSUME IInv, review' \in [Keys -> Review],
           \A k \in Keys : review[k].verdict = "supported" => review'[k].verdict = "supported",
           \A k \in Keys : /\ review[k].st = "absent" => review'[k].st = "absent"
                           /\ review'[k].verdict # "none" => review'[k].st = "complete",
           UNCHANGED <<disk, mem, op, source, fresh, auto, key, written, passed, swept>>
    PROVE  IInv'
<1>1. op' \in OpType
  BY DEF IInv, TypeOK, OpType
<1>2. TypeOK' /\ SoundOnDisk' /\ SoundInMemory'
  BY <1>1, OpStep
<1>3. Placed' /\ Automatic'
  BY DEF IInv, Placed, Automatic, AutoWritesOnce, Mine
<1>4. Keyed'
  BY DEF IInv, Keyed
<1> QED  BY <1>2, <1>3, <1>4 DEF IInv

LEMMA ReviewEndsStep ==
    ASSUME IInv, NEW k \in Keys, ReviewEnds(k) \/ ReviewDropped(k) PROVE IInv'
<1>1. /\ review[k].st \in {"running", "awaiting"}
      /\ UNCHANGED <<disk, mem, op, source, fresh, auto, key, written, passed, swept>>
      /\ \/ \E v \in {"supported", "gap_remains"} : review' = [review EXCEPT ![k].st = "complete", ![k].verdict = v]
         \/ review' = [review EXCEPT ![k].st = "failed"]
  BY DEF ReviewEnds, ReviewDropped, OnlyManager, world, history
<1>2. review \in [Keys -> Review] /\ review[k] \in Review
  BY DEF IInv, TypeOK
<1>3. review[k].verdict = "none" /\ \A j \in Keys : review[j].verdict # "none" => review[j].st = "complete"
  BY <1>1 DEF IInv, Keyed
<1>4. PICK new \in Review : /\ review' = [review EXCEPT ![k] = new]
                            /\ new.verdict # "none" => new.st = "complete"
  <2>1. ASSUME NEW v \in {"supported", "gap_remains"},
               review' = [review EXCEPT ![k].st = "complete", ![k].verdict = v]
        PROVE  \E new \in Review : /\ review' = [review EXCEPT ![k] = new]
                                   /\ new.verdict # "none" => new.st = "complete"
    <3> DEFINE new == [review[k] EXCEPT !.st = "complete", !.verdict = v]
    <3>1. new \in Review /\ new.st = "complete"
      BY <1>2 DEF Review
    <3>2. review' = [review EXCEPT ![k] = new]
      BY <1>2, <2>1
    <3> QED  BY <3>1, <3>2
  <2>2. ASSUME review' = [review EXCEPT ![k].st = "failed"]
        PROVE  \E new \in Review : /\ review' = [review EXCEPT ![k] = new]
                                   /\ new.verdict # "none" => new.st = "complete"
    <3> DEFINE new == [review[k] EXCEPT !.st = "failed"]
    <3>1. new \in Review /\ new.verdict = "none"
      BY <1>2, <1>3 DEF Review
    <3>2. review' = [review EXCEPT ![k] = new]
      BY <1>2, <2>2
    <3> QED  BY <3>1, <3>2
  <2> QED  BY <1>1, <2>1, <2>2
<1>5. review' \in [Keys -> Review] /\ \A j \in Keys : review'[j] = IF j = k THEN new ELSE review[j]
  BY <1>2, <1>4
<1> QED  BY <1>1, <1>3, <1>4, <1>5, ReviewMoves

LEMMA CrashStep ==
    ASSUME IInv, Crash PROVE IInv'
<1> DEFINE cut(k) == [review[k] EXCEPT !.st = "failed"]
<1>1. /\ op' = Idle /\ mem' = disk
      /\ review' = [k \in Keys |-> IF review[k].st \in {"awaiting", "running"} THEN cut(k) ELSE review[k]]
      /\ UNCHANGED <<disk, source, fresh, key, auto, written, passed, swept>>
  BY DEF Crash, world, history
<1>2. \A k \in Keys : review[k] \in Review
  BY DEF IInv, TypeOK
<1>3. \A k \in Keys : cut(k) \in Review /\ cut(k).st = "failed" /\ cut(k).verdict = review[k].verdict
  BY <1>2 DEF Review
<1> HIDE DEF cut
<1>4. /\ review' \in [Keys -> Review]
      /\ \A k \in Keys : /\ review'[k].verdict = review[k].verdict
                         /\ \/ review'[k].st = review[k].st
                            \/ review[k].st \in {"awaiting", "running"}
  BY <1>1, <1>2, <1>3
<1>5. Sound(disk, source, review', passed, swept)
  BY <1>4, SoundGrows DEF IInv, SoundOnDisk
<1>6. SoundOnDisk' /\ SoundInMemory'
  BY <1>1, <1>5 DEF SoundOnDisk, SoundInMemory
<1>7. TypeOK'
  BY <1>1, <1>4, IdleIsPlace DEF IInv, TypeOK
<1>8. Placed' /\ Automatic'
  BY <1>1, IdleIsPlace, PlacedIdle, AutomaticKept DEF Spent, Confirming
<1>9. Keyed'
  BY <1>1, <1>4 DEF IInv, Keyed
<1> QED  BY <1>6, <1>7, <1>8, <1>9 DEF IInv

-----------------------------------------------------------------------------
(* The invariant.                                                          *)

LEMMA InitIInv ==
    ASSUME Init PROVE IInv
<1>1. /\ disk = NewTask /\ mem = NewTask /\ op = Idle /\ source = Original /\ fresh = 0
      /\ review = [k \in Keys |-> NoReview] /\ key = [k \in Keys |-> "free"]
      /\ auto = "none" /\ passed = {} /\ written = 0 /\ swept = {}
  BY DEF Init
<1>2. Original \in [Files -> 0..0] /\ Original \in Sources(0)
  BY DEF Original, Sources
<1>3. NewTask \in Task(0) /\ \A c \in Criteria : NewTask.crit[c] = NewCriterion
  BY <1>2, NewCriterionIs DEF NewTask, Task
<1>4. NoReview \in Review /\ NoReview.st = "absent" /\ NoReview.verdict = "none"
  BY DEF NoReview, Review
<1>5. TypeOK
  BY <1>1, <1>2, <1>3, <1>4, IdleIsPlace DEF TypeOK
<1>6. Sound(NewTask, source, review, passed, swept)
  BY <1>3, NewCriterionIs, SoundByStatus
<1>7. SoundOnDisk /\ SoundInMemory
  BY <1>1, <1>6 DEF SoundOnDisk, SoundInMemory
<1>8. Placed
  BY <1>1, IdleIsPlace DEF Placed, Confirming, Following, Rounding
<1>9. Automatic
  BY <1>1, IdleIsPlace DEF Automatic, AutoWritesOnce, Confirming
<1>10. Keyed
  BY <1>1, <1>4 DEF Keyed
<1> QED  BY <1>5, <1>7, <1>8, <1>9, <1>10 DEF IInv

LEMMA StutterStep ==
    ASSUME IInv, UNCHANGED vars PROVE IInv'
  BY DEF IInv, TypeOK, SoundOnDisk, SoundInMemory, Placed, Automatic, AutoWritesOnce, Keyed, Mine, vars

LEMMA NextIInv ==
    ASSUME IInv, [Next]_vars PROVE IInv'
<1>1. CASE User
  BY <1>1, SelectStep, AcceptRiskStep, BindStep, ConfirmMappingStep, PrepareStep, ConfirmStep, RecoverStep,
     RetryStep, StartExperimentStep, ChangeRequirementStep, ReverifyStep DEF User
<1>2. CASE Adoption
  BY <1>2, PreparedStep, ConfirmGuardStep, ConfirmMarkStep, WriteFileStep, ApplyFailsStep, TakeSnapshotStep,
     AdoptStep, SettleStep, OpenRoundStep, RecoveredSaveStep DEF Adoption
<1>3. CASE FollowUp
  BY <1>3, CreateStep, RememberStep, BindChildStep, ApproveStep, StartedStep DEF FollowUp
<1>4. CASE Reverification
  BY <1>4, ReverifyNextStep, ReverifyLeavesStep, EndExperimentStep DEF Reverification
<1>5. CASE Environment
  BY <1>5, EditSourceStep, ReviewEndsStep, CrashStep DEF Environment
<1>6. CASE UNCHANGED vars
  BY <1>6, StutterStep
<1> QED  BY <1>1, <1>2, <1>3, <1>4, <1>5, <1>6 DEF Next

(* What the records, the worktree, the operation in progress and the       *)
(* reviews imply of each other holds in every state.                       *)
THEOREM IInvHolds == Spec => []IInv
  BY InitIInv, NextIInv, PTL DEF Spec

(* Automatic adoption writes once for a task, over deaths in the middle of *)
(* it, recoveries, new requirement versions and the edits of the user.     *)
THEOREM AutoWritesOnlyOnce == Spec => []AutoWritesOnce
<1>1. IInv => AutoWritesOnce
  BY DEF IInv, Automatic
<1> QED  BY <1>1, IInvHolds, PTL

(* Half of a candidate in the worktree is known to the record and can be   *)
(* recovered, unless a round took the worktree as it found it.             *)
THEOREM InterruptedIsRecoverable == Spec => []TornIsRecoverable
<1>1. IInv => TornIsRecoverable
  BY TornIsTornIn DEF IInv, SoundOnDisk, Sound, Recoverable, TornIsRecoverable, Halfway
<1> QED  BY <1>1, IInvHolds, PTL

(* What a criterion shows comes from its record and from the review or     *)
(* experiment the record names.                                            *)
LEMMA ShownIsFounded ==
    ASSUME IInv, NEW c \in Criteria, Shown(c) = "supported"
    PROVE  (c \in Adoptable /\ Reviewed(c, review)) \/ c \in passed
<1> DEFINE r == disk.crit[c]
<1>1. r \in Criterion(fresh) /\ Founds(c, r, source, review, passed) /\ (c \in Adoptable \/ Bare(r))
  BY Types, SoundParts
<1>2. Overlaid(c, r) = "supported" /\ source = Expected(r, disk)
  BY DEF Shown
<1>3. CASE r.child > 0 /\ r.status \in {"reviewing", "adopted"}
  <2>1. r.outcome # "supported" /\ c \in Adoptable
    BY <1>1, <1>3 DEF Founds, Bare
  <2>2. ChildState(c, r) = "complete"
    BY <1>2, <1>3, <2>1 DEF Overlaid
  <2>3. Compared(c, r) = "supported"
    BY <1>2, <1>3, <2>2 DEF Overlaid
  <2> QED  BY <1>1, <2>1, <2>2, <2>3, ComparedIsReviewed
<1>4. CASE ~(r.child > 0 /\ r.status \in {"reviewing", "adopted"})
  <2>1. r.outcome = "supported"
    BY <1>2, <1>4 DEF Overlaid
  <2>2. CASE c \in Adoptable /\ Reviewed(c, review)
    BY <2>2
  <2>3. CASE r.experiment # NoSource /\ (c \in passed \/ source # Basis(r))
    BY <1>2, <2>3 DEF Expected, Basis
  <2> QED  BY <1>1, <2>1, <2>2, <2>3 DEF Founds
<1> QED  BY <1>3, <1>4

(* What is shown as supported was supported by a completed review or a     *)
(* passed experiment of that criterion (get() of tasks.py), and for a      *)
(* criterion the server measures, by an experiment on this worktree.       *)
THEOREM SuccessIsEvidenced == Spec => []SuccessHasEvidence
<1>1. ASSUME IInv PROVE NeverFabricated
  <2> SUFFICES ASSUME NEW c \in Criteria, Shown(c) = "supported" PROVE Evidence(c) # {}
    BY DEF NeverFabricated
  <2>1. CASE Reviewed(c, review)
    <3>1. PICK k \in Keys : k[1] = c /\ review[k].verdict = "supported"
      BY <2>1 DEF Reviewed
    <3>2. review[k].snap \in Evidence(c)
      BY <3>1 DEF Evidence
    <3> QED  BY <3>2
  <2>2. CASE c \in passed
    BY <2>2 DEF Evidence
  <2> QED  BY <1>1, <2>1, <2>2, ShownIsFounded
<1>2. ASSUME IInv PROVE ExperimentIsCurrent
  BY <1>2, ShownIsFounded, BoundsAssumption DEF ExperimentIsCurrent, Criteria
<1>3. IInv => SuccessHasEvidence
  BY <1>1, <1>2 DEF SuccessHasEvidence
<1> QED  BY <1>3, IInvHolds, PTL

(* The one step that marks an applied plan as adopted is Adopt.             *)
LEMMA AdoptedStep ==
    ASSUME IInv, [Next]_vars, NEW c \in Criteria,
           disk.crit[c].status = "applying", At("content"), disk'.crit[c].status = "adopted"
    PROVE  disk'.crit[c].adopted = Target(disk.crit[c].plan)
<1>1. disk'.crit[c] # disk.crit[c]
  OBVIOUS
<1>2. CASE Adopt
  <2> DEFINE r == [Mine EXCEPT !.status = "adopted"]
  <2>1. disk' = Put(mem, op.c, r) /\ source = Target(Mine.plan)
    BY <1>2, WithIsPut DEF Adopt, Save
  <2>2. r \in Criterion(fresh) /\ r.adopted = Mine.adopted /\ Mine \in Criterion(fresh)
    BY Types DEF Criterion, Statuses
  <2> HIDE DEF r
  <2>3. disk'.crit[op.c] = r /\ \A d \in Criteria : d # op.c => disk'.crit[d] = mem.crit[d]
    BY <2>1, <2>2, Types, PutCriterion
  <2>4. /\ disk.crit[op.c].plan = Mine.plan
        /\ \A d \in Criteria : d # op.c => disk.crit[d] = mem.crit[d]
        /\ Mine.adopted # NoSource
        /\ \A f \in Files : source[f] = Mine.adopted[f] \/ source[f] # Target(Mine.plan)[f]
    BY DEF IInv, Placed, At
  <2>5. c = op.c
    BY <1>1, <2>3, <2>4
  <2>6. Mine.adopted \in [Files -> 0..fresh] /\ source \in [Files -> 0..fresh]
    BY <2>2, <2>4, Types DEF Criterion, Sources
  <2>7. \A f \in Files : source[f] = Mine.adopted[f]
    BY <2>1, <2>4
  <2>8. Mine.adopted = source
    BY <2>6, <2>7
  <2> QED  BY <2>1, <2>2, <2>3, <2>4, <2>5, <2>8
<1>3. CASE ApplyFails
  <2> DEFINE r == [Mine EXCEPT !.status = "recovery_required"]
  <2>1. disk' = Put(mem, op.c, r)
    BY <1>3, WithIsPut DEF ApplyFails, Save
  <2>2. r \in Criterion(fresh) /\ r.status = "recovery_required"
    BY Types DEF Criterion, Statuses
  <2> HIDE DEF r
  <2>3. disk'.crit[op.c] = r /\ \A d \in Criteria : d # op.c => disk'.crit[d] = mem.crit[d]
    BY <2>1, <2>2, Types, PutCriterion
  <2>4. \A d \in Criteria : d # op.c => disk.crit[d] = mem.crit[d]
    BY DEF IInv, Placed, At
  <2> QED  BY <1>1, <2>2, <2>3, <2>4
<1>4. ~User
  BY DEF User, Select, AcceptRisk, Bind, ConfirmMapping, Prepare, Confirm, AutoConfirm, Recover, Retry,
         StartExperiment, ChangeRequirement, Reverify, Start, Free, At
<1>5. ~FollowUp /\ ~Reverification
  BY DEF FollowUp, Create, Remember, BindChild, Approve, Started, Reverification, ReverifyNext,
         ReverifyInterrupted, ReverifyEnds, EndExperiment, At
<1>6. ~Environment
  BY <1>1 DEF Environment, EditSource, ReviewEnds, ReviewDropped, Crash, OnlyManager
<1>7. Adoption => Adopt \/ ApplyFails
  BY DEF Adoption, Prepared, ConfirmGuard, ConfirmMark, WriteFile, TakeSnapshot, Settle, OpenRound,
         RecoveredSave, At
<1> QED  BY <1>1, <1>2, <1>3, <1>4, <1>5, <1>6, <1>7 DEF Next, vars

(* A confirmed plan ends as adopted only with the content it was prepared  *)
(* for, whatever was edited while its files were written.                  *)
THEOREM AdoptionKeepsThePlan == Spec => AdoptedAsPlanned
<1>1. IInv /\ [Next]_vars =>
        [\A c \in Criteria :
           disk.crit[c].status = "applying" /\ At("content") /\ disk'.crit[c].status = "adopted"
             => disk'.crit[c].adopted = Target(disk.crit[c].plan)]_vars
  BY AdoptedStep
<1> QED  BY <1>1, IInvHolds, PTL DEF Spec, AdoptedAsPlanned
=============================================================================
