-------------------------- MODULE EvidenceSession --------------------------
(***************************************************************************)
(* One deterministic analysis (modou/agent/session.py): the phases of the  *)
(* session, the worktree its trials cut and restore (workspace.py,         *)
(* trial.py), the drift and deletion engines (engines/), the probe budget  *)
(* (budget.py) and the evidence ledger (ledger/).                          *)
(*                                                                         *)
(* Every conclusion is kept twice.  The engines put it in units and        *)
(* reasons, from which label.merge says what each added line is.  The      *)
(* runner and the claim builder put what was observed in the ledger, from  *)
(* which ledger/derive.py says it again, without reading the first.        *)
(* finish_run refuses to publish when the two differ.                      *)
(*                                                                         *)
(* A test run is a choice among what it can show: a deletion that does not *)
(* compile, a run without a usable result, the same vector, a vector that  *)
(* shifted without a regression, a regression that is inadmissible (the    *)
(* test never ran) or admissible.  The wall clock is the flag late.        *)
(***************************************************************************)
EXTENDS Naturals, Sequences, FiniteSets, SequencesExt

CONSTANTS
    Files,        \* files the patch adds lines to
    NewFiles,     \* those it creates
    LinesOf,      \* the added lines of a file
    Roots,        \* deletable AST nodes of a file, coarse ones first
    Kids,         \* the statements inside a node
    Span,         \* the lines of a node
    Covers,       \* bound: what coverage may say of the added lines
    Cap,          \* HARD_MAX_PROBES
    MaxMinimize   \* bound: trials of one delta-debugging pass

Nodes == DOMAIN Span
Lines == UNION {LinesOf[f] : f \in Files}

ASSUME EvidenceAssumption ==
    /\ NewFiles \subseteq Files
    /\ Roots \in [Files -> Seq(Nodes)] /\ Kids \in [Nodes -> Seq(Nodes)]
    /\ Span \in [Nodes -> SUBSET Lines]
    /\ Covers \subseteq [Lines -> {"text", "plain", "unrun", "run"}]
    /\ Cap \in Nat /\ MaxMinimize \in Nat

(* A node is a whole statement: its lines are those of one file and its    *)
(* parts are inside of it.  A line is of one file, and no file is named as *)
(* the tag of a unit.                                                      *)
ASSUME SyntaxAssumption ==
    /\ "unit" \notin Files
    /\ \A f, g \in Files : f # g => LinesOf[f] \cap LinesOf[g] = {}
    /\ \A f \in Files : \A i \in 1..Len(Roots[f]) : Span[Roots[f][i]] \subseteq LinesOf[f]
    /\ \A n \in Nodes : \A i \in 1..Len(Kids[n]) : Span[Kids[n][i]] \subseteq Span[n]

VARIABLES
    strategy,  \* probe_strategy: "hdd" or "ddmin"
    cover,     \* coverage of the added lines: blank text, no statement, not run, run
    facts,     \* measured, allowed: what coverage and filekinds say of a file
    phase,     \* SessionPhase
    raised,    \* an exception no handler expects is on its way to the caller
    tree,      \* the worktree: "none", "clean", "cut" or "dirty"
    live,      \* the worktree is in _LIVE
    residue,   \* cleanup_error
    late,      \* less than one probe is left of the total time
    used,      \* probes spent by the engines
    extra,     \* probes spent by delta debugging
    completed, \* anchors probed
    step,      \* where counterfactual_probe is
    anchor,    \* the anchor it probes
    queue, seen, open, unresolved,  \* hdd.run: queue, seen, remaining(), unresolved
    units,     \* evidence units with a verdict
    why,       \* reasons in per_file
    ledger     \* the records of the run

budget == <<late, used, extra>>
engine == <<queue, seen, open, unresolved>>
setting == <<strategy, cover, facts>>
esvars == <<setting, phase, raised, tree, live, residue, budget, completed, step, anchor,
          engine, units, why, ledger>>

FileOf(l) == CHOOSE f \in Files : l \in LinesOf[f]
Unlabeled(reason) == <<"UNLABELED", reason>>

\* the update of a dictionary: the new entries over the old ones
Over(new, old) == [k \in DOMAIN new \cup DOMAIN old |-> IF k \in DOMAIN new THEN new[k] ELSE old[k]]

------------------------------------------------------------------------------
(* What the engines say of a line: the first labels and label.merge.          *)

\* unevidenced.label_lines
FirstLabel(l) ==
    LET f == FileOf(l) IN
    IF cover[l] = "text" THEN Unlabeled("non_executable")
    ELSE IF f \notin facts.measured THEN Unlabeled("not_measured")
    ELSE IF cover[l] = "plain" THEN Unlabeled("non_executable")
    ELSE IF cover[l] = "unrun" THEN <<"UNEVIDENCED", "">>
    ELSE IF f \notin facts.allowed THEN Unlabeled("unsupported_file")
    ELSE Unlabeled("not_isolated")

NotIsolated(f) == {l \in LinesOf[f] : FirstLabel(l) = Unlabeled("not_isolated")}

Rank == [DRIFT |-> 0, LOAD_BEARING |-> 1, UNEVIDENCED |-> 2, INERT |-> 3, UNLABELED |-> 4]

\* label.merge: the strongest of the first label and the verdicts over the line
Merged(l) ==
    LET first == IF l \in DOMAIN why THEN Unlabeled(why[l]) ELSE FirstLabel(l)
        over  == {u.verdict : u \in {v \in units : l \in v.lines}} \cup {first[1]}
        best  == CHOOSE a \in over : \A b \in over : Rank[a] <= Rank[b]
    IN  IF best = first[1] THEN first ELSE <<best, "">>

------------------------------------------------------------------------------
(* What the ledger says of it: ledger/derive.py, from the records alone.      *)

Trials == ToSet(ledger.trials)

\* observe.line_context and observe.file_kind: one record for a file
LineContext(f) ==
    LET executable == {l \in LinesOf[f] : f \in facts.measured /\ cover[l] \in {"unrun", "run"}}
    IN  [measured |-> f \in facts.measured, executable |-> executable,
         executed |-> {l \in executable : cover[l] = "run"},
         textual |-> {l \in LinesOf[f] : cover[l] = "text"}, allowed |-> f \in facts.allowed]

DerivedFirst(l) ==
    LET c == ledger.context[FileOf(l)] IN
    IF l \in c.textual THEN Unlabeled("non_executable")
    ELSE IF ~c.measured THEN Unlabeled("not_measured")
    ELSE IF l \notin c.executable THEN Unlabeled("non_executable")
    ELSE IF l \notin c.executed THEN <<"UNEVIDENCED", "">>
    ELSE IF c.allowed THEN Unlabeled("not_isolated") ELSE Unlabeled("unsupported_file")

Explained(l) ==
    LET first == DerivedFirst(l) IN
    IF first[1] = "UNLABELED" /\ l \in DOMAIN ledger.outcome THEN Unlabeled(ledger.outcome[l]) ELSE first

SameVector(of, lines) ==
    \E t \in Trials : t.of = of /\ lines \subseteq t.lines /\ t.status = "COMPLETE" /\ t.vector = "same"

DerivedDrift(f) ==
    f \in ledger.git /\ f \in ledger.unreferenced /\ SameVector(f, LinesOf[f])

\* a mutant: a line no test ran is derived inert because its unit changed nothing
DerivedOverUnrun(l) ==
    IF DerivedDrift(FileOf(l)) THEN <<"DRIFT", "">>
    ELSE IF \E n \in ledger.claims : l \in Span[n] THEN <<"LOAD_BEARING", "">>
    ELSE IF SameVector("unit", {l}) THEN <<"INERT", "">>
    ELSE Explained(l)

Derived(l) ==
    IF DerivedDrift(FileOf(l)) THEN <<"DRIFT", "">>
    ELSE IF \E n \in ledger.claims : l \in Span[n] THEN <<"LOAD_BEARING", "">>
    ELSE IF Explained(l)[1] = "UNLABELED" /\ SameVector("unit", {l}) THEN <<"INERT", "">>
    ELSE Explained(l)

------------------------------------------------------------------------------
(* The phases before the first trial.                                         *)

NoLedger == [context |-> <<>>, trials |-> <<>>, reruns |-> <<>>, claims |-> {}, outcome |-> <<>>,
             git |-> {}, unreferenced |-> {}]

ESInit ==
    /\ strategy \in {"hdd", "ddmin"} /\ cover \in Covers
    /\ facts \in [measured : SUBSET Files, allowed : SUBSET Files]
    /\ phase = "CREATED" /\ raised = FALSE
    /\ tree = "none" /\ live = FALSE /\ residue = FALSE
    /\ late = FALSE /\ used = 0 /\ extra = 0
    /\ completed = {} /\ step = "idle" /\ anchor = "none"
    /\ queue = <<>> /\ seen = {} /\ open = {} /\ unresolved = <<>>
    /\ units = {} /\ why = <<>> /\ ledger = NoLedger

untouched == <<setting, raised, completed, step, anchor, engine, units, why>>

\* SessionPhase: the read-only phases and what follows each
After == [CREATED |-> "REPO_INSPECTED", REPO_INSPECTED |-> "PATCH_INSPECTED",
          PATCH_INSPECTED |-> "UNIVERSE_FROZEN"]

Fails == phase' = "FAILED"

\* inspect_repo, inspect_patch, build_eligible_universe
Inspect ==
    /\ phase \in DOMAIN After
    /\ phase' = After[phase] \/ (phase = "CREATED" /\ Fails)     \* no declared test file
    /\ UNCHANGED <<untouched, tree, live, residue, budget, ledger>>

Universe == NewFiles \cup facts.allowed

\* workspace.prepare: the patch committed on a worktree of its own, or nothing left of it
Prepared == tree' = "clean" /\ live' = TRUE
Discarded == UNCHANGED <<tree, live>>

\* collect_test_scope: the worktree, then the collection of the declared tests
CollectScope ==
    /\ phase = "UNIVERSE_FROZEN"
    /\ \/ Fails /\ Discarded
       \/ Prepared /\ (phase' = "TEST_SCOPE_COLLECTED" \/ Fails)
    /\ UNCHANGED <<untouched, residue, budget, ledger>>

\* run_baseline
RunBaseline ==
    /\ phase = "TEST_SCOPE_COLLECTED"
    /\ \/ Fails /\ UNCHANGED ledger                       \* red, unusable or unmeasured
       \/ /\ phase' = "BASELINE_COMPLETE"
          /\ ledger' = [ledger EXCEPT !.context = [f \in Files |-> LineContext(f)]]
    /\ UNCHANGED <<untouched, tree, live, residue, budget>>

------------------------------------------------------------------------------
(* Trials: a cut, what the declared tests show, and the restore.              *)

CanProbe(spent) == spent < Cap /\ ~late

Ready == phase \in {"BASELINE_COMPLETE", "PROBING"} /\ ~raised

\* TrialRunner._record
Recorded(of, lines, status, vector) ==
    Append(ledger.trials, [of |-> of, lines |-> lines, status |-> status, vector |-> vector])

\* Workspace.restore: the tree is the baseline again, or nobody may rely on it
Restored == tree' = "clean"
RestoreFails == tree' = "dirty" /\ Fails

\* an exception that is no TestRangeError leaves a trial before its restore
TrialRaises ==
    /\ Ready /\ tree = "cut" /\ raised' = TRUE
    /\ used' = IF step = "cut" THEN used + 1 ELSE used
    /\ UNCHANGED <<setting, phase, tree, live, residue, late, extra, completed, step, anchor, engine,
                   units, why, ledger>>

\* a mutant: the failed restore is recorded, and the search goes on
TrialDirtyTolerated ==
    /\ Ready /\ tree = "cut" /\ step = "cut" /\ tree' = "dirty" /\ step' = "next"
    /\ used' = used + 1 /\ queue' = Tail(queue)
    /\ ledger' = [ledger EXCEPT !.trials = Recorded("unit", Span[Head(queue)], "DIRTY", "none")]
    /\ UNCHANGED <<setting, phase, raised, live, residue, late, extra, completed, anchor, seen, open,
                   unresolved, units, why>>

\* the restore after a trial does not give the baseline back: DIRTY, TrialRestoreDirty
TrialDirty ==
    /\ Ready /\ tree = "cut" /\ RestoreFails /\ step' = "idle"
    /\ used' = IF step = "cut" THEN used + 1 ELSE used
    /\ ledger' = [ledger EXCEPT !.trials =
           IF step = "cut" THEN Recorded("unit", Span[Head(queue)], "DIRTY", "none")
                           ELSE Recorded(anchor, LinesOf[anchor], "DIRTY", "none")]
    /\ UNCHANGED <<setting, raised, live, residue, late, extra, completed, anchor, engine, units, why>>

world == <<setting, raised, live, residue, late, extra, completed, anchor>>

------------------------------------------------------------------------------
(* counterfactual_probe: drift.evaluate for a new file, then hdd.run.         *)

\* the entry of hdd.run; a file without a deletable node bails out at once
EntersDeletion(f) ==
    LET skipped == f \notin facts.allowed \/ NotIsolated(f) = {}
        bail == [l \in NotIsolated(f) |-> "no_valid_transform"]
    IN  /\ seen' = {} /\ unresolved' = <<>>
        /\ IF skipped \/ Roots[f] = <<>>
           THEN step' = "done" /\ queue' = <<>> /\ open' = {}
           ELSE step' = "next" /\ queue' = Roots[f] /\ open' = NotIsolated(f)
        /\ why' = IF ~skipped /\ Roots[f] = <<>> THEN Over(bail, why) ELSE why
        /\ IF ~skipped /\ Roots[f] = <<>>
           THEN ledger' = [ledger EXCEPT !.outcome = Over(bail, @)]
           ELSE UNCHANGED ledger

StartProbe(f) ==
    /\ Ready /\ step = "idle" /\ f \in Universe \ completed
    /\ phase' = "PROBING" /\ anchor' = f
    /\ IF f \in NewFiles THEN step' = "drift" /\ UNCHANGED <<engine, why, ledger>>
                         ELSE EntersDeletion(f)
    /\ UNCHANGED <<setting, raised, tree, live, residue, budget, completed, units>>

\* criteria 1 and 3: the file is new to the repository and nothing refers to it
DriftScan ==
    /\ Ready /\ step = "drift"
    /\ \E isNew \in BOOLEAN, free \in BOOLEAN :
          LET scanned == [ledger EXCEPT !.git = IF isNew THEN @ \cup {anchor} ELSE @,
                                        !.unreferenced = IF isNew /\ free THEN @ \cup {anchor} ELSE @]
          IN  /\ ledger' = scanned
              /\ step' = IF isNew /\ free THEN "cutfile" ELSE "undrift"
    /\ UNCHANGED <<world, phase, tree, used, engine, units, why>>

Undrift ==
    /\ Ready /\ step = "undrift" /\ EntersDeletion(anchor)
    /\ UNCHANGED <<world, phase, tree, used, units>>

\* TrialRunner.remove_file
RemoveFile ==
    /\ Ready /\ step = "cutfile" /\ tree' = "cut" /\ step' = "removed"
    /\ UNCHANGED <<world, phase, used, engine, units, why, ledger>>

\* criteria 2, 4 and 5: the collected tests and the vector are those of the baseline
FileRestored(status, vector) ==
    /\ Ready /\ step = "removed" /\ Restored
    /\ (vector = "none") = (status # "COMPLETE")
    /\ ledger' = [ledger EXCEPT !.trials = Recorded(anchor, LinesOf[anchor], status, vector)]
    /\ IF vector = "same"
       THEN step' = "done" /\ units' = units \cup {[verdict |-> "DRIFT", lines |-> LinesOf[anchor]]}
       ELSE step' = "undrift" /\ UNCHANGED units
    /\ UNCHANGED <<world, phase, used, engine, why>>

------------------------------------------------------------------------------
(* hdd.run: coarse nodes first, into a node whose deletion breaks a test.     *)

Node == Head(queue)
Gone(lines) == open \ lines
Explain(lines, reason) == Over([l \in lines \cap open |-> reason], unresolved)

\* the lines a reason is given to are resolved
Resolve(lines, reason) ==
    /\ open' = Gone(lines) /\ unresolved' = Explain(lines, reason)

\* what is left at the end, and the ProbeOutcome record of every reason given
EndsDeletion(records, spent, lines, reason) ==
    LET rest == [l \in Gone(lines) |-> IF CanProbe(spent) THEN "not_isolated" ELSE "budget_exhausted"]
        all  == Over(rest, Explain(lines, reason))
    IN  /\ step' = "done" /\ open' = {} /\ queue' = <<>> /\ unresolved' = <<>> /\ seen' = {}
        /\ why' = Over(all, why)
        /\ ledger' = [records EXCEPT !.outcome = Over(all, @)]

Searching == Ready /\ step = "next" /\ queue # <<>> /\ open # {}
Worthwhile == Span[Node] \cap open # {} /\ Span[Node] \notin seen

SkipNode ==
    /\ Searching /\ ~Worthwhile
    /\ queue' = Tail(queue)
    /\ UNCHANGED <<world, phase, tree, used, step, seen, open, unresolved, units, why, ledger>>

StopDeletion ==
    /\ \/ Ready /\ step = "next" /\ (queue = <<>> \/ open = {})
       \/ Searching /\ Worthwhile /\ ~CanProbe(used + extra)
    /\ EndsDeletion(ledger, used + extra, {}, "none")
    /\ UNCHANGED <<world, phase, tree, used, units>>

MayDelete == Searching /\ Worthwhile /\ CanProbe(used + extra)

\* mutate.InvalidTransform: no run, nothing spent
InvalidNode ==
    /\ MayDelete /\ seen' = seen \cup {Span[Node]} /\ queue' = Kids[Node] \o Tail(queue)
    /\ IF Kids[Node] # <<>> THEN UNCHANGED <<open, unresolved>>
                            ELSE Resolve(Span[Node], "no_valid_transform")
    /\ ledger' = [ledger EXCEPT !.trials = Recorded("unit", Span[Node], "INVALID", "none")]
    /\ UNCHANGED <<world, phase, tree, used, step, units, why>>

\* TrialRunner.delete_lines: the node's lines are blanked in the worktree
DeleteLines ==
    /\ MayDelete /\ tree' = "cut" /\ step' = "cut" /\ seen' = seen \cup {Span[Node]}
    /\ UNCHANGED <<world, phase, used, queue, open, unresolved, units, why, ledger>>

\* the run is observed and the tree restored; a regression is confirmed on it first
LinesRestored(status, vector) ==
    /\ Ready /\ step = "cut" /\ Restored /\ used' = used + 1
    /\ (vector = "none") = (status # "COMPLETE")
    /\ LET recorded == [ledger EXCEPT !.trials = Recorded("unit", Span[Node], status, vector)]
           breaks == vector \in {"weak", "strong"}
           halts  == breaks /\ ~CanProbe(used + 1 + extra)
       IN  CASE halts ->
                  /\ EndsDeletion(recorded, used + 1 + extra, Span[Node], "budget_exhausted")
                  /\ UNCHANGED units
             [] breaks /\ ~halts ->
                  /\ step' = "check" /\ ledger' = recorded
                  /\ UNCHANGED <<queue, seen, open, unresolved, units, why>>
             [] OTHER ->
                  /\ step' = "next" /\ queue' = Tail(queue) /\ ledger' = recorded
                  /\ IF vector = "same"
                     THEN /\ open' = Gone(Span[Node]) /\ UNCHANGED unresolved
                          /\ units' = units \cup {[verdict |-> "INERT", lines |-> Span[Node]]}
                     ELSE /\ Resolve(Span[Node], IF status = "COMPLETE" THEN "not_isolated" ELSE "probe_timeout")
                          /\ UNCHANGED units
                  /\ UNCHANGED <<seen, why>>
    /\ UNCHANGED <<world, phase>>

LastVector == ledger.trials[Len(ledger.trials)].vector

\* claim_builder.required_by_test: the whole chain of evidence, or no claim
ChainComplete(n, rerun) ==
    /\ Kids[n] = <<>> /\ rerun = "same"
    /\ \E t \in Trials : t.of = "unit" /\ t.lines = Span[n] /\ t.status = "COMPLETE" /\ t.vector = "strong"

\* TrialRunner.observe, then the verdict of the node
Confirm(rerun) ==
    /\ Ready /\ step = "check" /\ Restored /\ used' = used + 1
    /\ step' = "next"
    /\ LET n == Node
           again == [ledger EXCEPT !.reruns = Over([m \in {n} |-> rerun], @)]
           drill == rerun = "same" /\ Kids[n] # <<>>
           signs == rerun = "same" /\ Kids[n] = <<>> /\ LastVector = "strong"
       IN  /\ queue' = (IF drill THEN Kids[n] ELSE <<>>) \o Tail(queue)
           /\ CASE drill -> ledger' = again /\ UNCHANGED <<open, unresolved, units>>
                [] signs -> /\ ledger' = [again EXCEPT !.claims = @ \cup {n}]
                            /\ units' = units \cup {[verdict |-> "LOAD_BEARING", lines |-> Span[n]]}
                            /\ open' = Gone(Span[n]) /\ UNCHANGED unresolved
                [] OTHER -> /\ ledger' = again /\ UNCHANGED units
                            /\ Resolve(Span[n], IF rerun = "same" THEN "collateral_breakage"
                                                                  ELSE "flaky_or_dirty_restore")
    /\ UNCHANGED <<world, phase, seen, why>>

\* the restore after the confirming run does not give the baseline back
ConfirmDirty ==
    /\ Ready /\ step = "check" /\ RestoreFails /\ step' = "idle"
    /\ UNCHANGED <<world, used, engine, units, why, ledger>>

------------------------------------------------------------------------------
(* The end of a probe, delta debugging, publication and cleanup.              *)

LoadBearing(f) == \E u \in units : u.verdict = "LOAD_BEARING" /\ u.lines \subseteq LinesOf[f]

\* ddmin.route: an old file with at least two deletable added statements
Applicable(f) ==
    f \notin NewFiles /\ Cardinality({n \in Nodes : Kids[n] = <<>> /\ Span[n] \subseteq LinesOf[f]}) >= 2

EndProbe ==
    /\ Ready /\ step = "done" /\ completed' = completed \cup {anchor}
    /\ step' = IF strategy = "ddmin" /\ LoadBearing(anchor) /\ Applicable(anchor) THEN "minimize" ELSE "idle"
    /\ UNCHANGED <<setting, phase, raised, tree, live, residue, budget, anchor, engine, units, why, ledger>>

\* _minimize: its trials go through the same runner and the same budget, without a collector
Minimize(n) ==
    /\ Ready /\ step = "minimize" /\ step' = "idle" /\ extra' = extra + n
    /\ \/ Restored /\ UNCHANGED phase
       \/ n > 0 /\ RestoreFails
    /\ UNCHANGED <<setting, raised, live, residue, late, used, completed, anchor, engine, units, why, ledger>>

RunLate ==
    /\ Ready /\ ~late /\ late' = TRUE
    /\ UNCHANGED <<setting, phase, raised, tree, live, residue, used, extra, completed, step, anchor,
                   engine, units, why, ledger>>

\* ledger.validate: every claim rests on records that are there, complete and of its own node
LedgerValid ==
    /\ \A i, j \in 1..Len(ledger.trials) : i # j =>
          <<ledger.trials[i].of, ledger.trials[i].lines>> # <<ledger.trials[j].of, ledger.trials[j].lines>>
    /\ \A n \in ledger.claims : n \in DOMAIN ledger.reruns /\ ChainComplete(n, ledger.reruns[n])

\* parity.check_derived
DeriveParity == \A l \in Lines : Derived(l) = Merged(l)

\* finish_run: the last restore, the checks of the ledger, the published bundle
FinishRun ==
    /\ Ready /\ step = "idle"
    /\ \/ Restored /\ phase' = IF LedgerValid /\ DeriveParity THEN "FINISHED" ELSE "FAILED"
       \/ RestoreFails
    /\ UNCHANGED <<setting, raised, live, residue, budget, completed, step, anchor, engine, units, why, ledger>>

\* out of _LIVE, whether the directory goes or stays
Unregistered == live /\ live' = FALSE

\* Workspace.cleanup, and the cleanup_error of one that leaves the directory there
CleanUp ==
    /\ phase \in {"FINISHED", "FAILED"} \/ raised
    /\ tree # "none" /\ Unregistered
    /\ \/ tree' = "none" /\ UNCHANGED residue
       \/ UNCHANGED tree /\ residue' = TRUE
    /\ UNCHANGED <<setting, phase, raised, budget, completed, step, anchor, engine, units, why, ledger>>

ESNext ==
    \/ Inspect \/ CollectScope \/ RunBaseline
    \/ \E f \in Files : StartProbe(f)
    \/ DriftScan \/ Undrift \/ RemoveFile
    \/ \E status \in {"COMPLETE", "ABORTED", "TIMEOUT"}, vector \in {"none", "same", "strong"} :
          FileRestored(status, vector)
    \/ SkipNode \/ StopDeletion \/ InvalidNode \/ DeleteLines
    \/ \E status \in {"COMPLETE", "TIMEOUT"}, vector \in {"none", "same", "shifted", "weak", "strong"} :
          LinesRestored(status, vector)
    \/ \E rerun \in {"same", "changed"} : Confirm(rerun)
    \/ ConfirmDirty \/ TrialDirty \/ TrialRaises
    \/ EndProbe \/ \E n \in 0..MaxMinimize : Minimize(n)
    \/ RunLate \/ FinishRun \/ CleanUp

ESSpec == ESInit /\ [][ESNext]_esvars

------------------------------------------------------------------------------
(* Properties.                                                                *)

\* Every verdict holds in both accounts: whenever the session may publish, what
\* the engines say of every added line is what the ledger's records alone give,
\* and the ledger is sound, so finish_run never turns away its own evidence.
SelfChecksPass == phase = "PROBING" /\ ~raised /\ step = "idle" => LedgerValid /\ DeriveParity

\* "It depends on this line" is signed only for a node nothing finer explains,
\* after the tests that broke were seen whole again on the restored tree, and no
\* line is at once in a unit that was shown to change nothing.
LoadBearingConfirmed ==
    \A n \in ledger.claims :
        /\ n \in DOMAIN ledger.reruns /\ ChainComplete(n, ledger.reruns[n])
        /\ ~\E u \in units : u.verdict = "INERT" /\ Span[n] \cap u.lines # {}

VerdictsSound == SelfChecksPass /\ LoadBearingConfirmed

\* A trial starts from the baseline tree, and only a baseline tree is published:
\* an interrupted or failed restore is never followed by another conclusion.
TrialsStartClean ==
    [][ /\ tree # "cut" /\ tree' = "cut" => tree = "clean"
        /\ phase # "FINISHED" /\ phase' = "FINISHED" => tree' = "clean" /\ ~raised ]_esvars

\* After the cleanup no worktree stays behind without an error that names it.
WorktreeAccounted == tree # "none" => live \/ residue
WorktreeSound == TrialsStartClean /\ []WorktreeAccounted
=============================================================================
