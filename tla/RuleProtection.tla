--------------------------- MODULE RuleProtection ---------------------------
(***************************************************************************)
(* The comparison a candidate has to pass before it may be adopted         *)
(* (rule_protection of modou/candidate_intake.py, on what                  *)
(* modou/source_weakening.py finds in the sources and on two runs of the   *)
(* tests): the candidate may not buy its green run by weakening the tests. *)
(*                                                                         *)
(* A test is its assertions, a skip mark and how many cases it is run for; *)
(* an assertion is "strict", "lax" (the same comparison with a bound that  *)
(* accepts more) or "true" (always true).  Assertions outside of tests are *)
(* those of the name Module.  A test that is not there has no cases, one   *)
(* without parameters has one.  A skip mark may be conditional.  The       *)
(* comparison takes any two suites; its caller, _prepare of                *)
(* modou/server/tasks.py, adds new files and refuses a repair of declared  *)
(* tests before it (tasks.py:927-930).  The declared scope and the run     *)
(* configuration, in which that caller takes nothing away, are left out.   *)
(***************************************************************************)
EXTENDS Integers, Sequences, FiniteSets

CONSTANTS
    Modules,          \* test modules of the repository
    Names,            \* names of tests
    Module,           \* the name of what is outside of tests
    Suites            \* what the test modules may hold

Items == Names \cup {Module}
Test == [asserts : Seq({"strict", "lax", "true"}), skip : BOOLEAN, cases : Nat]

ASSUME SuitesAssumption ==
    \A s \in Suites :
        /\ DOMAIN s = Modules
        /\ \A f \in Modules :
              /\ s[f].parses \in BOOLEAN /\ DOMAIN s[f].tests = Items
              /\ \A n \in Items : s[f].tests[n] \in Test
              /\ \A n \in Items : s[f].tests[n].cases = 0 => s[f].tests[n].asserts = <<>>

VARIABLES
    base,        \* file -> whether it parses, and its tests, before the candidate
    cand,        \* the same with the candidate
    baseRun,     \* the outcome of each test collected before, and whether all were
    candRun,     \* the same with the candidate
    verdict      \* "none", then "clean", "suspect" or "blocked"

rpvars == <<base, cand, baseRun, candRun, verdict>>

Absent == [asserts |-> <<>>, skip |-> FALSE, cases |-> 0]
NoSuite == [f \in Modules |-> [parses |-> TRUE, tests |-> [n \in Items |-> Absent]]]
NoRun == [outcome |-> <<>>, errors |-> TRUE]

RPInit ==
    /\ base = NoSuite /\ cand = NoSuite
    /\ baseRun = NoRun /\ candRun = NoRun /\ verdict = "none"

Has(suite, f, n) == suite[f].tests[n].cases > 0
Asserts(suite, f, n) == suite[f].tests[n].asserts
Skipped(suite, f, n) == suite[f].tests[n].skip

-----------------------------------------------------------------------------
(* pytest, as far as its report tells: a file that does not parse, or      *)
(* whose own assertions fail, is an error; a test has an outcome for each  *)
(* of its cases.                                                           *)

Cases(item) == IF item.cases = 1 THEN {0} ELSE 1..item.cases
Ids(suite, lost) ==
    UNION {{<<f, n, k>> : k \in Cases(suite[f].tests[n])} : f \in Modules \ lost, n \in Names}
MayBeLost(suite, f) == suite[f].tests[Module].asserts # <<>>
Broken(suite) == {f \in Modules : ~suite[f].parses}
Outcomes(suite, id) ==
    IF Skipped(suite, id[1], id[2]) THEN {"pass", "failure", "skipped"} ELSE {"pass", "failure"}

(* parse_junit: no test at all is an error too.                            *)
Run(suite, run) ==
    \E fails \in SUBSET {f \in Modules : MayBeLost(suite, f)} :
        LET lost == fails \cup Broken(suite)  ids == Ids(suite, lost)
        IN  \E outcome \in [ids -> {"pass", "failure", "skipped"}] :
                /\ \A id \in ids : outcome[id] \in Outcomes(suite, id)
                /\ run = [outcome |-> outcome, errors |-> lost # {} \/ ids = {}]

Baseline ==
    /\ verdict = "none" /\ baseRun = NoRun /\ base' \in Suites /\ Run(base', baseRun')
    /\ UNCHANGED <<cand, candRun, verdict>>

-----------------------------------------------------------------------------
(* analyze_source_diff, on the files the candidate changes.                *)

Changed(b, c) == {f \in Modules : b[f] # c[f]}
Readable(b, c) == {f \in Changed(b, c) : b[f].parses /\ c[f].parses}

(* _is_tautology, unless it was one there before.  In TautologyAnew it is   *)
(* enough that the test had one somewhere: this is not the code.           *)
TautologyAnew(b, c, f, n) ==
    /\ Has(c, f, n)
    /\ \E i \in 1..Len(Asserts(c, f, n)) : Asserts(c, f, n)[i] = "true"
    /\ ~\E i \in 1..Len(Asserts(b, f, n)) : Asserts(b, f, n)[i] = "true"
Tautology(b, c, f, n) ==
    /\ Has(c, f, n)
    /\ \E i \in 1..Len(Asserts(c, f, n)) :
          /\ Asserts(c, f, n)[i] = "true"
          /\ ~(Has(b, f, n) /\ i <= Len(Asserts(b, f, n)) /\ Asserts(b, f, n)[i] = "true")
Both(b, c, f, n) == Has(b, f, n) /\ Has(c, f, n)
AssertRemoved(b, c, f, n) ==
    Both(b, c, f, n) /\ Len(Asserts(c, f, n)) < Len(Asserts(b, f, n))
SkipAdded(b, c, f, n) == Both(b, c, f, n) /\ Skipped(c, f, n) /\ ~Skipped(b, f, n)
CasesReduced(b, c, f, n) ==
    LET before == b[f].tests[n].cases  after == c[f].tests[n].cases
    IN  before > 1 /\ after > 1 /\ after < before
Weakened(b, c, f, n) ==
    Tautology(b, c, f, n) \/ AssertRemoved(b, c, f, n) \/ SkipAdded(b, c, f, n)
        \/ CasesReduced(b, c, f, n)

(* A test of this name is in none of the changed files any more.           *)
Vanished(b, c, n) ==
    /\ \E f \in Readable(b, c) : Has(b, f, n)
    /\ \A f \in Readable(b, c) : ~Has(c, f, n)

(* _pair_threshold_findings: assertions at the same position.              *)
Relaxed(b, c, f, n) ==
    /\ Both(b, c, f, n)
    /\ \E i \in 1..Len(Asserts(b, f, n)) :
          i <= Len(Asserts(c, f, n)) /\ Asserts(b, f, n)[i] = "strict" /\ Asserts(c, f, n)[i] = "lax"
NewWithSkip(b, c, f, n) == Has(c, f, n) /\ ~Has(b, f, n) /\ Skipped(c, f, n)

SourceBlocks(b, c) ==
    \/ \E f \in Readable(b, c), n \in Items : Weakened(b, c, f, n)
    \/ \E n \in Names : Vanished(b, c, n)
SourceSuspect(b, c) ==
    \/ Readable(b, c) # Changed(b, c)
    \/ \E f \in Readable(b, c), n \in Items : Relaxed(b, c, f, n) \/ NewWithSkip(b, c, f, n)

-----------------------------------------------------------------------------
(* consume_run_results and rule_protection.                                *)

With(run, status) == {id \in DOMAIN run.outcome : run.outcome[id] = status}
Collected(run) == Cardinality(DOMAIN run.outcome)

RunBlocks(b, c) ==
    \/ With(b, "pass") \ With(c, "pass") # {}
    \/ Cardinality(With(c, "pass")) > Cardinality(With(b, "pass")) /\ Collected(c) < Collected(b)
    \/ With(c, "skipped") \ With(b, "skipped") # {}
    \/ Collected(c) < Collected(b)
    \/ c.errors

Judgement(b, c, t, br, cr) ==
    IF RunBlocks(br, cr) \/ SourceBlocks(b, c) THEN "blocked"
    ELSE IF t \/ SourceSuspect(b, c) THEN "suspect" ELSE "clean"

(* The candidate's run, perhaps with a change of a configuration file of   *)
(* the tests, and what rule_protection says of it.                         *)
Candidate(config) ==
    /\ verdict = "none" /\ baseRun # NoRun
    /\ cand' \in Suites /\ Run(cand', candRun')
    /\ verdict' = Judgement(base, cand', config, baseRun, candRun')
    /\ UNCHANGED <<base, baseRun>>

RPNext == Baseline \/ \E config \in BOOLEAN : Candidate(config)

RPSpec == RPInit /\ [][RPNext]_rpvars

-----------------------------------------------------------------------------
(* What checks something: an assertion that is not always true.            *)
Real(a) == a \in {"strict", "lax"}

(* "A green run must not have weakened the rules" (tasks.py:1042-1044,     *)
(* candidate_intake.py:14-16): with a clean verdict every test that passed *)
(* still passes, in its file and for each of its cases, under no new skip  *)
(* mark, and every assertion that checked something does so at its place,  *)
(* the strict ones still strict.                                           *)
PassedStaysTested ==
    verdict = "clean" =>
        \A id \in With(baseRun, "pass") :
            LET f == id[1]  n == id[2]
            IN  /\ id \in With(candRun, "pass")
                /\ Skipped(cand, f, n) => Skipped(base, f, n)
                /\ \A i \in 1..Len(Asserts(base, f, n)) :
                      Real(Asserts(base, f, n)[i]) =>
                          /\ i <= Len(Asserts(cand, f, n))
                          /\ Real(Asserts(cand, f, n)[i])
                          /\ Asserts(base, f, n)[i] = "strict" => Asserts(cand, f, n)[i] = "strict"
=============================================================================
