----------------------------- MODULE DeltaDebug -----------------------------
(***************************************************************************)
(* The delta-debugging pass of modou/ddmin.py as session._minimize runs it *)
(* on the frozen atoms of one anchor: a trial of the full set, minimize    *)
(* (subsets, complements, finer partitions) and the certificate, one trial *)
(* a step.                                                                 *)
(*                                                                         *)
(* A trial answers FAIL when the named regression comes back, PASS when it *)
(* does not, and UNRESOLVED when there is no usable run (a set that does   *)
(* not compile, a timeout, another failure).  Answers are chosen when they *)
(* are first asked for; unless the tests are flaky they then stay.         *)
(*                                                                         *)
(* Atoms are numbered in their frozen order, which chunks and complements  *)
(* keep, so a set of numbers stands for a tuple of atoms.                  *)
(***************************************************************************)
EXTENDS Integers, Sequences, FiniteSets

CONSTANT Atoms    \* how many atoms the anchor has; a route needs two

ASSUME AtomsAssumption == Atoms \in Nat /\ Atoms >= 2

VARIABLES
    flaky,    \* two runs of one set may differ
    oracle,   \* the answers given so far, by set of atoms
    current,  \* the atoms still blamed
    n,        \* granularity
    pc,       \* "probe", "initial", "subset", "complement", "final", "remove", "done" or why it gave up
    index,    \* the chunk, or the atom, the next trial is about
    final,    \* the answer of the trial of the result
    checks,   \* the answers of the one-element-removal checks
    count     \* trials of the search

ddvars == <<flaky, oracle, current, n, pc, index, final, checks, count>>

Frozen == 1..Atoms
Answers == {"PASS", "FAIL", "UNRESOLVED"}

DDInit ==
    /\ flaky \in BOOLEAN /\ oracle = [s \in {{}} |-> "PASS"]
    /\ current = Frozen /\ n = 2 /\ pc = "probe" /\ index = 1
    /\ final = "none" /\ checks = <<>> /\ count = 0

\* the place of an atom in the tuple, and the atom at a place
Place(s, a) == Cardinality({b \in s : b <= a})
Atom(s, i) == CHOOSE a \in s : Place(s, a) = i

\* _partition: min(k, Cardinality(s)) contiguous chunks, the longer ones first
Chunks(s, k) == IF k < Cardinality(s) THEN k ELSE Cardinality(s)
Partition(s, k) ==
    LET width == Cardinality(s) \div Chunks(s, k)
        extra == Cardinality(s) % Chunks(s, k)
        start(j) == (j - 1) * width + (IF j - 1 < extra THEN j - 1 ELSE extra)
    IN  [j \in 1..Chunks(s, k) |-> {a \in s : start(j) < Place(s, a) /\ Place(s, a) <= start(j + 1)}]

\* _complement
Complement(s, chunk) == s \ chunk

\* trial_runner_oracle: the empty intervention is the green baseline
Ask(set, answer) ==
    /\ answer \in IF set = {} \/ (~flaky /\ set \in DOMAIN oracle) THEN {oracle[set]} ELSE Answers
    /\ oracle' = [t \in DOMAIN oracle \cup {set} |-> IF t = set THEN answer ELSE oracle[t]]
    /\ UNCHANGED flaky

\* DirtyRestore ends the pass and the session, whichever trial it follows
DirtyRestore ==
    /\ pc \in {"probe", "initial", "subset", "complement", "final", "remove"}
    /\ pc # "remove" \/ Cardinality(current) > 1      \* the empty set runs nothing
    /\ pc' = "restore_dirty"
    /\ UNCHANGED <<flaky, oracle, current, n, index, final, checks, count>>

\* _minimize: the trial of the full set before minimize is entered
FullSet(answer) ==
    /\ pc = "probe" /\ Ask(current, answer)
    /\ pc' = IF answer = "FAIL" THEN "initial" ELSE "initial_not_fail"
    /\ UNCHANGED <<current, n, index, final, checks, count>>

\* minimize: the frozen set must reproduce the regression
Initial(answer) ==
    /\ pc = "initial" /\ Ask(current, answer)
    /\ pc' = IF answer = "FAIL" THEN "subset" ELSE "not_minimizable"
    /\ UNCHANGED <<current, n, index, final, checks, count>>

\* a smaller set reproduces the regression: start over on it
ReduceTo(s) ==
    /\ current' = s /\ n' = (IF n - 1 > 2 THEN n - 1 ELSE 2) /\ index' = 1
    /\ pc' = IF Cardinality(s) >= 2 THEN "subset" ELSE "final"

Subset(answer) ==
    LET chunks == Partition(current, n) IN
    /\ pc = "subset" /\ Ask(chunks[index], answer) /\ count' = count + 1
    /\ IF answer = "FAIL" THEN ReduceTo(chunks[index])
       ELSE IF index < Chunks(current, n) THEN index' = index + 1 /\ UNCHANGED <<current, n, pc>>
       ELSE index' = 1 /\ pc' = "complement" /\ UNCHANGED <<current, n>>
    /\ UNCHANGED <<final, checks>>

\* a mutant: the partition stops one doubling short of single atoms
RefineCoarsely ==
    /\ index' = 1 /\ UNCHANGED current
    /\ IF 2 * n >= Cardinality(current) THEN pc' = "final" /\ UNCHANGED n
       ELSE pc' = "subset" /\ n' = 2 * n

\* the end of a round that reduced nothing: finer chunks, or the certificate
Refine ==
    /\ index' = 1 /\ UNCHANGED current
    /\ IF n >= Cardinality(current) THEN pc' = "final" /\ UNCHANGED n
       ELSE pc' = "subset" /\ n' = Chunks(current, 2 * n)

Complements(answer) ==
    LET chunks == Partition(current, n)
        rest   == Complement(current, chunks[index])
    IN  /\ pc = "complement" /\ Ask(rest, answer) /\ count' = count + 1
        /\ IF answer = "FAIL" THEN ReduceTo(rest)
           ELSE IF index < Chunks(current, n) THEN index' = index + 1 /\ UNCHANGED <<current, n, pc>>
           ELSE Refine
        /\ UNCHANGED <<final, checks>>

CertifyFinal(answer) ==
    /\ pc = "final" /\ Ask(current, answer)
    /\ final' = answer /\ pc' = "remove" /\ index' = 1
    /\ UNCHANGED <<current, n, checks, count>>

CertifyRemoval(answer) ==
    /\ pc = "remove" /\ Ask(Complement(current, {Atom(current, index)}), answer)
    /\ checks' = Append(checks, answer)
    /\ IF index < Cardinality(current) THEN index' = index + 1 /\ UNCHANGED pc
                               ELSE pc' = "done" /\ UNCHANGED index
    /\ UNCHANGED <<current, n, final, count>>

\* the flag of the certificate: UNRESOLVED is absence of proof
OneMinimal == final = "FAIL" /\ \A i \in DOMAIN checks : checks[i] = "PASS"

\* certificate_problems, as a reader who does not trust the flag finds them
CertificateProblems ==
    {p \in {"minimal", "final", "removals", "not_pass"} :
        CASE p = "minimal"  -> current = {} \/ ~(current \subseteq Frozen)
          [] p = "final"    -> final # "FAIL"
          [] p = "removals" -> Len(checks) # Cardinality(current)
          [] p = "not_pass" -> \E i \in DOMAIN checks : checks[i] # "PASS"}

DDNext ==
    \/ \E answer \in Answers :
          \/ FullSet(answer) \/ Initial(answer) \/ Subset(answer) \/ Complements(answer)
          \/ CertifyFinal(answer) \/ CertifyRemoval(answer)
    \/ DirtyRestore

DDSpec == DDInit /\ [][DDNext]_ddvars

------------------------------------------------------------------------------
(* Properties.                                                                *)

Steady == ~flaky
Resolved == \A s \in DOMAIN oracle : oracle[s] # "UNRESOLVED"

\* The certificate's flag is what its evidence shows; and when the tests answer
\* alike each time, the flagged set does fail and stops failing when any one atom
\* is left out, and a search in which no trial was unresolved ends with the flag:
\* it goes down to single atoms.
CertificateExact == pc = "done" =>
    /\ OneMinimal <=> CertificateProblems = {}
    /\ OneMinimal /\ Steady =>
          /\ oracle[current] = "FAIL"
          /\ \A a \in current : oracle[current \ {a}] = "PASS"
    /\ Steady /\ Resolved => OneMinimal
=============================================================================
