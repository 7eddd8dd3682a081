----------------------------- MODULE MCEvidence -----------------------------
(* Four parts that judge code, one at a time: the probing session and its  *)
(* ledger, delta debugging, the comparison that protects the tests, and    *)
(* the mapping of targets to a later source.                               *)
EXTENDS EvidenceSession, DeltaDebug, RuleProtection, Targets, TLC

VARIABLE part   \* the part that moves

EvidenceInit ==
    /\ part \in {"session", "ddmin", "rules", "mapping"}
    /\ ESInit /\ DDInit /\ RPInit /\ M!Init
    /\ part # "session" => strategy = "hdd" /\ facts.measured = {} /\ facts.allowed = {}
                              /\ cover = <<"run", "run", "run", "run">>
    /\ part # "ddmin" => ~flaky

EvidenceNext ==
    /\ UNCHANGED part
    /\ \/ part = "session" /\ ESNext /\ UNCHANGED <<ddvars, rpvars, mappingVars>>
       \/ part = "ddmin" /\ DDNext /\ UNCHANGED <<esvars, rpvars, mappingVars>>
       \/ part = "rules" /\ RPNext /\ UNCHANGED <<esvars, ddvars, mappingVars>>
       \/ part = "mapping" /\ M!Next /\ UNCHANGED <<esvars, ddvars, rpvars>>

EvidenceSpec == EvidenceInit /\ [][EvidenceNext]_<<part, esvars, ddvars, rpvars, mappingVars>>

(* A patch that adds three lines to o, a statement of which two smaller    *)
(* ones and one inside the second can be deleted, and creates n with one   *)
(* line.                                                                   *)
MCLinesOf == [f \in {"o", "n"} |-> IF f = "o" THEN {1, 2, 3} ELSE {4}]
MCRoots == [f \in {"o", "n"} |-> IF f = "o" THEN <<"P">> ELSE <<"N">>]
MCSpan == [P |-> {1, 2, 3}, A |-> {2}, B |-> {3}, C |-> {3}, N |-> {4}]
MCKids == [P |-> <<"A", "B">>, A |-> <<>>, B |-> <<"C">>, C |-> <<>>, N |-> <<>>]
MCCovers == {<<first, second, third, "run">> :
                first \in {"text", "run"}, second \in {"run", "plain"}, third \in {"run", "unrun"}}

(* A test module with any test and assertions outside of it, and another   *)
(* the test may be moved to.                                               *)
MCTest(asserts, skip, cases) == [asserts |-> asserts, skip |-> skip, cases |-> cases]
MCPlain(asserts) == MCTest(asserts, FALSE, 1)
MCModule(test, outside) ==
    [parses |-> TRUE, tests |-> [i \in Items |-> IF i = Module THEN outside ELSE test]]
MCBroken == [parses |-> FALSE, tests |-> [i \in Items |-> Absent]]
MCTests ==
    {Absent, MCTest(<<"strict">>, TRUE, 1), MCTest(<<"strict">>, FALSE, 2), MCTest(<<"strict">>, FALSE, 3)}
    \cup {MCPlain(a) : a \in {<<"strict">>, <<"lax">>, <<"true">>, <<"strict", "true">>,
                              <<"true", "strict">>, <<"true", "true">>}}
MCSuites ==
    {("a" :> a) @@ ("b" :> b) :
        a \in {MCBroken} \cup
              {MCModule(t, outside) : t \in MCTests, outside \in {Absent, MCPlain(<<"strict">>)}},
        b \in {MCModule(t, Absent) : t \in {Absent, MCPlain(<<"strict">>), MCPlain(<<"true">>)}}}
=============================================================================
