SPECIFICATION EvidenceSpec
CONSTANTS
    Files = {"o", "n"}
    NewFiles = {"n"}
    LinesOf <- MCLinesOf
    Roots <- MCRoots
    Kids <- MCKids
    Span <- MCSpan
    Covers <- MCCovers
    Cap = 5
    MaxMinimize = 2
    Atoms = 4
    Modules = {"a", "b"}
    Names = {"t"}
    Module = "module"
    Suites <- MCSuites
    Defs = {"f", "g"}
    Texts = {"x"}
    MaxLines = 4
    Context = 1
    Window = 5
INVARIANTS
    VerdictsSound
    CertificateExact
    
    MappingHolds

    
CHECK_DEADLOCK FALSE
