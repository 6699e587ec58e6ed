\* A reference harness, a harness that rewrites in place, a clock and a server that polls.
SPECIFICATION Spec
CONSTANTS
    Search <- MCSearch
    Matching <- MCMatching
    InPlace = {"sim"}
    TestsTotal = 1
    MaxAge = 1
    None = None
    MaxTime = 2
INVARIANTS
    TypeOK
    NewestAnswered
PROPERTIES
    FoundIfSteady
    DeadIsStale
