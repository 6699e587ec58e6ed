\* One and the same artifact set, rebuilt and cut short anywhere, for 180 mixtures of files.
SPECIFICATION SameArtifactsSpec
CONSTANTS
    None = None
    Paths = {"p1", "p2", "p3", "p4", "p5", "p6", "w1", "w2", "a1", "c1", "c2", "c3", "v1", "v2", "v3"}
    Builds = {"b1"}
    Names <- MCNames
    Seeds = {"s1", "s2", "none"}
    Summaries = {"x", "y"}
    Refs = {"r1", "r2", "r3"}
    Defs = {"d1", "d2"}
    DefName <- MCDefName
    AssertNames = {"a_req", "a_ack"}
    Messages = {"m1", "m2"}
    Rank <- MCRank
    Adapters <- AllAdapters
    Corpora <- Mixtures
INVARIANTS
    FailedRunNeverPasses
    EvidenceIsOfTheRow
    FailedRunExplained
PROPERTIES
    ImplementsIndexBuild
