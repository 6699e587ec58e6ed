\* A pass ends: it stops there.
CHECK_DEADLOCK FALSE
SPECIFICATION Spec
CONSTANTS
    None = None
    NoPhase = NoPhase
    NoLink = NoLink
    NoIndex = NoIndex
    AnyRun = AnyRun
    AnyName = AnyName
    AnyProtocol = AnyProtocol
    MaxTags = 3
    MaxRefs = 1
    MaxMetrics = 2
    MaxGaps = 3
    TestNames <- MCTestNames
    Components <- MCComponents
    ReportTags <- MCTags
    Texts <- MCTexts
    WordCues <- MCCues
    WordProtocols <- MCProtocols
    WordVendors <- MCVendors
    WordPhases <- MCPhases
    ComponentRoles <- MCRoles
    Glob <- MCGlob
    KindNames <- MCKindNames
    Scopes <- MCScopes
    Urgent <- MCUrgent
    Ordinary <- MCOrdinary
    RulesFor <- MCRulesFor
    Works <- MCWorks
INVARIANTS
    TypeOK
    StatusAgreesWithFailures
    EachReportOnce
    
    FoundUnlessIndexedForAnother
    MetricsAreRead
    WorstIsAdvised
