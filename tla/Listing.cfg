\* Every list tool, over ties, empty columns and oversized rows, with page sizes 1 to 3.
SPECIFICATION Spec
CONSTANTS
    Tables <- MCTables
    Null = Null
    MaxKey = 1
    max_page_size = 2
    max_coverage_gaps = 3
    max_response_bytes = 4
    MetricLimit = 4
    PageBound = 6
CHECK_DEADLOCK FALSE
INVARIANTS
    TypeOK
    CountedWalkExact
    FetchedWalkComplete
    GapsWalkExact
PROPERTIES
    WalkEnds
