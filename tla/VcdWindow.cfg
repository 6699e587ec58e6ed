\* Every trace of at most four changes at times 0 to 3. A trace ends.
SPECIFICATION Spec
CONSTANTS
    Ids = {"i1", "i2"}
    Names = {"clk", "d"}
    Values = {"0", "1"}
    None = None
    Missing = Missing
    Declarations <- MCDeclarations
    Windows <- MCWindows
    MaxTime = 3
    MaxChanges = 4
INVARIANTS
    TypeOK
    TogglesExact
    EdgesExact
CHECK_DEADLOCK FALSE
