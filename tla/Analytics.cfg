\* Every index of at most four results or summaries, in any order. The index stops growing.
SPECIFICATION Spec
CONSTANTS
    Runs = {"r1", "r2", "r3"}
    SuiteOf <- MCSuiteOf
    Names = {"a", "b", "c"}
    Frameworks = {"uvm", "cocotb"}
    Sims = {"vcs", "questa"}
    NoSim = NoSim
    Texts = {"x1", "x2", "x3", "x4"}
    SigOf <- MCSigOf
    Kinds = {"functional", "toggle"}
    None = None
    Menus <- MCMenus
    DiffCap = 2
    HistoryLimit = 2
    TrendLimit = 3
    TopLimit = 2
    MaxIndexed = 4
INVARIANTS
    TypeOK
    DiffReconstructs
    FlakyHaveHistory
    DivergentAreCounted
    TriageToolsAgree
    SignOffMeansPassing
    TrendWholeButLast
CHECK_DEADLOCK FALSE
