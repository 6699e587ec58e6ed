\* A call that found the file locked leaves a store that fails until a restart.
SPECIFICATION FairSpec
CONSTANTS
    Indexers = {i1}
    Servers = {s1, s2}
    Files = {f1, f2, f3, f4, f5}
    None = None
INVARIANTS
    StoreIsConnected
