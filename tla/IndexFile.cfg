\* Two indexers on timers, a server, every interleaving of their steps, crashes, restarts.
SPECIFICATION FairSpec
CONSTANTS
    Indexers = {i1, i2}
    Servers = {s1}
    Files = {f1, f2, f3, f4, f5}
    None = None
INVARIANTS
    TypeOK
    WritesToNewFile
PROPERTIES
    ServedSnapshot
    RebuildsGoOn
