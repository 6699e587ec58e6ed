------------------------------ MODULE IndexFile ------------------------------
(***************************************************************************)
(* The index file between processes: indexers that replace it              *)
(* (ArtifactIndexer.index_all) and MCP servers that answer from it         *)
(* (get_store). They share nothing but the path, and coordinate through    *)
(* nothing but the lock DuckDB takes on the file it opens: one process at  *)
(* a time, on the file and not on the path. Unlinking a file somebody has  *)
(* open leaves them the file and frees the path.                           *)
(*                                                                         *)
(* A file records how many passes wrote rows to it (two stand for more),   *)
(* whether they reached their end, and which passes were running when it   *)
(* was created and still are. Files nobody can reach are reused.           *)
(***************************************************************************)
EXTENDS Naturals, FiniteSets

CONSTANTS
    Indexers,   \* processes running sentinel_dv.indexing
    Servers,    \* processes running sentinel_dv.server
    Files,      \* files the path can have named
    None        \* no file

Processes == Indexers \cup Servers

ASSUME FilesAssumption ==
    /\ Indexers \cap Servers = {} /\ None \notin Files
    /\ IsFiniteSet(Files) /\ IsFiniteSet(Processes)
    /\ Cardinality(Files) > Cardinality(Processes) + 1

VARIABLES
    path,      \* the file index.path names, or None
    writers,   \* writers[f]: passes that wrote rows to f: 0, 1, or 2 for more
    whole,     \* whole[f]: a pass over f reached its end
    around,    \* around[f]: the indexers whose pass now running began before f was created
    open,      \* open[p]: the file process p has open, or None
    step,      \* step[i]: where indexer i is
    store      \* store[s]: the server's _store: "none", "unconnected" or "connected"

vars == <<path, writers, whole, around, open, step, store>>

Steps == {"idle", "check", "unlink", "connect", "index", "close"}

Init ==
    /\ path = None
    /\ writers = [f \in Files |-> 0] /\ whole = [f \in Files |-> FALSE]
    /\ around = [f \in Files |-> {}]
    /\ open = [p \in Processes |-> None]
    /\ step = [i \in Indexers |-> "idle"]
    /\ store = [s \in Servers |-> "none"]

(***************************************************************************)
(* duckdb.connect: opens the file the path names, or creates one; raises   *)
(* when another process has the file open.                                 *)
(***************************************************************************)
Free == {f \in Files : f # path /\ \A p \in Processes : open[p] # f}
Locked == path # None /\ \E p \in Processes : open[p] = path

OpenPath(p) ==
    IF path = None
    THEN LET f == CHOOSE x \in Free : TRUE IN
            /\ path' = f /\ open' = [open EXCEPT ![p] = f]
            /\ writers' = [writers EXCEPT ![f] = 0] /\ whole' = [whole EXCEPT ![f] = FALSE]
            /\ around' = [around EXCEPT ![f] = {i \in Indexers : step[i] # "idle"}]
    ELSE open' = [open EXCEPT ![p] = path] /\ UNCHANGED <<path, writers, whole, around>>

(***************************************************************************)
(* An indexer.                                                             *)
(***************************************************************************)
Goto(i, st) == step' = [step EXCEPT ![i] = st]
EndPass(i) == Goto(i, "idle") /\ around' = [f \in Files |-> around[f] \ {i}]
At(i, st) == step[i] = st

\* A timer or a person starts a pass; it scans before it touches the path.
Start(i) ==
    /\ At(i, "idle") /\ Goto(i, "check")
    /\ UNCHANGED <<path, writers, whole, around, open, store>>

ExistsKeeps(i) == \* mutant: no unlink
    /\ At(i, "check") /\ Goto(i, "connect")
    /\ UNCHANGED <<path, writers, whole, around, open, store>>

\* if self.db_path.exists(): ...
Exists(i) ==
    /\ At(i, "check")
    /\ Goto(i, IF path = None THEN "connect" ELSE "unlink")
    /\ UNCHANGED <<path, writers, whole, around, open, store>>

\* ... self.db_path.unlink(), whose file may be another one by now, or gone, which raises.
Unlink(i) ==
    /\ At(i, "unlink") /\ path # None
    /\ Goto(i, "connect")
    /\ path' = None
    /\ UNCHANGED <<writers, whole, around, open, store>>

UnlinkRaises(i) ==
    /\ At(i, "unlink") /\ path = None
    /\ EndPass(i)
    /\ UNCHANGED <<path, writers, whole, open, store>>

Connect(i) ==
    /\ At(i, "connect") /\ ~Locked
    /\ OpenPath(i) /\ Goto(i, "index")
    /\ UNCHANGED store

ConnectRaises(i) ==
    /\ At(i, "connect") /\ Locked
    /\ EndPass(i)
    /\ UNCHANGED <<path, writers, whole, open, store>>

\* The rows of the pass, one statement at a time (IndexPass): the first one counts.
Index(i) ==
    /\ At(i, "index") /\ Goto(i, "close")
    /\ writers' = [writers EXCEPT ![open[i]] = IF @ = 0 THEN 1 ELSE 2]
    /\ UNCHANGED <<path, whole, around, open, store>>

Close(i) ==
    /\ At(i, "close") /\ EndPass(i)
    /\ whole' = [whole EXCEPT ![open[i]] = TRUE]
    /\ open' = [open EXCEPT ![i] = None]
    /\ UNCHANGED <<path, writers, store>>

CrashHolds(i) == \* mutant: the file stays open
    /\ ~At(i, "idle") /\ EndPass(i)
    /\ UNCHANGED <<path, writers, whole, open, store>>

\* The process dies, or a file it cannot parse ends its pass.
Crash(i) ==
    /\ ~At(i, "idle") /\ EndPass(i)
    /\ open' = [open EXCEPT ![i] = None]
    /\ UNCHANGED <<path, writers, whole, store>>

(***************************************************************************)
(* A server. _store is assigned before connect is called, so a connect     *)
(* that raises leaves a store that later calls take for connected and fail *)
(* on. Later calls change nothing: they read the file opened then.         *)
(***************************************************************************)
GetStoreShares(s) == \* mutant: opens the file whoever has it
    /\ store[s] = "none"
    /\ OpenPath(s)
    /\ store' = [store EXCEPT ![s] = "connected"]
    /\ UNCHANGED step

GetStore(s) ==
    /\ store[s] = "none" /\ ~Locked
    /\ OpenPath(s)
    /\ store' = [store EXCEPT ![s] = "connected"]
    /\ UNCHANGED step

GetStoreRaises(s) ==
    /\ store[s] = "none" /\ Locked
    /\ store' = [store EXCEPT ![s] = "unconnected"]
    /\ UNCHANGED <<path, writers, whole, around, open, step>>

\* init_server, or the process exits and is started again.
Restart(s) ==
    /\ store[s] # "none"
    /\ store' = [store EXCEPT ![s] = "none"]
    /\ open' = [open EXCEPT ![s] = None]
    /\ UNCHANGED <<path, writers, whole, around, step>>

Pass(i) ==
    Exists(i) \/ Unlink(i) \/ UnlinkRaises(i) \/ Connect(i) \/ ConnectRaises(i) \/ Index(i) \/ Close(i)

Next ==
    \/ \E i \in Indexers : Start(i) \/ Pass(i) \/ Crash(i)
    \/ \E s \in Servers : GetStore(s) \/ GetStoreRaises(s) \/ Restart(s)

Spec == Init /\ [][Next]_vars

\* The timer fires again and again, and a pass that runs is scheduled.
FairSpec == Spec /\ \A i \in Indexers : WF_vars(Start(i)) /\ WF_vars(Pass(i))

(***************************************************************************)
(* Properties.                                                             *)
(***************************************************************************)
\* A process has a file open exactly while it writes rows to it or answers from it.
TypeOK ==
    /\ path \in Files \cup {None}
    /\ writers \in [Files -> 0..2] /\ whole \in [Files -> BOOLEAN]
    /\ around \in [Files -> SUBSET Indexers]
    /\ open \in [Processes -> Files \cup {None}]
    /\ step \in [Indexers -> Steps]
    /\ store \in [Servers -> {"none", "unconnected", "connected"}]
    /\ \A i \in Indexers : open[i] # None <=> step[i] \in {"index", "close"}
    /\ \A s \in Servers : open[s] # None <=> store[s] = "connected"

\* What a server answers from does not move under it: from its first call to its restart
\* the rows of its file are those it found, though the path is replaced meanwhile.
ServedSnapshot ==
    [][\A s \in Servers : store[s] = "connected" /\ store'[s] = "connected" =>
          /\ open'[s] = open[s]
          /\ writers'[open[s]] = writers[open[s]] /\ whole'[open[s]] = whole[open[s]]]_vars

\* The file a pass writes to was created while the pass was running, though it unlinks what
\* it found there earlier, and others create, fill and unlink files meanwhile: passes that do
\* not overlap never mix their rows, wherever they stop. (Passes that overlap can mix them.)
WritesToNewFile ==
    \A i \in Indexers : step[i] \in {"index", "close"} => i \in around[open[i]]

\* Servers and other passes can make a pass fail, but not forever: once processes stop dying,
\* passes complete again and again. (A pass that gives up by itself is not one that dies.)
RebuildsGoOn ==
    /\ <>[][\A i \in Indexers : Crash(i) => Pass(i)]_vars
    /\ <>[][\A s \in Servers : ~Restart(s)]_vars
    => []<><<\E i \in Indexers : Close(i)>>_vars

(***************************************************************************)
(* A claim of a comment that the code does not keep.                       *)
(***************************************************************************)
\* get_store "[returns] the connected index store": a call on a store that exists does not
\* fail.
StoreIsConnected == \A s \in Servers : store[s] # "unconnected"

=============================================================================
