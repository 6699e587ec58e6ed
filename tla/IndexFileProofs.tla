--------------------------- MODULE IndexFileProofs ---------------------------
(***************************************************************************)
(* Theorems of IndexFile, for any number of indexers, servers and files:   *)
(* who may have a file open, and which file a pass writes to.              *)
(*                                                                         *)
(* A pass that is past its unlink can find a file at the path only when    *)
(* another process put it there meanwhile (PathIsNew): that is why the     *)
(* file it opens is never one of an earlier pass.                          *)
(***************************************************************************)
EXTENDS IndexFile, FiniteSetTheorems, TLAPS

\* DuckDB's lock: a file is open in one process at most.
OpenOnce ==
    \A p, q \in Processes : open[p] # None /\ open[p] = open[q] => p = q

PathIsNew ==
    \A i \in Indexers : step[i] = "connect" /\ path # None => i \in around[path]

IInv == TypeOK /\ OpenOnce /\ PathIsNew /\ WritesToNewFile

(***************************************************************************)
(* There is always a file to create, so OpenPath always opens one.         *)
(***************************************************************************)
LEMMA FreeExists ==
    ASSUME TypeOK
    PROVE  \E f \in Files : f \in Free
<1> DEFINE Opened == {open[p] : p \in Processes}
           Used == Opened \cup {path}
<1>1. open \in Surjection(Processes, Opened)
  BY DEF TypeOK, Surjection
<1>2. IsFiniteSet(Opened) /\ Cardinality(Opened) <= Cardinality(Processes)
  BY <1>1, FilesAssumption, FS_Surjection
<1>3. IsFiniteSet(Used) /\ Cardinality(Used) <= Cardinality(Opened) + 1
  <2>1. /\ IsFiniteSet(Opened \cup {path})
        /\ Cardinality(Opened \cup {path}) =
              IF path \in Opened THEN Cardinality(Opened) ELSE Cardinality(Opened) + 1
    BY <1>2, FS_AddElement
  <2>2. Cardinality(Opened) \in Nat
    BY <1>2, FS_CardinalityType
  <2> QED BY <2>1, <2>2
<1>4. SUFFICES ASSUME Files \subseteq Used
               PROVE  FALSE
  BY <1>4 DEF Free
<1>5. Cardinality(Files) <= Cardinality(Used)
  BY <1>3, <1>4, FS_Subset
<1>6. /\ Cardinality(Files) \in Nat /\ Cardinality(Used) \in Nat
      /\ Cardinality(Opened) \in Nat /\ Cardinality(Processes) \in Nat
  BY <1>2, <1>3, FilesAssumption, FS_CardinalityType
<1> QED BY <1>2, <1>3, <1>5, <1>6, FilesAssumption

\* What OpenPath does: the file is the one at the path, or one nobody had, now at the path,
\* created while whoever was running was running.
LEMMA OpenPathFacts ==
    ASSUME TypeOK, NEW p \in Processes, OpenPath(p), ~Locked
    PROVE  \E f \in Files :
              /\ \A q \in Processes : open[q] # f
              /\ path' = f /\ open' = [open EXCEPT ![p] = f]
              /\ \/ path = f /\ UNCHANGED <<writers, whole, around>>
                 \/ /\ path = None
                    /\ writers' = [writers EXCEPT ![f] = 0]
                    /\ whole' = [whole EXCEPT ![f] = FALSE]
                    /\ around' = [around EXCEPT ![f] = {i \in Indexers : step[i] # "idle"}]
<1>1. CASE path = None
  <2> DEFINE f == CHOOSE x \in Free : TRUE
  <2>1. f \in Free
    BY FreeExists
  <2>2. f \in Files /\ \A q \in Processes : open[q] # f
    BY <2>1 DEF Free
  <2> QED BY <1>1, <2>2 DEF OpenPath
<1>2. CASE path # None
  BY <1>2 DEF OpenPath, Locked, TypeOK
<1> QED BY <1>1, <1>2

(***************************************************************************)
(* The invariant.                                                          *)
(***************************************************************************)
LEMMA InitInv == Init => IInv
  BY DEF Init, IInv, TypeOK, OpenOnce, PathIsNew, WritesToNewFile, Steps, Processes

LEMMA IndexerSteps ==
    ASSUME IInv, NEW i \in Indexers, Start(i) \/ Pass(i) \/ Crash(i)
    PROVE  IInv'
<1> USE FilesAssumption DEF IInv, TypeOK, Steps, Processes
<1> /\ i \in Processes /\ i \notin Servers
  OBVIOUS
<1>1. CASE Start(i) \/ Exists(i)
  BY <1>1 DEF Start, Exists, Goto, At, OpenOnce, PathIsNew, WritesToNewFile
<1>2. CASE Unlink(i)
  BY <1>2 DEF Unlink, Goto, At, OpenOnce, PathIsNew, WritesToNewFile
<1>3. CASE UnlinkRaises(i) \/ ConnectRaises(i)
  BY <1>3 DEF UnlinkRaises, ConnectRaises, EndPass, Goto, At, OpenOnce, PathIsNew, WritesToNewFile
<1>4. CASE Connect(i)
  <2>1. PICK f \in Files :
              /\ \A q \in Processes : open[q] # f
              /\ path' = f /\ open' = [open EXCEPT ![i] = f]
              /\ \/ path = f /\ UNCHANGED <<writers, whole, around>>
                 \/ /\ path = None
                    /\ writers' = [writers EXCEPT ![f] = 0]
                    /\ whole' = [whole EXCEPT ![f] = FALSE]
                    /\ around' = [around EXCEPT ![f] = {j \in Indexers : step[j] # "idle"}]
    BY <1>4, OpenPathFacts DEF Connect
  <2>2. step[i] = "connect" /\ step' = [step EXCEPT ![i] = "index"] /\ UNCHANGED store
    BY <1>4 DEF Connect, Goto, At
  <2>3. TypeOK'
    <3>1. path' \in Files \cup {None} /\ open' \in [Processes -> Files \cup {None}]
      BY <2>1
    <3>2. writers' \in [Files -> 0..2] /\ whole' \in [Files -> BOOLEAN]
      <4>1. writers' \in [Files -> 0..2]
        <5>1. 0 \in 0..2 /\ writers \in [Files -> 0..2]
          OBVIOUS
        <5> QED BY <2>1, <5>1
      <4>2. whole' \in [Files -> BOOLEAN]
        <5>1. whole \in [Files -> BOOLEAN]
          OBVIOUS
        <5>2. [whole EXCEPT ![f] = FALSE] \in [Files -> BOOLEAN]
          BY <5>1, Zenon
        <5> QED BY <2>1, <5>1, <5>2
      <4> QED BY <4>1, <4>2
    <3>3. around' \in [Files -> SUBSET Indexers]
      <4>1. {j \in Indexers : step[j] # "idle"} \in SUBSET Indexers
        OBVIOUS
      <4> QED BY <2>1, <4>1
    <3> QED BY <2>1, <2>2, <3>1, <3>2, <3>3
  <2>4. OpenOnce'
    BY <2>1, <2>2 DEF OpenOnce
  <2>5. PathIsNew' /\ WritesToNewFile'
    <3>1. i \in around'[f]
      BY <2>1, <2>2 DEF PathIsNew
    <3>2. ASSUME NEW j \in Indexers, j # i
          PROVE  /\ step'[j] = "connect" => j \in around'[f]
                 /\ step'[j] \in {"index", "close"} => j \in around'[open'[j]]
      <4>1. step'[j] = step[j] /\ open'[j] = open[j] /\ open[j] # f
        BY <2>1, <2>2, <3>2
      <4>2. step[j] = "connect" => j \in around'[f]
        BY <2>1 DEF PathIsNew
      <4>3. step[j] \in {"index", "close"} => j \in around'[open[j]]
        BY <2>1, <4>1 DEF WritesToNewFile
      <4> QED BY <4>1, <4>2, <4>3
    <3> QED BY <2>1, <2>2, <3>1, <3>2 DEF PathIsNew, WritesToNewFile
  <2> QED BY <2>3, <2>4, <2>5
<1>5. CASE Index(i)
  BY <1>5 DEF Index, Goto, At, OpenOnce, PathIsNew, WritesToNewFile
<1>6. CASE Close(i)
  BY <1>6 DEF Close, EndPass, Goto, At, OpenOnce, PathIsNew, WritesToNewFile
<1>7. CASE Crash(i)
  BY <1>7 DEF Crash, EndPass, Goto, At, OpenOnce, PathIsNew, WritesToNewFile
<1> QED BY <1>1, <1>2, <1>3, <1>4, <1>5, <1>6, <1>7 DEF Pass

LEMMA ServerSteps ==
    ASSUME IInv, NEW s \in Servers, GetStore(s) \/ GetStoreRaises(s) \/ Restart(s)
    PROVE  IInv'
<1> USE FilesAssumption DEF IInv, TypeOK, Steps, Processes
<1> /\ s \in Processes /\ s \notin Indexers
  OBVIOUS
<1>1. CASE GetStore(s)
  <2>1. PICK f \in Files :
              /\ \A q \in Processes : open[q] # f
              /\ path' = f /\ open' = [open EXCEPT ![s] = f]
              /\ \/ path = f /\ UNCHANGED <<writers, whole, around>>
                 \/ /\ path = None
                    /\ writers' = [writers EXCEPT ![f] = 0]
                    /\ whole' = [whole EXCEPT ![f] = FALSE]
                    /\ around' = [around EXCEPT ![f] = {j \in Indexers : step[j] # "idle"}]
    BY <1>1, OpenPathFacts DEF GetStore
  <2>2. store' = [store EXCEPT ![s] = "connected"] /\ UNCHANGED step
    BY <1>1 DEF GetStore
  <2>3. TypeOK'
    <3>1. path' \in Files \cup {None} /\ open' \in [Processes -> Files \cup {None}]
      BY <2>1
    <3>2. writers' \in [Files -> 0..2] /\ whole' \in [Files -> BOOLEAN]
      <4>1. writers' \in [Files -> 0..2]
        <5>1. 0 \in 0..2 /\ writers \in [Files -> 0..2]
          OBVIOUS
        <5> QED BY <2>1, <5>1
      <4>2. whole' \in [Files -> BOOLEAN]
        <5>1. whole \in [Files -> BOOLEAN]
          OBVIOUS
        <5>2. [whole EXCEPT ![f] = FALSE] \in [Files -> BOOLEAN]
          BY <5>1, Zenon
        <5> QED BY <2>1, <5>1, <5>2
      <4> QED BY <4>1, <4>2
    <3>3. around' \in [Files -> SUBSET Indexers]
      <4>1. {j \in Indexers : step[j] # "idle"} \in SUBSET Indexers
        OBVIOUS
      <4> QED BY <2>1, <4>1
    <3> QED BY <2>1, <2>2, <3>1, <3>2, <3>3
  <2>4. OpenOnce'
    BY <2>1, <2>2 DEF OpenOnce
  <2>5. PathIsNew'
    BY <2>1, <2>2 DEF PathIsNew
  <2>6. WritesToNewFile'
    BY <2>1, <2>2 DEF WritesToNewFile
  <2> QED BY <2>3, <2>4, <2>5, <2>6
<1>2. CASE GetStoreRaises(s)
  BY <1>2 DEF GetStoreRaises, OpenOnce, PathIsNew, WritesToNewFile
<1>3. CASE Restart(s)
  BY <1>3 DEF Restart, OpenOnce, PathIsNew, WritesToNewFile
<1> QED BY <1>1, <1>2, <1>3

LEMMA StepInv == IInv /\ [Next]_vars => IInv'
<1> SUFFICES ASSUME IInv, [Next]_vars
             PROVE  IInv'
  OBVIOUS
<1>1. CASE UNCHANGED vars
  BY <1>1 DEF vars, IInv, TypeOK, OpenOnce, PathIsNew, WritesToNewFile, Processes
<1>2. CASE Next
  BY <1>2, IndexerSteps, ServerSteps DEF Next
<1> QED BY <1>1, <1>2

THEOREM Invariant == Spec => []IInv
  BY InitInv, StepInv, PTL DEF Spec

(***************************************************************************)
(* The theorems.                                                           *)
(***************************************************************************)
\* A process has a file open exactly while it writes rows to it or answers from it.
THEOREM TypeCorrect == Spec => []TypeOK
<1>1. IInv => TypeOK
  BY DEF IInv
<1> QED BY Invariant, <1>1, PTL

\* A pass writes to a file created while it was running, however many passes and servers
\* share the path.
THEOREM PassesWriteToNewFiles == Spec => []WritesToNewFile
<1>1. IInv => WritesToNewFile
  BY DEF IInv
<1> QED BY Invariant, <1>1, PTL

\* What a server answers from does not move under it until it restarts.
THEOREM ServedStays == Spec => ServedSnapshot
<1> DEFINE Stays == \A s \in Servers : store[s] = "connected" /\ store'[s] = "connected" =>
                       /\ open'[s] = open[s]
                       /\ writers'[open[s]] = writers[open[s]] /\ whole'[open[s]] = whole[open[s]]
<1>1. IInv /\ [Next]_vars => [Stays]_vars
  <2> SUFFICES ASSUME IInv, Next, NEW s \in Servers,
                      store[s] = "connected", store'[s] = "connected"
               PROVE  /\ open'[s] = open[s]
                      /\ writers'[open[s]] = writers[open[s]] /\ whole'[open[s]] = whole[open[s]]
    BY DEF vars
  <2> USE FilesAssumption DEF IInv, TypeOK, Processes
  <2>1. s \in Processes /\ s \notin Indexers /\ open[s] \in Files
    OBVIOUS
  <2>2. ASSUME NEW p \in Processes, p # s, OpenPath(p), ~Locked
        PROVE  /\ open'[s] = open[s]
               /\ writers'[open[s]] = writers[open[s]] /\ whole'[open[s]] = whole[open[s]]
    BY <2>1, <2>2, OpenPathFacts
  <2>3. CASE \E i \in Indexers : Start(i) \/ Pass(i) \/ Crash(i)
    <3>1. PICK i \in Indexers : Start(i) \/ Pass(i) \/ Crash(i)
      BY <2>3
    <3>2. i \in Processes /\ i # s
      BY <2>1
    <3>3. step[i] \in {"index", "close"} => open[i] \in Files /\ open[i] # open[s]
      BY <2>1, <3>2 DEF OpenOnce
    <3>4. CASE Connect(i)
      BY <2>2, <3>2, <3>4 DEF Connect
    <3>5. CASE Index(i) \/ Close(i)
      BY <2>1, <3>2, <3>3, <3>5 DEF Index, Close, At
    <3>6. CASE Start(i) \/ Exists(i) \/ Unlink(i) \/ UnlinkRaises(i) \/ ConnectRaises(i) \/ Crash(i)
      BY <2>1, <3>2, <3>6 DEF Start, Exists, Unlink, UnlinkRaises, ConnectRaises, Crash
    <3> QED BY <3>1, <3>4, <3>5, <3>6 DEF Pass
  <2>4. CASE \E t \in Servers : GetStore(t) \/ GetStoreRaises(t) \/ Restart(t)
    <3>1. PICK t \in Servers : GetStore(t) \/ GetStoreRaises(t) \/ Restart(t)
      BY <2>4
    <3>2. (t # s /\ t \in Processes) \/ GetStoreRaises(t)
      BY <3>1 DEF GetStore, Restart
    <3>3. CASE GetStore(t)
      BY <2>2, <3>2, <3>3 DEF GetStore, GetStoreRaises
    <3>4. CASE GetStoreRaises(t) \/ Restart(t)
      BY <2>1, <3>2, <3>4 DEF GetStoreRaises, Restart
    <3> QED BY <3>1, <3>3, <3>4
  <2> QED BY <2>3, <2>4 DEF Next
<1>2. [][Stays]_vars => ServedSnapshot
  BY PTL DEF ServedSnapshot
<1> QED BY Invariant, <1>1, <1>2, PTL DEF Spec
=============================================================================
