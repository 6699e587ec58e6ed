-------------------------- MODULE LiveStatusProofs --------------------------
(***************************************************************************)
(* Theorems of LiveStatus, for any status files, suites, limits and clock. *)
(*                                                                         *)
(* A call looks at its candidates one after the other. What it knows of    *)
(* those it has passed is true as long as nothing changes (Scanned), and   *)
(* that one is there as long as none goes (Found); a file is never newer   *)
(* than the harness that left it (LeftBehind).                             *)
(***************************************************************************)
EXTENDS LiveStatus, TLAPS

\* The program counter agrees with what the call is about.
CallOK ==
    /\ DOMAIN file = Paths
    /\ pc = "stat" => suite # None
    /\ pc = "idle" => next = 1 /\ best = None
    /\ best # None => best.path \in Paths
    /\ \A p \in Paths : harness[p] = "writing" => p \in InPlace

Current == best # None => file[best.path] # None /\ file[best.path].mtime = best.mtime

\* No candidate that was looked at is newer than the best, if no file has changed.
Scanned ==
    (pc # "idle" /\ quiet /\ suite # None) =>
        /\ Current
        /\ \A n \in DOMAIN Search :
              /\ pc = "stat" => n < next
              /\ Search[n] \in Matching[suite]
              /\ file[Search[n]] # None
              => best # None /\ file[Search[n]].mtime <= best.mtime
        /\ pc = "age" => text = file[best.path].done

\* While the files that are there stay, the best is one of them, or one is ahead.
Found ==
    (pc # "idle" /\ steady) =>
        /\ \A p \in Asked : file[p] # None => Whole(p)
        /\ best # None => file[best.path] # None
        /\ pc = "stat" /\ best = None =>
              \E n \in DOMAIN Search : /\ n >= next /\ Search[n] \in Matching[suite]
                                       /\ file[Search[n]] # None

\* A harness that stopped has written nothing since.
LeftBehind ==
    \A p \in Paths : harness[p] = "off" /\ file[p] # None => file[p].mtime <= deadAt[p]

IInv == TypeOK /\ CallOK /\ Scanned /\ Found /\ LeftBehind

LEMMA InitInv == Init => IInv
<1> SUFFICES ASSUME Init PROVE IInv
  OBVIOUS
<1> USE SearchAssumption DEF Init
<1>1. TypeOK
  <2>1. 0 \in 0..MaxTime /\ 0 \in 0..(TestsTotal + 1) /\ 1 \in 1..(Len(Search) + 1)
    OBVIOUS
  <2>2. enabled \in BOOLEAN /\ quiet \in BOOLEAN /\ steady \in BOOLEAN
    OBVIOUS
  <2>3. /\ harness \in [Paths -> {"off", "simulating", "writing"}]
        /\ draft \in [Paths -> 0..(TestsTotal + 1)] /\ deadAt \in [Paths -> 0..now]
    BY <2>1
  <2>4. /\ pc \in {"idle", "stat", "read", "age"} /\ suite \in Suites \cup {None}
        /\ now \in 0..MaxTime /\ next \in 1..(Len(Search) + 1)
        /\ text \in 0..(TestsTotal + 1) \cup {None} /\ (text # None <=> pc = "age")
        /\ pc \notin {"read", "age"}
    BY <2>1
  <2> QED BY <2>2, <2>3, <2>4 DEF TypeOK
<1>2. CallOK
  BY DEF CallOK
<1>3. Scanned /\ Found
  BY DEF Scanned, Found
<1>4. LeftBehind
  BY DEF LeftBehind
<1> QED BY <1>1, <1>2, <1>3, <1>4 DEF IInv

LEMMA CallFacts ==
    ASSUME IInv
    PROVE  /\ pc # "idle" => Asked \subseteq Paths
           /\ \A n \in DOMAIN Search : Search[n] \in Paths
           /\ \A s \in Suites : Matching[s] \subseteq Paths
<1>1. \A s \in Suites : Matching[s] \subseteq Paths
  BY SearchAssumption
<1>2. pc # "idle" /\ suite = None => best # None
  BY DEF IInv, TypeOK, CallOK
<1>3. pc # "idle" => Asked \subseteq Paths
  BY <1>1, <1>2 DEF IInv, TypeOK, CallOK, Asked
<1> QED BY <1>1, <1>3 DEF Paths

(***************************************************************************)
(* Harnesses and the clock. Whatever changes a file ends `quiet`, and what *)
(* removes or truncates a file of the call ends `steady`.                  *)
(***************************************************************************)
LEMMA UpdateInv ==
    ASSUME IInv, NEW p \in Paths, Update(p)
    PROVE  IInv'
<1> USE SearchAssumption, NoneAssumption DEF IInv, Update
<1>1. PICK d \in draft[p]..(TestsTotal + 1) : draft' = [draft EXCEPT ![p] = d]
  BY DEF Count
<1>2. /\ d \in 0..(TestsTotal + 1) /\ draft'[p] = d
      /\ file' = [file EXCEPT ![p] = [done |-> d, mtime |-> now]]
  BY <1>1 DEF TypeOK
<1>3. /\ \A q \in Paths : q # p => file'[q] = file[q]
      /\ file'[p] = [done |-> d, mtime |-> now] /\ DOMAIN file' = Paths
  BY <1>2 DEF CallOK
<1>4. TypeOK'
  <2>1. now \in Nat /\ now \in 0..now /\ now \in 0..MaxTime
    BY DEF TypeOK
  <2>2. \A q \in Paths : file'[q] # None =>
           file'[q].done \in 0..(TestsTotal + 1) \cup {None} /\ file'[q].mtime \in 0..now'
    BY <1>2, <1>3, <2>1 DEF TypeOK
  <2>3. harness' \in [Paths -> {"off", "simulating", "writing"}]
    BY DEF TypeOK
  <2>4. draft' \in [Paths -> 0..(TestsTotal + 1)]
    BY <1>1, <1>2 DEF TypeOK
  <2>5. quiet' \in BOOLEAN
    BY DEF Touched
  <2>6. Asked' = Asked
    BY DEF Asked, call
  <2> QED BY <2>2, <2>3, <2>4, <2>5, <2>6 DEF TypeOK, call
<1>5. CallOK'
  BY <1>3 DEF CallOK, TypeOK, call
<1>6. Scanned'
  BY DEF Scanned, Touched, call
<1>7. Found'
  <2>1. file'[p] # None /\ Whole(p)' /\ \A q \in Paths : Whole(q) /\ q # p => Whole(q)'
    BY <1>2, <1>3 DEF TypeOK, Whole
  <2>2. UNCHANGED <<pc, suite, best, next, steady>> /\ Asked' = Asked
    BY DEF Asked, call
  <2> QED BY <1>3, <2>1, <2>2, CallFacts DEF Found, CallOK
<1>8. LeftBehind'
  BY <1>3 DEF LeftBehind, TypeOK
<1> QED BY <1>4, <1>5, <1>6, <1>7, <1>8

LEMMA TruncateInv ==
    ASSUME IInv, NEW p \in Paths, Truncate(p)
    PROVE  IInv'
<1> USE SearchAssumption, NoneAssumption DEF IInv, Truncate
<1>1. PICK d \in draft[p]..(TestsTotal + 1) : draft' = [draft EXCEPT ![p] = d]
  BY DEF Count
<1>2. d \in 0..(TestsTotal + 1)
  BY DEF TypeOK
<1>3. /\ \A q \in Paths : q # p => file'[q] = file[q]
      /\ file'[p] = [done |-> None, mtime |-> now] /\ DOMAIN file' = Paths
  BY DEF CallOK
<1>4. UNCHANGED <<pc, suite, best, next, text>> /\ Asked' = Asked
  BY DEF Asked, call
<1>5. TypeOK'
  <2>1. now \in Nat /\ now \in 0..now /\ now \in 0..MaxTime
    BY DEF TypeOK
  <2>2. \A q \in Paths : file'[q] # None =>
           file'[q].done \in 0..(TestsTotal + 1) \cup {None} /\ file'[q].mtime \in 0..now'
    BY <1>3, <2>1 DEF TypeOK
  <2>3. harness' \in [Paths -> {"off", "simulating", "writing"}]
    BY DEF TypeOK
  <2>4. draft' \in [Paths -> 0..(TestsTotal + 1)]
    BY <1>1, <1>2 DEF TypeOK
  <2>5. quiet' \in BOOLEAN
    BY DEF Touched
  <2>6. steady' \in BOOLEAN
    BY DEF Broken
  <2> QED BY <1>4, <2>2, <2>3, <2>4, <2>5, <2>6 DEF TypeOK
<1>6. CallOK'
  BY <1>3, <1>4 DEF CallOK, TypeOK
<1>7. Scanned'
  BY DEF Scanned, Touched, call
<1>8. Found'
  <2>1. SUFFICES ASSUME pc # "idle", steady, p \notin Asked
                 PROVE  Found'
    BY <1>4 DEF Found, Broken
  <2>2. best # None => best.path # p
    BY <2>1 DEF TypeOK
  <2>3. pc = "stat" => p \notin Matching[suite]
    BY <2>1 DEF CallOK, Asked
  <2>4. \A q \in Paths : q # p /\ Whole(q) => Whole(q)'
    BY <1>3 DEF Whole
  <2> QED BY <1>3, <1>4, <2>1, <2>2, <2>3, <2>4, CallFacts DEF Found, CallOK
<1>9. LeftBehind'
  BY <1>3 DEF LeftBehind, TypeOK
<1> QED BY <1>5, <1>6, <1>7, <1>8, <1>9

LEMMA WriteInv ==
    ASSUME IInv, NEW p \in Paths, Write(p)
    PROVE  IInv'
<1> USE SearchAssumption, NoneAssumption DEF IInv, Write
<1>1. /\ draft[p] \in 0..(TestsTotal + 1)
      /\ \A q \in Paths : q # p => file'[q] = file[q]
      /\ file'[p] = [done |-> draft[p], mtime |-> now] /\ DOMAIN file' = Paths
  BY DEF CallOK, TypeOK
<1>2. UNCHANGED <<pc, suite, best, next, text, steady>> /\ Asked' = Asked
  BY DEF Asked, call
<1>3. TypeOK'
  <2>1. now \in Nat /\ now \in 0..now /\ now \in 0..MaxTime
    BY DEF TypeOK
  <2>2. \A q \in Paths : file'[q] # None =>
           file'[q].done \in 0..(TestsTotal + 1) \cup {None} /\ file'[q].mtime \in 0..now'
    BY <1>1, <2>1 DEF TypeOK
  <2>3. harness' \in [Paths -> {"off", "simulating", "writing"}]
    BY DEF TypeOK
  <2>4. quiet' \in BOOLEAN
    BY DEF Touched
  <2> QED BY <1>2, <2>2, <2>3, <2>4 DEF TypeOK
<1>4. CallOK'
  BY <1>1, <1>2 DEF CallOK, TypeOK
<1>5. Scanned'
  BY DEF Scanned, Touched, call
<1>6. Found'
  <2>1. file'[p] # None /\ Whole(p)' /\ \A q \in Paths : Whole(q) /\ q # p => Whole(q)'
    BY <1>1 DEF TypeOK, Whole
  <2> QED BY <1>1, <1>2, <2>1, CallFacts DEF Found, CallOK
<1>7. LeftBehind'
  BY <1>1 DEF LeftBehind, TypeOK
<1> QED BY <1>3, <1>4, <1>5, <1>6, <1>7

LEMMA DieInv ==
    ASSUME IInv, NEW p \in Paths, Die(p)
    PROVE  IInv'
<1> USE SearchAssumption DEF IInv, Die
<1>1. UNCHANGED <<pc, suite, best, next, text>> /\ Asked' = Asked /\ \A q : Whole(q)' = Whole(q)
  BY DEF Asked, call, Whole
<1>2. TypeOK'
  <2>1. now \in 0..now /\ now \in 0..MaxTime
    BY DEF TypeOK
  <2>2. /\ harness' \in [Paths -> {"off", "simulating", "writing"}]
        /\ draft' \in [Paths -> 0..(TestsTotal + 1)] /\ deadAt' \in [Paths -> 0..now]
    BY <2>1 DEF TypeOK
  <2> QED BY <1>1, <2>2 DEF TypeOK
<1>3. CallOK'
  BY <1>1 DEF CallOK, TypeOK
<1>4. Scanned' /\ Found'
  BY <1>1 DEF Scanned, Found, Current
<1>5. LeftBehind'
  BY DEF LeftBehind, TypeOK
<1> QED BY <1>2, <1>3, <1>4, <1>5

LEMMA RemoveInv ==
    ASSUME IInv, NEW p \in Paths, Remove(p)
    PROVE  IInv'
<1> USE SearchAssumption DEF IInv, Remove
<1>1. /\ \A q \in Paths : q # p => file'[q] = file[q]
      /\ file'[p] = None /\ DOMAIN file' = Paths
  BY DEF CallOK
<1>2. UNCHANGED <<pc, suite, best, next, text>> /\ Asked' = Asked
  BY DEF Asked, call
<1>3. TypeOK'
  <2>1. \A q \in Paths : file'[q] # None =>
           file'[q].done \in 0..(TestsTotal + 1) \cup {None} /\ file'[q].mtime \in 0..now'
    BY <1>1 DEF TypeOK
  <2>2. quiet' \in BOOLEAN
    BY DEF Touched
  <2>3. steady' \in BOOLEAN
    BY DEF Broken
  <2> QED BY <1>2, <2>1, <2>2, <2>3 DEF TypeOK
<1>4. CallOK'
  BY <1>1, <1>2 DEF CallOK
<1>5. Scanned'
  BY DEF Scanned, Touched, call
<1>6. Found'
  <2>1. SUFFICES ASSUME pc # "idle", steady, p \notin Asked
                 PROVE  Found'
    BY <1>2 DEF Found, Broken
  <2>2. best # None => best.path # p
    BY <2>1 DEF TypeOK
  <2>3. pc = "stat" => p \notin Matching[suite]
    BY <2>1 DEF CallOK, Asked
  <2>4. \A q \in Paths : q # p /\ Whole(q) => Whole(q)'
    BY <1>1 DEF Whole
  <2> QED BY <1>1, <1>2, <2>1, <2>2, <2>3, <2>4, CallFacts DEF Found, CallOK
<1>7. LeftBehind'
  BY <1>1 DEF LeftBehind
<1> QED BY <1>3, <1>4, <1>5, <1>6, <1>7

LEMMA TickInv ==
    ASSUME IInv, Tick
    PROVE  IInv'
<1> USE SearchAssumption DEF IInv, Tick
<1>1. /\ UNCHANGED <<file, harness, draft, deadAt, pc, suite, best, next, text, quiet, steady>>
      /\ Asked' = Asked /\ \A q : Whole(q)' = Whole(q)
  BY DEF Asked, files, call, Whole
<1>2. TypeOK'
  <2>1. now' \in 0..MaxTime /\ 0..now \subseteq 0..now'
    BY DEF TypeOK
  <2>2. deadAt' \in [Paths -> 0..now']
    BY <1>1, <2>1 DEF TypeOK
  <2> QED BY <1>1, <2>1, <2>2 DEF TypeOK
<1>3. CallOK' /\ LeftBehind'
  BY <1>1 DEF CallOK, LeftBehind
<1>4. Scanned' /\ Found'
  BY <1>1 DEF Scanned, Found, Current
<1> QED BY <1>2, <1>3, <1>4

(***************************************************************************)
(* The server. A step that leaves the files alone and ends the call keeps  *)
(* all of it.                                                              *)
(***************************************************************************)
LEMMA IdleInv ==
    ASSUME IInv, Idle, UNCHANGED <<enabled, now, files>>
    PROVE  IInv'
<1> USE SearchAssumption, NoneAssumption DEF IInv, Idle, files
<1>1. TypeOK'
  <2>1. 1 \in 1..(Len(Search) + 1)
    OBVIOUS
  <2>2. quiet' \in BOOLEAN /\ steady' \in BOOLEAN
    OBVIOUS
  <2> QED BY <2>1, <2>2 DEF TypeOK
<1>2. CallOK' /\ LeftBehind'
  BY DEF CallOK, LeftBehind
<1>3. Scanned' /\ Found'
  BY DEF Scanned, Found
<1> QED BY <1>1, <1>2, <1>3

LEMMA ConfigErrorInv ==
    ASSUME IInv, ConfigError
    PROVE  IInv'
<1>1. UNCHANGED <<enabled, now, file, harness, draft, deadAt, pc, suite, next, best, text,
                  quiet, steady>>
  BY DEF ConfigError, files
<1> QED BY <1>1 DEF IInv, TypeOK, CallOK, Scanned, Found, LeftBehind, Current, Asked, Whole

LEMMA CallInv ==
    ASSUME IInv, NEW s \in Suites, Call(s)
    PROVE  IInv'
<1> USE SearchAssumption, NoneAssumption DEF IInv, Call, Begin, files
<1>1. Asked' = Matching[s] /\ \A q : Whole(q)' = Whole(q)
  BY DEF Asked, Whole
<1>2. next = 1 /\ best = None /\ text = None
  BY DEF CallOK, TypeOK
<1>3. TypeOK'
  <2>1. steady' \in BOOLEAN
    OBVIOUS
  <2> QED BY <1>1, <1>2, <2>1 DEF TypeOK
<1>4. CallOK' /\ LeftBehind'
  BY <1>2 DEF CallOK, LeftBehind
<1>5. Scanned'
  BY <1>2 DEF Scanned, Current, TypeOK
<1>6. Found'
  <2>1. SUFFICES ASSUME steady' PROVE Found'
    BY DEF Found
  <2>2. PICK p \in Matching[s] : file[p] # None
    BY <2>1
  <2>3. PICK n \in DOMAIN Search : Search[n] = p
    BY <2>2 DEF Paths, Suites
  <2>4. n \in Nat /\ n >= 1
    BY DEF Paths
  <2>5. \A q \in Asked' : file'[q] # None => Whole(q)'
    BY <1>1, <2>1
  <2>6. \E k \in DOMAIN Search : k >= next' /\ Search[k] \in Matching[s] /\ file'[Search[k]] # None
    BY <1>2, <2>2, <2>3, <2>4
  <2> QED BY <1>2, <2>5, <2>6 DEF Found
<1> QED BY <1>3, <1>4, <1>5, <1>6

LEMMA CallPathInv ==
    ASSUME IInv, NEW p \in Paths, CallPath(p)
    PROVE  IInv'
<1> USE SearchAssumption, NoneAssumption DEF IInv, CallPath, Begin, files
<1>1. /\ now \in 0..MaxTime /\ best' # None /\ best'.path = p /\ best'.mtime = now
      /\ Asked' = {p} /\ \A q : Whole(q)' = Whole(q)
  BY DEF TypeOK, Asked, Whole
<1>2. TypeOK'
  <2>1. steady' \in BOOLEAN
    OBVIOUS
  <2>2. text = None
    BY DEF TypeOK
  <2> QED BY <1>1, <2>1, <2>2 DEF TypeOK
<1>3. CallOK' /\ LeftBehind'
  BY <1>1 DEF CallOK, LeftBehind
<1>4. Scanned'
  BY DEF Scanned
<1>5. Found'
  BY <1>1 DEF Found
<1> QED BY <1>2, <1>3, <1>4, <1>5

LEMMA StatCandidateInv ==
    ASSUME IInv, StatCandidate
    PROVE  IInv'
<1> USE SearchAssumption, NoneAssumption DEF IInv, StatCandidate, files
<1> DEFINE p == Search[next]
           taken == p \in Matching[suite] /\ file[p] # None /\ Better(p)
<1>1. /\ p \in Paths /\ suite \in Suites /\ next \in Nat /\ next + 1 \in 1..(Len(Search) + 1)
      /\ \A n \in DOMAIN Search : n \in Nat
  BY DEF Paths, CallOK, TypeOK
<1>2. /\ UNCHANGED <<file, harness, draft, deadAt, now, pc, suite, text, quiet, steady>>
      /\ Asked' = Asked /\ Asked = Matching[suite] /\ \A q : Whole(q)' = Whole(q)
  BY <1>1 DEF Asked, Whole
<1>3. CASE taken
  <2>1. /\ best' = [path |-> p, mtime |-> file[p].mtime]
        /\ file[p].mtime \in 0..now /\ now \in 0..MaxTime
    BY <1>1, <1>3 DEF TypeOK
  <2>2. best' # None /\ best'.path = p /\ best'.mtime = file[p].mtime
    BY <1>1, <2>1
  <2>3. TypeOK'
    BY <1>1, <1>2, <1>3, <2>1, <2>2 DEF TypeOK
  <2>4. CallOK' /\ LeftBehind'
    BY <1>1, <1>2, <2>2 DEF CallOK, LeftBehind
  <2>5. Scanned'
    <3>1. SUFFICES ASSUME quiet PROVE Scanned'
      BY <1>2 DEF Scanned
    <3>2. Current'
      BY <1>2, <1>3, <2>2 DEF Current
    <3>3. ASSUME NEW n \in DOMAIN Search, n < next', Search[n] \in Matching[suite],
                 file[Search[n]] # None
          PROVE  file[Search[n]].mtime <= best'.mtime
      <4>1. CASE n = next
        BY <2>1, <2>2, <4>1
      <4>2. CASE n < next
        <5>1. best # None /\ file[Search[n]].mtime <= best.mtime
          BY <1>1, <1>2, <3>1, <3>3, <4>2 DEF Scanned, CallOK
        <5>2. best.mtime < file[p].mtime /\ best.mtime \in 0..now
          BY <1>3, <5>1 DEF Better, TypeOK
        <5>3. file[Search[n]].mtime \in 0..now
          BY <3>3, SearchAssumption DEF TypeOK, Paths
        <5> QED BY <2>1, <2>2, <5>1, <5>2, <5>3
      <4> QED BY <1>1, <3>3, <4>1, <4>2
    <3> QED BY <1>2, <2>2, <3>2, <3>3 DEF Scanned
  <2>6. Found'
    BY <1>2, <1>3, <2>2 DEF Found
  <2> QED BY <2>3, <2>4, <2>5, <2>6
<1>4. CASE ~taken
  <2>1. best' = best
    BY <1>4
  <2>2. TypeOK'
    BY <1>1, <1>2, <2>1 DEF TypeOK
  <2>3. CallOK' /\ LeftBehind'
    BY <1>1, <1>2, <2>1 DEF CallOK, LeftBehind
  <2>4. Scanned'
    <3>1. SUFFICES ASSUME quiet PROVE Scanned'
      BY <1>2 DEF Scanned
    <3>2. Current'
      BY <1>1, <1>2, <2>1, <3>1 DEF Scanned, Current, CallOK
    <3>3. ASSUME NEW n \in DOMAIN Search, n < next', Search[n] \in Matching[suite],
                 file[Search[n]] # None
          PROVE  best # None /\ file[Search[n]].mtime <= best.mtime
      <4>1. CASE n = next
        <5>1. best # None /\ ~(file[p].mtime > best.mtime)
          BY <1>4, <3>3, <4>1 DEF Better
        <5>2. best.mtime \in 0..now /\ file[p].mtime \in 0..now
          BY <1>1, <3>3, <4>1, <5>1 DEF TypeOK
        <5> QED BY <4>1, <5>1, <5>2 DEF TypeOK
      <4>2. CASE n < next
        BY <1>1, <1>2, <3>1, <3>3, <4>2 DEF Scanned, CallOK
      <4> QED BY <1>1, <3>3, <4>1, <4>2
    <3> QED BY <1>2, <2>1, <3>2, <3>3 DEF Scanned
  <2>5. Found'
    <3>1. ASSUME steady, best = None
          PROVE  \E n \in DOMAIN Search : /\ n >= next' /\ Search[n] \in Matching[suite]
                                          /\ file[Search[n]] # None
      <4>1. PICK n \in DOMAIN Search : /\ n >= next /\ Search[n] \in Matching[suite]
                                       /\ file[Search[n]] # None
        BY <3>1 DEF Found
      <4>2. n # next
        BY <1>4, <3>1, <4>1 DEF Better
      <4> QED BY <1>1, <4>1, <4>2
    <3> QED BY <1>2, <2>1, <3>1 DEF Found
  <2> QED BY <2>2, <2>3, <2>4, <2>5
<1> QED BY <1>3, <1>4

LEMMA ChooseInv ==
    ASSUME IInv, Choose
    PROVE  IInv'
<1> USE SearchAssumption, NoneAssumption DEF IInv, Choose
<1>1. CASE best = None
  BY <1>1, IdleInv DEF NotFound
<1>2. CASE best # None
  <2>1. /\ UNCHANGED <<now, file, harness, draft, deadAt, suite, next, best, text, quiet, steady>>
        /\ pc' = "read" /\ Asked' = Asked /\ \A q : Whole(q)' = Whole(q)
    BY <1>2 DEF files, Asked, Whole
  <2>2. TypeOK' /\ CallOK' /\ LeftBehind'
    BY <1>2, <2>1 DEF TypeOK, CallOK, LeftBehind
  <2>3. Scanned'
    <3>1. \A n \in DOMAIN Search : n < next
      BY DEF TypeOK
    <3> QED BY <2>1, <3>1 DEF Scanned, Current
  <2>4. Found'
    BY <2>1 DEF Found
  <2> QED BY <2>2, <2>3, <2>4
<1> QED BY <1>1, <1>2

LEMMA ReadTextInv ==
    ASSUME IInv, ReadText
    PROVE  IInv'
<1> USE SearchAssumption, NoneAssumption DEF IInv, ReadText
<1>1. CASE ~Whole(best.path)
  BY <1>1, IdleInv DEF NotFound
<1>2. CASE Whole(best.path)
  <2>1. /\ UNCHANGED <<now, file, harness, draft, deadAt, suite, next, best, quiet, steady>>
        /\ pc' = "age" /\ text' = file[best.path].done /\ best # None
        /\ Asked' = Asked /\ \A q : Whole(q)' = Whole(q)
    BY <1>2 DEF files, Asked, Whole, TypeOK
  <2>2. text' \in 0..(TestsTotal + 1)
    BY <1>2, <2>1 DEF TypeOK, CallOK, Whole
  <2>3. TypeOK' /\ CallOK' /\ LeftBehind'
    BY <2>1, <2>2 DEF TypeOK, CallOK, LeftBehind
  <2>4. Scanned' /\ Found'
    BY <2>1 DEF Scanned, Found, Current
  <2> QED BY <2>3, <2>4
<1> QED BY <1>1, <1>2

LEMMA StatAgeInv ==
    ASSUME IInv, StatAge
    PROVE  IInv'
BY IdleInv DEF StatAge, NotFound

(***************************************************************************)
(* The theorems.                                                           *)
(***************************************************************************)
LEMMA StepInv == IInv /\ [Next]_vars => IInv'
<1> SUFFICES ASSUME IInv, [Next]_vars PROVE IInv'
  OBVIOUS
<1>1. CASE Next
  BY <1>1, TickInv, ConfigErrorInv, StatCandidateInv, ChooseInv, ReadTextInv, StatAgeInv,
     CallInv, CallPathInv, UpdateInv, TruncateInv, WriteInv, DieInv, RemoveInv
  DEF Next, Server, Harness
<1>2. CASE UNCHANGED vars
  BY <1>2 DEF vars, files, call, IInv, TypeOK, CallOK, Scanned, Found, LeftBehind, Current,
              Asked, Whole
<1> QED BY <1>1, <1>2

\* What a call knows is right in every state: what it has read, what it has passed over, and
\* what the files it will read still are.
THEOREM Invariant == Spec => []IInv
BY InitInv, StepInv, PTL DEF Spec

\* Every file, draft and answer in progress is of its kind (adapters/live_sim.py:80).
THEOREM TypeCorrect == Spec => []TypeOK
<1>1. IInv => TypeOK
  BY DEF IInv
<1> QED BY <1>1, Invariant, PTL

\* A call during which no file changed reads the newest file of its suite, for any number of
\* files in any order (adapters/live_sim.py:88).
THEOREM NewestIsAnswered == Spec => []NewestAnswered
<1>1. IInv => NewestAnswered
  <2> SUFFICES ASSUME IInv, pc = "age", quiet, suite # None
               PROVE  /\ text = file[best.path].done
                      /\ \A p \in Matching[suite] :
                            file[p] # None => file[p].mtime <= file[best.path].mtime
    BY DEF NewestAnswered
  <2>1. /\ best # None /\ file[best.path].mtime = best.mtime
        /\ text = file[best.path].done
    BY DEF IInv, Scanned, Current, TypeOK
  <2>2. ASSUME NEW p \in Matching[suite], file[p] # None
        PROVE  file[p].mtime <= best.mtime
    <3>1. PICK n \in DOMAIN Search : Search[n] = p
      BY CallFacts DEF IInv, TypeOK, Paths
    <3> QED BY <2>2, <3>1 DEF IInv, Scanned
  <2> QED BY <2>1, <2>2
<1> QED BY <1>1, Invariant, PTL

\* The steps that answer: nothing else changes the answer but the call that clears it.
LEMMA Answers ==
    ASSUME IInv, Next, answer' \notin {answer, None}
    PROVE  \/ ConfigError
           \/ Choose /\ best = None /\ NotFound
           \/ ReadText /\ ~Whole(best.path) /\ NotFound
           \/ StatAge
<1> SUFFICES ASSUME ~ConfigError, ~StatAge
             PROVE  \/ Choose /\ best = None /\ NotFound
                    \/ ReadText /\ ~Whole(best.path) /\ NotFound
  OBVIOUS
<1>1. ~Tick /\ ~StatCandidate
  BY DEF Tick, StatCandidate, call
<1>2. \A s \in Suites : ~Call(s)
  BY DEF Call, Begin
<1>3. \A p \in Paths : ~CallPath(p) /\ ~Update(p) /\ ~Truncate(p) /\ ~Write(p)
  BY DEF CallPath, Begin, Update, Truncate, Write, call
<1>4. \A p \in Paths : ~Die(p) /\ ~Remove(p)
  BY DEF Die, Remove, call
<1> QED BY <1>1, <1>2, <1>3, <1>4 DEF Next, Server, Harness, Choose, ReadText

\* A call finds a file whenever one stays, whatever harnesses rename over it, for any number of
\* candidates (adapters/live_sim.py:80).
THEOREM SteadyIsFound == Spec => FoundIfSteady
<1>1. ASSUME IInv, Next, steady, answer' \notin {answer, None}, answer'.kind = "NOT_FOUND"
      PROVE  text # None /\ text > TestsTotal
  <2>1. ~ConfigError
    <3>1. ConfigError => answer'.kind = "CONFIG_ERROR"
      BY DEF ConfigError, Answer
    <3> QED BY <1>1, <3>1
  <2>2. CASE Choose /\ best = None
    <3>1. \A n \in DOMAIN Search : n < next
      BY <1>1, <2>2, SearchAssumption DEF Choose, IInv, TypeOK
    <3>2. \A n \in DOMAIN Search : ~(n >= next)
      BY <1>1, <3>1, SearchAssumption DEF IInv, TypeOK
    <3> QED BY <1>1, <2>2, <3>2 DEF IInv, Found, Choose
  <2>3. CASE ReadText /\ ~Whole(best.path)
    BY <1>1, <2>3 DEF ReadText, IInv, Found, TypeOK
  <2>4. CASE StatAge
    <3>1. ~Valid(text)
      BY <1>1, <2>4 DEF StatAge, Answer
    <3>2. text # None /\ text \in 0..(TestsTotal + 1)
      BY <1>1, <2>4 DEF StatAge, IInv, TypeOK
    <3> QED BY <3>1, <3>2, SearchAssumption DEF Valid
  <2> QED BY <1>1, <2>1, <2>2, <2>3, <2>4, Answers
<1>2. IInv /\ [Next]_vars =>
        [(steady /\ answer' \notin {answer, None} /\ answer'.kind = "NOT_FOUND") =>
            text # None /\ text > TestsTotal]_vars
  BY <1>1
<1> QED BY <1>2, Invariant, PTL DEF Spec, FoundIfSteady

\* The age of an answered file is at least the time since its harness stopped, so no harness
\* that is dead for longer than the limit looks alive (adapters/live_sim.py:124).
THEOREM DeadAreStale == Spec => DeadIsStale
<1>1. ASSUME IInv, Next, answer' \notin {answer, None}, answer'.kind = "ok", ~answer'.vanished,
             harness[answer'.path] = "off", now > deadAt[answer'.path] + MaxAge
      PROVE  answer'.stale
  <2>1. StatAge
    BY <1>1, Answers DEF ConfigError, NotFound, Answer
  <2>2. /\ answer'.path = best.path /\ answer'.stale = Stale(best.path)
        /\ answer'.vanished = (file[best.path] = None)
    BY <1>1, <2>1 DEF StatAge, Answer, NotFound
  <2>3. file[best.path] # None /\ best.path \in Paths
    BY <1>1, <2>1, <2>2 DEF IInv, TypeOK, CallOK, StatAge
  <2>4. file[best.path].mtime <= deadAt[best.path]
    BY <1>1, <2>2, <2>3 DEF IInv, LeftBehind
  <2>5. /\ file[best.path].mtime \in 0..now /\ deadAt[best.path] \in 0..now /\ now \in Nat
        /\ MaxAge \in Nat
    BY <1>1, <2>3, SearchAssumption DEF IInv, TypeOK
  <2>6. now - file[best.path].mtime > MaxAge
    BY <1>1, <2>2, <2>4, <2>5
  <2> QED BY <2>2, <2>3, <2>6 DEF Stale
<1>2. IInv /\ [Next]_vars =>
        [(answer' \notin {answer, None} /\ answer'.kind = "ok" /\ ~answer'.vanished) =>
            LET p == answer'.path IN
            (harness[p] = "off" /\ now > deadAt[p] + MaxAge) => answer'.stale]_vars
  BY <1>1
<1> QED BY <1>2, Invariant, PTL DEF Spec, DeadIsStale
=============================================================================
