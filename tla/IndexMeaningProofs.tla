-------------------------- MODULE IndexMeaningProofs --------------------------
(***************************************************************************)
(* Theorems of IndexPass about what the index means: a pass that reached   *)
(* its end holds what IndexContent says its artifacts mean, and one that   *)
(* did not shows no more than that; so the pass implements IndexBuild.     *)
(*                                                                         *)
(* IndexContent knows the artifacts and no cursor, the pass its cursor and *)
(* no artifact but one.  MeaningInv puts them together: the rows that are  *)
(* there are those of the testcases, the failures and the files that the   *)
(* cursor has passed, and of those with one id it is the last one's.       *)
(* KeptInv says the same of the assertion failures of the logs.            *)
(***************************************************************************)
EXTENDS IndexPassProofs, FiniteSetTheorems, WellFoundedInduction

(***************************************************************************)
(* Where the cursor has been.                                              *)
(***************************************************************************)
Building == phase \in {"connect", "close"} \cup Phases

\* A results file that is done, or that a handler is in.
Past(p) == phase \notin {"connect", "results"} \/ (phase = "results" /\ p < pos)
Here(p) == phase = "results" /\ p = pos /\ stage # "open"

IndexedFiles(c) == {p \in DOMAIN c.results : Indexed(c.results[p])}
OpenedFiles == {p \in IndexedFiles(scan) : Past(p) \/ Here(p)}

\* The testcases stored, the failures stored, and the coverage files given a run.
CaseDone(x) ==
    \/ Past(x[1])
    \/ Here(x[1]) /\ (x[2] < item \/ (x[2] = item /\ stage # "test"))

InEvidence == stage \in {"purge", "evidence"}
OccurrenceDone(x) ==
    \/ Past(x[1])
    \/ Here(x[1]) /\ x[2] < item
    \/ /\ Here(x[1]) /\ x[2] = item /\ stage # "test"
       /\ x[3] \notin left \/ (InEvidence /\ x[3] \in Least(left))

OrphanDone(v) ==
    \/ phase \in {"sva", "close"}
    \/ phase = "coverage" /\ (v < pos \/ (v = pos /\ stage # "open"))

DoneCases == {x \in CasesOf(scan) : CaseDone(x)}
DoneOccurrences == {x \in OccurrencesOf(scan) : OccurrenceDone(x)}
DoneOrphans == {v \in OrphanCoverage(scan) : OrphanDone(v)}

(***************************************************************************)
(* What is there.                                                          *)
(***************************************************************************)
\* Of the rows that the positions D write, `table` has for each id that of the last one.
LastRows(table, row, D) ==
    /\ \A x \in D : \E r \in table : r.id = row[x].id
    /\ \A r \in table : \E x \in D :
          r = row[x] /\ \A y \in D \ {x} : row[y].id = r.id => Before(y, x)

CaseRows(c) ==
    [x \in CasesOf(c) |->
        [id |-> TestAt(c, x), status |-> CaseStatus(c.results[x[1]], x[2]),
         seed |-> c.results[x[1]].cases[x[2]].seed, at |-> x[1]]]

OccurrenceRows(c) ==
    [x \in OccurrencesOf(c) |->
        [id |-> FailureAt(c, x), run |-> FailureAt(c, x).test.run,
         occ |-> c.results[x[1]].fails[x[3]].occ]]

\* A run a file or a coverage file without a test has opened, failed if one of its files has.
RunsAre ==
    /\ Ids(runs) = {RunOf(scan.results[p]) : p \in OpenedFiles}
                     \cup {RunIdOf(scan.coverage[v].path, scan.coverage[v].build) : v \in DoneOrphans}
    /\ \A r \in runs : r.status = "fail" <=>
          \E p \in OpenedFiles : RunOf(scan.results[p]) = r.id /\ RunFails(scan.results[p])

\* The evidence of a failure row is that of its last occurrence, once that is written.
RefsOf(written, g) == {e.ref : e \in {x \in written : x.owner = FailureOwner(g)}}
IsLast(x) ==
    \A y \in DoneOccurrences \ {x} : FailureAt(scan, y) = FailureAt(scan, x) => Before(y, x)
Current(x) == Here(x[1]) /\ x[2] = item /\ InEvidence /\ x[3] \in Least(left)

EvidenceAre ==
    \A x \in DoneOccurrences : IsLast(x) =>
        LET refs == scan.results[x[1]].fails[x[3]].refs
            shown == RefsOf(evidence, FailureAt(scan, x)) IN
        IF Current(x) THEN stage = "evidence" => shown = {refs[n] : n \in {m \in DOMAIN refs : m < ref}}
        ELSE shown = {refs[n] : n \in DOMAIN refs}

Filled ==
    /\ LastRows(tests, CaseRows(scan), DoneCases)
    /\ LastRows(failures, OccurrenceRows(scan), DoneOccurrences)
    /\ RunsAre /\ EvidenceAre

\* A testcase's failures are taken in the order of the file.
InOrder ==
    phase = "results" /\ stage \notin {"open", "test"} =>
        \A j \in FailuresOf(File, item) \ left, k \in left : j < k

MeaningInv ==
    /\ Building => whole = None /\ Filled
    /\ InOrder
    /\ WholeIsContent /\ EvidenceIsOfTheRow

(***************************************************************************)
(* A non-empty set of naturals has a least element.                        *)
(***************************************************************************)
LEMMA LeastNatural ==
    ASSUME NEW T, T \subseteq Nat, T # {}
    PROVE  \E x \in T : \A y \in T : x <= y
<1> DEFINE UpTo(x) == T \cap 0..x
           Family == {UpTo(x) : x \in T}
           Smaller == StrictSubsetOrdering(Nat)
<1>1. \A x \in T : UpTo(x) \in FiniteSubsetsOf(Nat)
  <2> SUFFICES ASSUME NEW x \in T PROVE UpTo(x) \in FiniteSubsetsOf(Nat)
    OBVIOUS
  <2>1. IsFiniteSet(0..x)
    BY FS_Interval
  <2>2. IsFiniteSet(UpTo(x))
    BY <2>1, FS_Intersection
  <2> QED BY <2>2 DEF FiniteSubsetsOf
<1>2. IsWellFoundedOn(Smaller, FiniteSubsetsOf(Nat))
  BY FS_StrictSubsetOrderingWellFounded
<1>3. Family \subseteq FiniteSubsetsOf(Nat) /\ Family # {}
  BY <1>1
<1>4. PICK F \in Family : \A G \in Family : ~(<<G, F>> \in Smaller)
  <2> HIDE DEF Family, Smaller
  <2> QED BY <1>2, <1>3, WFMin
<1>5. PICK x \in T : F = UpTo(x)
  BY <1>4
<1>6. ASSUME NEW y \in T, y < x PROVE FALSE
  <2>1. UpTo(y) \subseteq UpTo(x) /\ x \in UpTo(x) /\ x \notin UpTo(y)
    BY <1>6
  <2>2. <<UpTo(y), UpTo(x)>> \in Smaller
    BY <2>1 DEF StrictSubsetOrdering
  <2> QED BY <1>4, <1>5, <2>2
<1>7. \A y \in T : x <= y
  BY <1>6
<1> QED BY <1>7

(***************************************************************************)
(* Positions and the rows of the last of them.                             *)
(***************************************************************************)
LEMMA PairBefore ==
    ASSUME NEW p \in Nat, NEW i \in Nat, NEW q \in Nat, NEW j \in Nat
    PROVE  Before(<<p, i>>, <<q, j>>) <=> p < q \/ (p = q /\ i < j)
<1> DEFINE x == <<p, i>>
           y == <<q, j>>
<1>1. DOMAIN x = {1, 2} /\ x[1] = p /\ x[2] = i /\ y[1] = q /\ y[2] = j
  OBVIOUS
<1>2. 1..(1 - 1) = {} /\ 1..(2 - 1) = {1}
  OBVIOUS
<1> QED BY <1>1, <1>2 DEF Before

LEMMA TripleBefore ==
    ASSUME NEW p \in Nat, NEW i \in Nat, NEW k \in Nat, NEW q \in Nat, NEW j \in Nat, NEW l \in Nat
    PROVE  Before(<<p, i, k>>, <<q, j, l>>) <=>
               p < q \/ (p = q /\ i < j) \/ (p = q /\ i = j /\ k < l)
<1> DEFINE x == <<p, i, k>>
           y == <<q, j, l>>
<1>1. /\ DOMAIN x = {1, 2, 3}
      /\ x[1] = p /\ x[2] = i /\ x[3] = k /\ y[1] = q /\ y[2] = j /\ y[3] = l
  OBVIOUS
<1>2. 1..(1 - 1) = {} /\ 1..(2 - 1) = {1} /\ 1..(3 - 1) = {1, 2}
  OBVIOUS
<1> QED BY <1>1, <1>2 DEF Before

\* A row written at a position after all the others is the last of its id.
LEMMA LastRowsGrow ==
    ASSUME NEW table, NEW row, NEW D, NEW n, LastRows(table, row, D),
           \A y \in D : Before(y, n) /\ ~Before(n, y)
    PROVE  LastRows(Upsert(table, row[n]), row, D \cup {n})
<1> DEFINE new == Upsert(table, row[n])
           E == D \cup {n}
<1>1. new = {r \in table : r.id # row[n].id} \cup {row[n]}
  BY DEF Upsert
<1>2. ASSUME NEW x \in E PROVE \E r \in new : r.id = row[x].id
  <2>1. CASE row[x].id = row[n].id
    BY <1>1, <2>1
  <2>2. CASE row[x].id # row[n].id
    BY <1>1, <1>2, <2>2 DEF LastRows
  <2> QED BY <2>1, <2>2
<1>3. ASSUME NEW r \in new
      PROVE  \E x \in E : r = row[x] /\ \A y \in E \ {x} : row[y].id = r.id => Before(y, x)
  <2>1. CASE r = row[n]
    BY <2>1
  <2>2. CASE r # row[n]
    <3>1. r \in table /\ r.id # row[n].id
      BY <1>1, <2>2
    <3>2. PICK x \in D : r = row[x] /\ \A y \in D \ {x} : row[y].id = r.id => Before(y, x)
      BY <3>1 DEF LastRows
    <3> QED BY <3>1, <3>2
  <2> QED BY <2>1, <2>2
<1> QED BY <1>2, <1>3 DEF LastRows

LastWith(row, D, t) == LastOf({y \in D : row[y].id = t})

\* Then the table is what IndexContent makes of the positions with LastOf.
LEMMA LastRowsAre ==
    ASSUME NEW table, NEW row, NEW D, LastRows(table, row, D),
           \A x, y \in D : ~(Before(x, y) /\ Before(y, x))
    PROVE  table = {row[LastWith(row, D, t)] : t \in {row[x].id : x \in D}}
<1>1. ASSUME NEW r \in table
      PROVE  \E x \in D : r = row[x] /\ LastWith(row, D, r.id) = x
  <2>1. PICK x \in D : r = row[x] /\ \A y \in D \ {x} : row[y].id = r.id => Before(y, x)
    BY DEF LastRows
  <2> DEFINE S == {y \in D : row[y].id = r.id}
             Last(z) == z \in S /\ \A y \in S \ {z} : Before(y, z)
  <2>2. Last(x)
    BY <2>1
  <2>3. \A z : Last(z) => z = x
    BY <2>2
  <2>4. LastOf(S) = x
    BY <2>2, <2>3 DEF LastOf
  <2> QED BY <2>1, <2>4 DEF LastWith
<1>2. ASSUME NEW t \in {row[x].id : x \in D}
      PROVE  row[LastWith(row, D, t)] \in table
  <2>1. PICK r \in table : r.id = t
    BY DEF LastRows
  <2> QED BY <1>1, <2>1
<1>3. ASSUME NEW r \in table
      PROVE  \E t \in {row[x].id : x \in D} : r = row[LastWith(row, D, t)]
  <2>1. PICK x \in D : r = row[x] /\ LastWith(row, D, r.id) = x
    BY <1>1
  <2> WITNESS row[x].id \in {row[z].id : z \in D}
  <2> QED BY <2>1
<1> DEFINE Last(t) == row[LastWith(row, D, t)]
           ids == {row[x].id : x \in D}
<1>4. (\A t \in ids : Last(t) \in table) /\ (\A r \in table : \E t \in ids : r = Last(t))
  BY <1>2, <1>3
<1> HIDE DEF Last, ids
<1>5. table = {Last(t) : t \in ids}
  BY <1>4
<1> QED BY <1>5 DEF Last, ids

(***************************************************************************)
(* The testcases and the occurrences of a corpus.                          *)
(***************************************************************************)
LEMMA CaseTyped ==
    ASSUME NEW c \in Corpora
    PROVE  /\ c.results \in Seq(ResultFiles) /\ c.coverage \in Seq(CoverageFiles)
           /\ \A x : x \in CasesOf(c) <=>
                 \E p, i : /\ x = <<p, i>> /\ p \in DOMAIN c.results /\ Indexed(c.results[p])
                           /\ i \in DOMAIN c.results[p].cases
           /\ \A x : x \in OccurrencesOf(c) <=>
                 \E p, i, k : /\ x = <<p, i, k>> /\ <<p, i>> \in CasesOf(c)
                              /\ k \in FailuresOf(c.results[p], i)
           /\ \A p \in DOMAIN c.results :
                 /\ c.results[p] \in ResultFiles /\ p \in Nat \ {0}
                 /\ DOMAIN c.results[p].cases \subseteq Nat /\ DOMAIN c.results[p].fails \subseteq Nat
<1>1. c.results \in Seq(ResultFiles) /\ c.coverage \in Seq(CoverageFiles)
  BY CorporaTyped DEF CorpusType
<1>2. \A x : x \in CasesOf(c) <=>
         \E p, i : /\ x = <<p, i>> /\ p \in DOMAIN c.results /\ Indexed(c.results[p])
                   /\ i \in DOMAIN c.results[p].cases
  BY DEF CasesOf
<1>3. ASSUME NEW x
      PROVE  x \in OccurrencesOf(c) <=>
                 \E p, i, k : /\ x = <<p, i, k>> /\ <<p, i>> \in CasesOf(c)
                              /\ k \in FailuresOf(c.results[p], i)
  <2>1. x \in OccurrencesOf(c) <=>
            \E y \in CasesOf(c) : \E k \in FailuresOf(c.results[y[1]], y[2]) : x = <<y[1], y[2], k>>
    BY DEF OccurrencesOf
  <2>2. \A y \in CasesOf(c) : \E p, i : y = <<p, i>> /\ y[1] = p /\ y[2] = i
    BY <1>2
  <2> QED BY <2>1, <2>2
<1>4. ASSUME NEW p \in DOMAIN c.results
      PROVE  /\ c.results[p] \in ResultFiles /\ p \in Nat \ {0}
             /\ DOMAIN c.results[p].cases \subseteq Nat /\ DOMAIN c.results[p].fails \subseteq Nat
  <2>1. c.results[p] \in ResultFiles /\ p \in Nat \ {0}
    BY <1>1
  <2>2. c.results[p].cases \in Seq(Testcases) /\ c.results[p].fails \in Seq(Occurrences)
    BY <2>1 DEF ResultFiles
  <2> QED BY <2>1, <2>2
<1> QED BY <1>1, <1>2, <1>3, <1>4

LEMMA CasesOrdered ==
    ASSUME NEW c \in Corpora
    PROVE  \A x, y \in CasesOf(c) :
               /\ x[1] \in Nat /\ x[2] \in Nat /\ x[1] \in DOMAIN c.results
               /\ Indexed(c.results[x[1]]) /\ x[2] \in DOMAIN c.results[x[1]].cases
               /\ x = <<x[1], x[2]>>
               /\ Before(x, y) <=> x[1] < y[1] \/ (x[1] = y[1] /\ x[2] < y[2])
<1>1. ASSUME NEW x \in CasesOf(c)
      PROVE  /\ x[1] \in Nat /\ x[2] \in Nat /\ x[1] \in DOMAIN c.results
             /\ Indexed(c.results[x[1]]) /\ x[2] \in DOMAIN c.results[x[1]].cases
             /\ x = <<x[1], x[2]>>
  <2>1. PICK p, i : /\ x = <<p, i>> /\ p \in DOMAIN c.results /\ Indexed(c.results[p])
                    /\ i \in DOMAIN c.results[p].cases
    BY CaseTyped
  <2>2. p \in Nat /\ i \in Nat
    BY <2>1, CaseTyped
  <2> QED BY <2>1, <2>2
<1>2. ASSUME NEW x \in CasesOf(c), NEW y \in CasesOf(c)
      PROVE  Before(x, y) <=> x[1] < y[1] \/ (x[1] = y[1] /\ x[2] < y[2])
  <2>1. /\ x[1] \in Nat /\ x[2] \in Nat /\ y[1] \in Nat /\ y[2] \in Nat
        /\ x = <<x[1], x[2]>> /\ y = <<y[1], y[2]>>
    BY <1>1
  <2> DEFINE p == x[1]  i == x[2]  q == y[1]  j == y[2]
  <2> HIDE DEF p, i, q, j
  <2>2. p \in Nat /\ i \in Nat /\ q \in Nat /\ j \in Nat /\ x = <<p, i>> /\ y = <<q, j>>
    BY <2>1 DEF p, i, q, j
  <2>3. Before(<<p, i>>, <<q, j>>) <=> p < q \/ (p = q /\ i < j)
    BY <2>2, PairBefore
  <2> QED BY <2>2, <2>3 DEF p, i, q, j
<1> QED BY <1>1, <1>2

LEMMA OccurrencesOrdered ==
    ASSUME NEW c \in Corpora
    PROVE  \A x, y \in OccurrencesOf(c) :
               /\ x[1] \in Nat /\ x[2] \in Nat /\ x[3] \in Nat /\ x[1] \in DOMAIN c.results
               /\ Indexed(c.results[x[1]]) /\ x[2] \in DOMAIN c.results[x[1]].cases
               /\ x[3] \in FailuresOf(c.results[x[1]], x[2])
               /\ x = <<x[1], x[2], x[3]>>
               /\ Before(x, y) <=> \/ x[1] < y[1] \/ (x[1] = y[1] /\ x[2] < y[2])
                                   \/ (x[1] = y[1] /\ x[2] = y[2] /\ x[3] < y[3])
<1>1. ASSUME NEW x \in OccurrencesOf(c)
      PROVE  /\ x[1] \in Nat /\ x[2] \in Nat /\ x[3] \in Nat /\ x[1] \in DOMAIN c.results
             /\ Indexed(c.results[x[1]]) /\ x[2] \in DOMAIN c.results[x[1]].cases
             /\ x[3] \in FailuresOf(c.results[x[1]], x[2])
             /\ x = <<x[1], x[2], x[3]>>
  <2>1. PICK p, i, k : /\ x = <<p, i, k>> /\ <<p, i>> \in CasesOf(c)
                       /\ k \in FailuresOf(c.results[p], i)
    BY CaseTyped
  <2>2. /\ p \in DOMAIN c.results /\ Indexed(c.results[p]) /\ i \in DOMAIN c.results[p].cases
        /\ p \in Nat /\ i \in Nat
    <3> DEFINE z == <<p, i>>
    <3>1. z[1] = p /\ z[2] = i /\ z \in CasesOf(c)
      BY <2>1
    <3> HIDE DEF z
    <3> QED BY <3>1, CasesOrdered
  <2>3. k \in Nat
    BY <2>1, <2>2, CaseTyped DEF FailuresOf
  <2> QED BY <2>1, <2>2, <2>3
<1>2. ASSUME NEW x \in OccurrencesOf(c), NEW y \in OccurrencesOf(c)
      PROVE  Before(x, y) <=> \/ x[1] < y[1] \/ (x[1] = y[1] /\ x[2] < y[2])
                              \/ (x[1] = y[1] /\ x[2] = y[2] /\ x[3] < y[3])
  <2>1. /\ x[1] \in Nat /\ x[2] \in Nat /\ x[3] \in Nat /\ x = <<x[1], x[2], x[3]>>
        /\ y[1] \in Nat /\ y[2] \in Nat /\ y[3] \in Nat /\ y = <<y[1], y[2], y[3]>>
    BY <1>1
  <2> DEFINE p == x[1]  i == x[2]  k == x[3]  q == y[1]  j == y[2]  l == y[3]
  <2> HIDE DEF p, i, k, q, j, l
  <2>2. /\ p \in Nat /\ i \in Nat /\ k \in Nat /\ q \in Nat /\ j \in Nat /\ l \in Nat
        /\ x = <<p, i, k>> /\ y = <<q, j, l>>
    BY <2>1 DEF p, i, k, q, j, l
  <2>3. Before(<<p, i, k>>, <<q, j, l>>) <=>
            p < q \/ (p = q /\ i < j) \/ (p = q /\ i = j /\ k < l)
    BY <2>2, TripleBefore
  <2> QED BY <2>2, <2>3 DEF p, i, k, q, j, l
<1> QED BY <1>1, <1>2

LEMMA OneIsLast ==
    ASSUME NEW c \in Corpora
    PROVE  /\ \A x, y \in CasesOf(c) : ~(Before(x, y) /\ Before(y, x))
           /\ \A x, y \in OccurrencesOf(c) : ~(Before(x, y) /\ Before(y, x))
<1>1. ASSUME NEW x \in CasesOf(c), NEW y \in CasesOf(c), Before(x, y), Before(y, x) PROVE FALSE
  <2>1. x[1] \in Nat /\ x[2] \in Nat /\ y[1] \in Nat /\ y[2] \in Nat
    BY CasesOrdered
  <2>2. /\ x[1] < y[1] \/ (x[1] = y[1] /\ x[2] < y[2])
        /\ y[1] < x[1] \/ (y[1] = x[1] /\ y[2] < x[2])
    BY <1>1, CasesOrdered
  <2> QED BY <2>1, <2>2
<1>2. ASSUME NEW x \in OccurrencesOf(c), NEW y \in OccurrencesOf(c), Before(x, y), Before(y, x)
      PROVE  FALSE
  <2>1. /\ x[1] \in Nat /\ x[2] \in Nat /\ x[3] \in Nat
        /\ y[1] \in Nat /\ y[2] \in Nat /\ y[3] \in Nat
    BY OccurrencesOrdered
  <2>2. /\ \/ x[1] < y[1] \/ (x[1] = y[1] /\ x[2] < y[2])
           \/ (x[1] = y[1] /\ x[2] = y[2] /\ x[3] < y[3])
        /\ \/ y[1] < x[1] \/ (y[1] = x[1] /\ y[2] < x[2])
           \/ (y[1] = x[1] /\ y[2] = x[2] /\ y[3] < x[3])
    BY <1>2, OccurrencesOrdered
  <2> QED BY <2>1, <2>2
<1> QED BY <1>1, <1>2

\* The tables of a corpus whose every position is done are those of IndexContent.
LEMMA TablesAreExpected ==
    ASSUME NEW c \in Corpora, NEW table
    PROVE  /\ LastRows(table, CaseRows(c), CasesOf(c)) => table = ExpectedTests(c)
           /\ LastRows(table, OccurrenceRows(c), OccurrencesOf(c)) => table = ExpectedFailures(c)
<1>1. ASSUME LastRows(table, CaseRows(c), CasesOf(c)) PROVE table = ExpectedTests(c)
  <2> DEFINE row == CaseRows(c)
             D == CasesOf(c)
             last(t) == LastOf({y \in D : TestAt(c, y) = t})
             expected(t) == [id |-> t, status |-> CaseStatus(c.results[last(t)[1]], last(t)[2]),
                             seed |-> c.results[last(t)[1]].cases[last(t)[2]].seed, at |-> last(t)[1]]
             byRow(t) == LastWith(row, D, t)
  <2>0. LastRows(table, row, D) /\ \A x, y \in D : ~(Before(x, y) /\ Before(y, x))
    BY <1>1, OneIsLast
  <2>1. table = {row[byRow(t)] : t \in {row[x].id : x \in D}}
    <3> HIDE DEF row, D
    <3> QED BY <2>0, LastRowsAre
  <2>2. \A x \in D : row[x].id = TestAt(c, x)
    BY DEF CaseRows
  <2>3. \A t : {y \in D : row[y].id = t} = {y \in D : TestAt(c, y) = t}
    BY <2>2
  <2>4. {row[x].id : x \in D} = {TestAt(c, x) : x \in D}
    BY <2>2
  <2>5. \A t : byRow(t) = last(t)
    BY <2>3 DEF LastWith
  <2>6. table = {row[last(t)] : t \in {TestAt(c, x) : x \in D}}
    <3> DEFINE ids == {row[x].id : x \in D}
               wanted == {TestAt(c, x) : x \in D}
    <3>1. ids = wanted /\ table = {row[byRow(t)] : t \in ids}
      BY <2>1, <2>4
    <3> HIDE DEF row, D, byRow, last, ids, wanted
    <3>2. table = {row[last(t)] : t \in wanted}
      BY <2>5, <3>1
    <3> QED BY <3>2 DEF wanted
  <2>7. ASSUME NEW t \in {TestAt(c, x) : x \in D} PROVE row[last(t)] = expected(t)
    <3>1. PICK r \in table : r.id = t
      BY <1>1, <2>2 DEF LastRows
    <3>2. PICK x \in D : r = row[x] /\ \A y \in D \ {x} : row[y].id = r.id => Before(y, x)
      BY <1>1 DEF LastRows
    <3> DEFINE S == {y \in D : TestAt(c, y) = t}
               IsTheLast(z) == z \in S /\ \A y \in S \ {z} : Before(y, z)
    <3>3. IsTheLast(x)
      BY <2>2, <3>1, <3>2
    <3>4. \E z : IsTheLast(z)
      BY <3>3
    <3>5. IsTheLast(last(t))
      <4>1. last(t) = CHOOSE z \in S : \A y \in S \ {z} : Before(y, z)
        BY DEF LastOf
      <4> QED BY <3>4, <4>1
    <3>6. last(t) \in D /\ TestAt(c, last(t)) = t
      BY <3>5
    <3> HIDE DEF last
    <3> QED BY <3>6 DEF CaseRows
  <2> HIDE DEF last, expected, row
  <2>8. table = {expected(t) : t \in {TestAt(c, x) : x \in D}}
    BY <2>6, <2>7
  <2> QED BY <2>8 DEF ExpectedTests, expected, last
<1>2. ASSUME LastRows(table, OccurrenceRows(c), OccurrencesOf(c)) PROVE table = ExpectedFailures(c)
  <2> DEFINE row == OccurrenceRows(c)
             D == OccurrencesOf(c)
             last(t) == LastOf({y \in D : FailureAt(c, y) = t})
             expected(t) == [id |-> t, run |-> t.test.run,
                             occ |-> c.results[last(t)[1]].fails[last(t)[3]].occ]
             byRow(t) == LastWith(row, D, t)
  <2>0. LastRows(table, row, D) /\ \A x, y \in D : ~(Before(x, y) /\ Before(y, x))
    BY <1>2, OneIsLast
  <2>1. table = {row[byRow(t)] : t \in {row[x].id : x \in D}}
    <3> HIDE DEF row, D
    <3> QED BY <2>0, LastRowsAre
  <2>2. \A x \in D : row[x].id = FailureAt(c, x)
    BY DEF OccurrenceRows
  <2>3. \A t : {y \in D : row[y].id = t} = {y \in D : FailureAt(c, y) = t}
    BY <2>2
  <2>4. {row[x].id : x \in D} = {FailureAt(c, x) : x \in D}
    BY <2>2
  <2>5. \A t : byRow(t) = last(t)
    BY <2>3 DEF LastWith
  <2>6. table = {row[last(t)] : t \in {FailureAt(c, x) : x \in D}}
    <3> DEFINE ids == {row[x].id : x \in D}
               wanted == {FailureAt(c, x) : x \in D}
    <3>1. ids = wanted /\ table = {row[byRow(t)] : t \in ids}
      BY <2>1, <2>4
    <3> HIDE DEF row, D, byRow, last, ids, wanted
    <3>2. table = {row[last(t)] : t \in wanted}
      BY <2>5, <3>1
    <3> QED BY <3>2 DEF wanted
  <2>7. ASSUME NEW t \in {FailureAt(c, x) : x \in D} PROVE row[last(t)] = expected(t)
    <3>1. PICK r \in table : r.id = t
      BY <1>2, <2>2 DEF LastRows
    <3>2. PICK x \in D : r = row[x] /\ \A y \in D \ {x} : row[y].id = r.id => Before(y, x)
      BY <1>2 DEF LastRows
    <3> DEFINE S == {y \in D : FailureAt(c, y) = t}
               IsTheLast(z) == z \in S /\ \A y \in S \ {z} : Before(y, z)
    <3>3. IsTheLast(x)
      BY <2>2, <3>1, <3>2
    <3>4. \E z : IsTheLast(z)
      BY <3>3
    <3>5. IsTheLast(last(t))
      <4>1. last(t) = CHOOSE z \in S : \A y \in S \ {z} : Before(y, z)
        BY DEF LastOf
      <4> QED BY <3>4, <4>1
    <3>6. last(t) \in D /\ FailureAt(c, last(t)) = t
      BY <3>5
    <3> HIDE DEF last
    <3> QED BY <3>6 DEF OccurrenceRows
  <2> HIDE DEF last, expected, row
  <2>8. table = {expected(t) : t \in {FailureAt(c, x) : x \in D}}
    BY <2>6, <2>7
  <2> QED BY <2>8 DEF ExpectedFailures, expected, last
<1> QED BY <1>1, <1>2

(***************************************************************************)
(* How far a step of the pass moves the cursor.                            *)
(***************************************************************************)
Done == <<OpenedFiles, DoneCases, DoneOccurrences, DoneOrphans>>

\* Enough to compare the positions done before and after a step.
LEMMA DoneByPosition ==
    ASSUME scan' = scan
    PROVE  /\ (\A p \in IndexedFiles(scan) : (Past(p) \/ Here(p))' <=> Past(p) \/ Here(p))
                 => OpenedFiles' = OpenedFiles
           /\ (\A x \in CasesOf(scan) : CaseDone(x)' <=> CaseDone(x)) => DoneCases' = DoneCases
           /\ (\A x \in OccurrencesOf(scan) : OccurrenceDone(x)' <=> OccurrenceDone(x))
                 => DoneOccurrences' = DoneOccurrences
           /\ (\A v \in OrphanCoverage(scan) : OrphanDone(v)' <=> OrphanDone(v))
                 => DoneOrphans' = DoneOrphans
BY DEF OpenedFiles, DoneCases, DoneOccurrences, DoneOrphans

LEMMA OrphanTyped ==
    ASSUME NEW c \in Corpora, NEW v \in OrphanCoverage(c)
    PROVE  /\ v \in Nat \ {0} /\ v \in DOMAIN c.coverage
           /\ "coverage" \in Adapters /\ c.coverage[v].body = "ok"
<1>1. v \in DOMAIN c.coverage /\ "coverage" \in Adapters /\ c.coverage[v].body = "ok"
  BY Zenon DEF OrphanCoverage
<1>2. c.coverage \in Seq(CoverageFiles)
  BY CaseTyped
<1> QED BY <1>1, <1>2

LEMMA BetweenFiles ==
    ASSUME TypeOK, HandlerInv, Connect \/ NextPhase \/ SkipFile
    PROVE  scan' = scan /\ Done' = Done
<1>1. /\ scan' = scan /\ scan \in Corpora /\ pos \in Nat \ {0}
  BY DEF Connect, NextPhase, SkipFile, TypeOK
<1>2. /\ \A p \in IndexedFiles(scan) :
            p \in Nat \ {0} /\ p \in DOMAIN scan.results /\ Indexed(scan.results[p])
      /\ \A x \in CasesOf(scan) : x[1] \in IndexedFiles(scan) /\ x[1] \in Nat
      /\ \A x \in OccurrencesOf(scan) : x[1] \in IndexedFiles(scan) /\ x[1] \in Nat
  BY <1>1, CaseTyped, CasesOrdered, OccurrencesOrdered DEF IndexedFiles
<1>3. \A v \in OrphanCoverage(scan) :
         /\ v \in Nat \ {0} /\ v \in DOMAIN scan.coverage
         /\ "coverage" \in Adapters /\ scan.coverage[v].body = "ok"
  BY <1>1, OrphanTyped
<1>4. ASSUME NEW p \in IndexedFiles(scan)
      PROVE  /\ Past(p)' <=> Past(p)
             /\ ~Here(p)' /\ ~Here(p)
  <2>1. CASE Connect
    BY <1>2, <2>1 DEF Connect, Open, Goto, Past, Here
  <2>2. CASE NextPhase
    <3>1. phase' = PhaseAfter[phase] /\ phase \in Phases /\ stage = "open" /\ stage' = "open" /\ pos' = 1
          /\ pos \notin DOMAIN Work(phase)
      BY <2>2 DEF NextPhase, Open, Goto
    <3>2. phase' \notin {"connect", "results"}
      BY <3>1 DEF PhaseAfter, Phases
    <3>3. phase = "results" => p < pos
      <4>1. phase = "results" => pos \notin DOMAIN scan.results
        BY <3>1 DEF Work
      <4>2. scan.results \in Seq(ResultFiles)
        BY <1>1, CaseTyped
      <4> QED BY <1>1, <1>2, <4>1, <4>2
    <3> QED BY <3>1, <3>2, <3>3 DEF Past, Here, Phases
  <2>3. CASE SkipFile
    <3>1. /\ phase' = phase /\ phase \in Phases /\ stage = "open" /\ stage' = "open" /\ pos' = pos + 1
          /\ ~Handled
      BY <2>3 DEF SkipFile, NextFile, Open, Goto, Opening
    <3>2. phase = "results" => p # pos
      BY <1>2, <3>1 DEF Handled, File, Work, Indexed
    <3> QED BY <1>1, <1>2, <3>1, <3>2 DEF Past, Here, Phases
  <2> QED BY <2>1, <2>2, <2>3
<1>5. ASSUME NEW v \in OrphanCoverage(scan) PROVE OrphanDone(v)' <=> OrphanDone(v)
  <2>1. CASE Connect
    BY <2>1 DEF Connect, Open, Goto, OrphanDone
  <2>2. CASE NextPhase
    <3>1. phase' = PhaseAfter[phase] /\ phase \in Phases /\ stage = "open" /\ stage' = "open" /\ pos' = 1
          /\ pos \notin DOMAIN Work(phase)
      BY <2>2 DEF NextPhase, Open, Goto
    <3>2. phase = "coverage" => v < pos
      <4>1. phase = "coverage" => pos \notin DOMAIN scan.coverage
        BY <1>3, <3>1 DEF Work
      <4>2. scan.coverage \in Seq(CoverageFiles)
        BY <1>1, CaseTyped
      <4> QED BY <1>1, <1>3, <4>1, <4>2
    <3> QED BY <1>3, <3>1, <3>2 DEF OrphanDone, PhaseAfter, Phases
  <2>3. CASE SkipFile
    <3>1. /\ phase' = phase /\ phase \in Phases /\ stage = "open" /\ stage' = "open" /\ pos' = pos + 1
          /\ ~Handled
      BY <2>3 DEF SkipFile, NextFile, Open, Goto, Opening
    <3>2. phase = "coverage" => v # pos
      BY <1>3, <3>1 DEF Handled, File, Work
    <3> QED BY <1>1, <1>3, <3>1, <3>2 DEF OrphanDone, Phases
  <2> QED BY <2>1, <2>2, <2>3
<1> QED BY <1>1, <1>2, <1>4, <1>5, DoneByPosition DEF Done, CaseDone, OccurrenceDone

\* In the later phases every results file is done.
LEMMA LaterPhases ==
    ASSUME TypeOK, HandlerInv, Correlate
    PROVE  /\ scan' = scan /\ UNCHANGED <<OpenedFiles, DoneCases, DoneOccurrences>>
           /\ ~IndexCoverageArtifact => DoneOrphans' = DoneOrphans
           /\ \A p : Past(p) /\ Past(p)' /\ ~Here(p) /\ ~Here(p)'
<1>1. /\ scan' = scan /\ phase' = phase /\ scan \in Corpora /\ pos \in Nat
      /\ phase \in {"waves", "assertions", "log_assertions", "coverage", "sva"}
  <2>1. CASE \/ IndexWaveformSummary \/ IndexAssertionArtifact \/ IndexLogAssertions
             \/ IndexCoverageArtifact \/ InsertCoverageSummary \/ InsertCoverageEvidence
             \/ IndexSvaStatusArtifact \/ InsertSvaRunStatus \/ EndSva
    BY <2>1 DEF IndexWaveformSummary, IndexAssertionArtifact, IndexLogAssertions, ResolveBundle,
                IndexCoverageArtifact, InsertCoverageSummary, InsertCoverageEvidence,
                IndexSvaStatusArtifact, InsertSvaRunStatus, EndSva, Opening, At, Stay, NextFile,
                Open, Goto, TypeOK
  <2>2. CASE \/ InsertAssertion \/ InsertUnknownAssertion
             \/ InsertAssertionFailure \/ InsertAssertionEvidence \/ EndBundle
    <3>1. stage \in {"bundle", "event", "event_evidence"}
      BY <2>2 DEF InsertAssertion, InsertUnknownAssertion, InsertAssertionFailure,
                  InsertAssertionEvidence, EndBundle
    <3>2. phase \in {"assertions", "log_assertions"}
      BY <3>1 DEF TypeOK, StagesOf, Phases
    <3> QED BY <2>2, <3>2 DEF InsertAssertion, InsertUnknownAssertion, InsertAssertionFailure,
                  InsertAssertionEvidence, EndBundle, Stay, NextFile, Open, Goto, TypeOK
  <2> QED BY <2>1, <2>2 DEF Correlate
<1>2. \A p : Past(p) /\ Past(p)' /\ ~Here(p) /\ ~Here(p)'
  BY <1>1 DEF Past, Here
<1>3. UNCHANGED <<OpenedFiles, DoneCases, DoneOccurrences>>
  BY <1>1, <1>2, DoneByPosition DEF CaseDone, OccurrenceDone
<1>4. ASSUME ~IndexCoverageArtifact, NEW v \in OrphanCoverage(scan)
      PROVE  OrphanDone(v)' <=> OrphanDone(v)
  <2>1. v \in Nat
    BY <1>1, OrphanTyped
  <2>2. CASE phase = "coverage"
    <3>1. InsertCoverageSummary \/ InsertCoverageEvidence
      BY <1>4, <2>2 DEF Correlate, IndexWaveformSummary, IndexAssertionArtifact, IndexLogAssertions,
         InsertAssertion, InsertUnknownAssertion, InsertAssertionFailure, InsertAssertionEvidence,
         EndBundle, IndexSvaStatusArtifact, InsertSvaRunStatus, EndSva, Opening, At, TypeOK, StagesOf
    <3> QED BY <1>1, <2>1, <3>1 DEF InsertCoverageSummary, InsertCoverageEvidence, At, Stay, NextFile,
                                   Open, Goto, OrphanDone
  <2>3. CASE phase # "coverage"
    BY <1>1, <2>3 DEF OrphanDone
  <2> QED BY <2>2, <2>3
<1> QED BY <1>1, <1>2, <1>3, <1>4, DoneByPosition

\* The occurrences and the cursor of a results file that a handler is in.
LEMMA InFile ==
    ASSUME TypeOK, HandlerInv, phase = "results", stage # "open"
    PROVE  /\ scan \in Corpora /\ pos \in IndexedFiles(scan) /\ pos \in Nat /\ item \in Nat
           /\ File = scan.results[pos] /\ File \in ResultFiles
           /\ <<pos, item>> \in CasesOf(scan) /\ item \in DOMAIN File.cases
           /\ left \subseteq FailuresOf(File, item)
           /\ \A k \in FailuresOf(File, item) : k \in Nat /\ <<pos, item, k>> \in OccurrencesOf(scan)
<1>1. pos \in DOMAIN Work(phase) /\ InResultsFile /\ scan \in Corpora /\ pos \in Nat /\ item \in Nat
  BY DEF HandlerInv, TypeOK
<1>2. /\ File = scan.results[pos] /\ pos \in DOMAIN scan.results
      /\ Indexed(File) /\ item \in DOMAIN File.cases /\ left \subseteq FailuresOf(File, item)
  BY <1>1 DEF File, Work, InResultsFile
<1>3. <<pos, item>> \in CasesOf(scan)
  BY <1>1, <1>2, CaseTyped
<1>4. ASSUME NEW k \in FailuresOf(File, item)
      PROVE  k \in Nat /\ <<pos, item, k>> \in OccurrencesOf(scan)
  BY <1>1, <1>2, <1>3, <1>4, CaseTyped DEF FailuresOf
<1> QED BY <1>1, <1>2, <1>3, <1>4, CaseTyped DEF IndexedFiles

LEMMA LeastIsOne ==
    ASSUME NEW S, S \subseteq Nat, NEW k \in Least(S)
    PROVE  Least(S) = {k} /\ k \in S /\ \A l \in S : k <= l
<1>1. k \in S /\ \A l \in S : k <= l
  BY DEF Least
<1>2. ASSUME NEW l \in Least(S) PROVE l = k
  <2>1. l \in S /\ l <= k
    BY <1>1, <1>2 DEF Least
  <2>2. k <= l /\ k \in Nat /\ l \in Nat
    BY <1>1, <2>1
  <2> QED BY <2>1, <2>2
<1> QED BY <1>1, <1>2

LEMMA OrderKept ==
    ASSUME TypeOK, HandlerInv, InOrder, [Next]_vars
    PROVE  InOrder'
<1> SUFFICES ASSUME phase' = "results", stage' \notin {"open", "test"}
             PROVE  \A j \in FailuresOf(File', item') \ left', k \in left' : j < k
  BY DEF InOrder
<1>1. \/ UNCHANGED <<scan, cursor, tables>>
      \/ \/ InsertTest \/ InsertTopology \/ InsertFailure
         \/ DeleteEvidence \/ InsertEvidence \/ EndFailure
  <2>1. \/ UNCHANGED <<scan, cursor, tables>>
        \/ IndexResults
    BY Steps DEF Leaves, Correlates, IndexAssertionArtifact, IndexLogAssertions, ResolveBundle,
       IndexCoverageArtifact, IndexSvaStatusArtifact, Opening, Goto
  <2> QED BY <2>1 DEF IndexResults, IndexUvmLog, IndexCocotbXml, OpenResults, EndTest, Stay,
                      NextFile, Open, Goto
<1>2. CASE UNCHANGED <<scan, cursor, tables>>
  BY <1>2, SameFile DEF cursor, InOrder
<1>3. CASE \/ InsertTest \/ InsertTopology \/ InsertFailure
           \/ DeleteEvidence \/ InsertEvidence \/ EndFailure
  <2>1. /\ UNCHANGED <<scan, phase, pos, item>> /\ phase = "results" /\ stage # "open"
        /\ InsertTest => left' = FailuresOf(File, item)
        /\ ~InsertTest => /\ stage # "test"
                          /\ left' = left \/ \E k \in Least(left) : left' = left \ {k}
    BY <1>3 DEF InsertTest, InsertTopology, InsertFailure, DeleteEvidence, InsertEvidence,
                EndFailure, At, Stay, Goto
  <2>2. File' = File
    BY <2>1, SameFile
  <2>3. CASE InsertTest
    BY <2>1, <2>2, <2>3
  <2>4. CASE left' = left /\ ~InsertTest
    BY <2>1, <2>2, <2>4 DEF InOrder
  <2>5. ASSUME NEW l \in Least(left), left' = left \ {l}, ~InsertTest,
               NEW j \in FailuresOf(File, item) \ left', NEW k \in left'
        PROVE  j < k
    <3>1. /\ left \subseteq Nat /\ k \in left /\ l \in left /\ l # k
      BY <2>5 DEF TypeOK, Least
    <3>2. l <= k /\ l \in Nat /\ k \in Nat
      BY <3>1, LeastIsOne
    <3>3. j \notin left => j < k
      BY <2>1, <2>5, <3>1 DEF InOrder
    <3>4. j \in left => j = l
      BY <2>5
    <3> QED BY <3>1, <3>2, <3>3, <3>4
  <2> QED BY <2>1, <2>2, <2>3, <2>4, <2>5
<1> QED BY <1>1, <1>2, <1>3

LEMMA ResultsOpened ==
    ASSUME TypeOK, HandlerInv, IndexUvmLog \/ IndexCocotbXml
    PROVE  /\ scan' = scan /\ phase = "results" /\ phase' = "results"
           /\ UNCHANGED <<DoneCases, DoneOccurrences, DoneOrphans>>
           /\ OpenedFiles' = OpenedFiles \cup {pos}
           /\ pos \in IndexedFiles(scan) /\ File = scan.results[pos] /\ File \in ResultFiles
<1>1. /\ scan' = scan /\ phase = "results" /\ phase' = "results" /\ pos' = pos
      /\ stage = "open" /\ stage' = "test" /\ item' = 1 /\ scan \in Corpora
      /\ pos \in DOMAIN Work("results") /\ Indexed(File) /\ pos \in Nat
  BY DEF IndexUvmLog, IndexCocotbXml, OpenResults, Opening, Stay, Goto, TypeOK
<1>2. /\ pos \in IndexedFiles(scan) /\ File = scan.results[pos] /\ File \in ResultFiles
  BY <1>1, CurrentFile DEF File, Work, IndexedFiles
<1>3. \A p \in IndexedFiles(scan) : p \in Nat
  BY <1>1, CaseTyped DEF IndexedFiles
<1>4. OpenedFiles' = OpenedFiles \cup {pos}
  BY <1>1, <1>2, <1>3 DEF OpenedFiles, Past, Here
<1>5. \A x \in CasesOf(scan) : x[2] \in Nat /\ ~(x[2] < 1)
  <2>1. \A x \in CasesOf(scan) : \E p \in DOMAIN scan.results : x[2] \in DOMAIN scan.results[p].cases
    BY <1>1, CasesOrdered
  <2>2. \A p \in DOMAIN scan.results : scan.results[p].cases \in Seq(Testcases)
    BY <1>1, CaseTyped DEF ResultFiles
  <2> QED BY <2>1, <2>2
<1>6. \A x \in OccurrencesOf(scan) : x[2] \in Nat /\ ~(x[2] < 1)
  <2>1. \A x \in OccurrencesOf(scan) :
            \E p \in DOMAIN scan.results : x[2] \in DOMAIN scan.results[p].cases
    BY <1>1, OccurrencesOrdered
  <2>2. \A p \in DOMAIN scan.results : scan.results[p].cases \in Seq(Testcases)
    BY <1>1, CaseTyped DEF ResultFiles
  <2> QED BY <2>1, <2>2
<1>7. \A x \in CasesOf(scan) : CaseDone(x)' <=> CaseDone(x)
  BY <1>1, <1>5 DEF CaseDone, Past, Here
<1>8. \A x \in OccurrencesOf(scan) : OccurrenceDone(x)' <=> OccurrenceDone(x)
  BY <1>1, <1>6 DEF OccurrenceDone, Past, Here
<1>9. \A v : OrphanDone(v)' <=> OrphanDone(v)
  BY <1>1 DEF OrphanDone
<1> QED BY <1>1, <1>2, <1>4, <1>7, <1>8, <1>9, DoneByPosition

\* Storing a testcase, or a failure, is the one step that brings it among those done.
LEMMA ResultsStored ==
    ASSUME TypeOK, HandlerInv, InOrder, InsertTest \/ InsertTopology \/ InsertFailure
    PROVE  /\ scan' = scan /\ phase = "results" /\ phase' = "results" /\ stage # "open"
           /\ UNCHANGED <<OpenedFiles, DoneOrphans>>
           /\ InsertTest =>
                 /\ DoneCases' = DoneCases \cup {<<pos, item>>}
                 /\ \A x \in DoneCases : Before(x, <<pos, item>>) /\ ~Before(<<pos, item>>, x)
           /\ ~InsertTest => DoneCases' = DoneCases
           /\ InsertFailure => \A k \in Least(left) :
                 /\ DoneOccurrences' = DoneOccurrences \cup {<<pos, item, k>>}
                 /\ \A x \in DoneOccurrences :
                       Before(x, <<pos, item, k>>) /\ ~Before(<<pos, item, k>>, x)
           /\ ~InsertFailure => DoneOccurrences' = DoneOccurrences
<1>1. /\ scan' = scan /\ phase = "results" /\ phase' = "results" /\ pos' = pos /\ item' = item
      /\ stage \in {"test", "topology", "failure"} /\ stage' \in {"topology", "failure", "purge"}
      /\ InsertTest => stage = "test" /\ left' = FailuresOf(File, item) /\ stage' # "purge"
      /\ InsertTopology => stage = "topology" /\ stage' = "failure" /\ left' = left
      /\ InsertFailure => stage = "failure" /\ stage' = "purge" /\ left' = left
  BY DEF InsertTest, InsertTopology, InsertFailure, At, Stay, Goto
<1>2. /\ scan \in Corpora /\ pos \in Nat /\ item \in Nat /\ File = scan.results[pos]
      /\ <<pos, item>> \in CasesOf(scan) /\ left \subseteq FailuresOf(File, item)
      /\ \A k \in FailuresOf(File, item) : k \in Nat /\ <<pos, item, k>> \in OccurrencesOf(scan)
  BY <1>1, InFile
<1>3. /\ \A p : (Past(p) \/ Here(p))' <=> Past(p) \/ Here(p)
      /\ \A v : OrphanDone(v)' <=> OrphanDone(v)
  BY <1>1 DEF Past, Here, OrphanDone
<1>4. \A x \in CasesOf(scan) : x[1] \in Nat /\ x[2] \in Nat /\ x = <<x[1], x[2]>>
  BY <1>2, CasesOrdered
<1>5. \A x \in OccurrencesOf(scan) :
         /\ x[1] \in Nat /\ x[2] \in Nat /\ x[3] \in Nat /\ x = <<x[1], x[2], x[3]>>
         /\ x[3] \in FailuresOf(scan.results[x[1]], x[2])
  BY <1>2, OccurrencesOrdered
<1>6. ASSUME InsertTest
      PROVE  /\ DoneCases' = DoneCases \cup {<<pos, item>>}
             /\ \A x \in DoneCases : Before(x, <<pos, item>>) /\ ~Before(<<pos, item>>, x)
             /\ \A x \in OccurrencesOf(scan) : OccurrenceDone(x)' <=> OccurrenceDone(x)
  <2>1. \A x \in CasesOf(scan) : CaseDone(x)' <=> CaseDone(x) \/ (x[1] = pos /\ x[2] = item)
    BY <1>1, <1>2, <1>4, <1>6 DEF CaseDone, Past, Here
  <2>2. \A x \in CasesOf(scan) : (x[1] = pos /\ x[2] = item) <=> x = <<pos, item>>
    BY <1>4
  <2>3. DoneCases' = DoneCases \cup {<<pos, item>>}
    BY <1>1, <1>2, <2>1, <2>2 DEF DoneCases
  <2>4. ASSUME NEW x \in DoneCases PROVE Before(x, <<pos, item>>) /\ ~Before(<<pos, item>>, x)
    <3>1. x \in CasesOf(scan) /\ (x[1] < pos \/ (x[1] = pos /\ x[2] < item))
      BY <1>1, <1>4, <1>6 DEF DoneCases, CaseDone, Past, Here
    <3>2. PICK p \in Nat, i \in Nat : x = <<p, i>> /\ (p < pos \/ (p = pos /\ i < item))
      BY <1>4, <3>1
    <3> QED BY <1>2, <3>2, PairBefore
  <2>5. \A x \in OccurrencesOf(scan) : OccurrenceDone(x)' <=> OccurrenceDone(x)
    BY <1>1, <1>2, <1>5, <1>6 DEF OccurrenceDone, Past, Here, InEvidence
  <2> QED BY <2>3, <2>4, <2>5
<1>7. ASSUME InsertTopology \/ InsertFailure
      PROVE  \A x : CaseDone(x)' <=> CaseDone(x)
  BY <1>1, <1>7 DEF CaseDone, Past, Here
<1>8. ASSUME InsertTopology
      PROVE  \A x : OccurrenceDone(x)' <=> OccurrenceDone(x)
  BY <1>1, <1>8 DEF OccurrenceDone, Past, Here, InEvidence
<1>9. ASSUME InsertFailure, NEW k \in Least(left)
      PROVE  /\ DoneOccurrences' = DoneOccurrences \cup {<<pos, item, k>>}
             /\ \A x \in DoneOccurrences :
                   Before(x, <<pos, item, k>>) /\ ~Before(<<pos, item, k>>, x)
  <2>1. /\ k \in left /\ \A l \in left : k <= l
        /\ k \in FailuresOf(File, item) /\ k \in Nat /\ Least(left) = {k} /\ left \subseteq Nat
    <3>1. left \subseteq Nat
      BY <1>2
    <3> QED BY <1>2, <3>1, LeastIsOne
  <2>2. \A x \in OccurrencesOf(scan) :
           OccurrenceDone(x)' <=> OccurrenceDone(x) \/ (x[1] = pos /\ x[2] = item /\ x[3] = k)
    BY <1>1, <1>2, <1>5, <1>9, <2>1 DEF OccurrenceDone, Past, Here, InEvidence
  <2>3. \A x \in OccurrencesOf(scan) :
           (x[1] = pos /\ x[2] = item /\ x[3] = k) <=> x = <<pos, item, k>>
    BY <1>5
  <2>4. DoneOccurrences' = DoneOccurrences \cup {<<pos, item, k>>}
    BY <1>1, <1>2, <2>1, <2>2, <2>3 DEF DoneOccurrences
  <2>5. ASSUME NEW x \in DoneOccurrences
        PROVE  Before(x, <<pos, item, k>>) /\ ~Before(<<pos, item, k>>, x)
    <3>1. /\ x \in OccurrencesOf(scan)
          /\ \/ x[1] < pos \/ (x[1] = pos /\ x[2] < item)
             \/ (x[1] = pos /\ x[2] = item /\ x[3] \notin left)
      BY <1>1, <1>5, <1>9 DEF DoneOccurrences, OccurrenceDone, Past, Here, InEvidence
    <3>2. x[1] = pos /\ x[2] = item /\ x[3] \notin left => x[3] < k
      BY <1>1, <1>2, <1>5, <1>9, <2>1, <3>1 DEF InOrder
    <3>3. PICK p \in Nat, i \in Nat, l \in Nat :
             /\ x = <<p, i, l>>
             /\ p < pos \/ (p = pos /\ i < item) \/ (p = pos /\ i = item /\ l < k)
      BY <1>5, <3>1, <3>2
    <3> QED BY <1>2, <2>1, <3>3, TripleBefore
  <2> QED BY <2>4, <2>5
<1> QED BY <1>1, <1>3, <1>6, <1>7, <1>8, <1>9, DoneByPosition

\* The other steps inside a results file.
LEMMA ResultsKept ==
    ASSUME TypeOK, HandlerInv, DeleteEvidence \/ InsertEvidence \/ EndFailure \/ EndTest
    PROVE  /\ scan' = scan /\ phase = "results" /\ phase' = "results" /\ stage # "open"
           /\ Done' = Done
<1>1. /\ scan' = scan /\ phase = "results" /\ phase' = "results"
      /\ stage \in {"purge", "evidence", "failure"}
  BY DEF DeleteEvidence, InsertEvidence, EndFailure, EndTest, At, Stay, NextFile, Open, Goto
<1>2. /\ scan \in Corpora /\ pos \in Nat /\ item \in Nat /\ File = scan.results[pos]
      /\ File \in ResultFiles /\ item \in DOMAIN File.cases /\ left \subseteq Nat
  BY <1>1, InFile DEF TypeOK
<1>3. \A v : OrphanDone(v)' <=> OrphanDone(v)
  BY <1>1 DEF OrphanDone
<1>4. CASE DeleteEvidence \/ InsertEvidence \/ EndFailure
  <2>1. /\ pos' = pos /\ item' = item /\ stage' # "open" /\ stage \in {"purge", "evidence"}
        /\ EndFailure \/ (left' = left /\ stage' = "evidence")
    BY <1>4 DEF DeleteEvidence, InsertEvidence, EndFailure, At, Stay, Goto
  <2>2. EndFailure => \E k \in Least(left) : left' = left \ {k} /\ stage' = "failure"
    BY DEF EndFailure, Stay, Goto
  <2>3. \A k \in Least(left) : Least(left) = {k}
    BY <1>2, LeastIsOne
  <2>4. /\ \A p : (Past(p) \/ Here(p))' <=> Past(p) \/ Here(p)
        /\ \A x : CaseDone(x)' <=> CaseDone(x)
    BY <1>1, <2>1, <2>2 DEF Past, Here, CaseDone
  <2>5. \A x : OccurrenceDone(x)' <=> OccurrenceDone(x)
    <3>1. CASE EndFailure
      BY <1>1, <2>1, <2>2, <2>3, <3>1 DEF OccurrenceDone, Past, Here, InEvidence
    <3>2. CASE ~EndFailure
      BY <1>1, <2>1, <3>2 DEF OccurrenceDone, Past, Here, InEvidence
    <3> QED BY <3>1, <3>2
  <2> QED BY <1>1, <1>3, <2>4, <2>5, DoneByPosition DEF Done
<1>5. CASE EndTest
  <2>1. stage = "failure" /\ left = {}
    BY <1>5 DEF EndTest, At
  <2>2. /\ \A x \in CasesOf(scan) :
              /\ x[1] \in IndexedFiles(scan) /\ x[2] \in Nat
              /\ x[1] = pos => x[2] \in DOMAIN File.cases
        /\ \A x \in OccurrencesOf(scan) :
              /\ x[1] \in IndexedFiles(scan) /\ x[2] \in Nat
              /\ x[1] = pos => x[2] \in DOMAIN File.cases
        /\ \A p \in IndexedFiles(scan) : p \in Nat
    BY <1>2, CaseTyped, CasesOrdered, OccurrencesOrdered DEF IndexedFiles
  <2>3. CASE item < Len(File.cases)
    <3>1. pos' = pos /\ item' = item + 1 /\ stage' = "test"
      BY <1>5, <2>3 DEF EndTest, Stay, Goto
    <3>2. \A p : (Past(p) \/ Here(p))' <=> Past(p) \/ Here(p)
      BY <1>1, <2>1, <3>1 DEF Past, Here
    <3>3. \A x \in CasesOf(scan) : CaseDone(x)' <=> CaseDone(x)
      BY <1>1, <1>2, <2>1, <2>2, <3>1 DEF CaseDone, Past, Here
    <3>4. \A x \in OccurrencesOf(scan) : OccurrenceDone(x)' <=> OccurrenceDone(x)
      BY <1>1, <1>2, <2>1, <2>2, <3>1 DEF OccurrenceDone, Past, Here, InEvidence
    <3> QED BY <1>1, <1>3, <3>2, <3>3, <3>4, DoneByPosition DEF Done
  <2>4. CASE ~(item < Len(File.cases))
    <3>1. pos' = pos + 1 /\ stage' = "open"
      BY <1>5, <2>4 DEF EndTest, NextFile, Open, Goto
    <3>2. item = Len(File.cases) /\ \A i \in DOMAIN File.cases : i <= item
      <4>1. File.cases \in Seq(Testcases)
        BY <1>2 DEF ResultFiles
      <4> QED BY <1>2, <2>4, <4>1
    <3>3. \A p \in IndexedFiles(scan) : (Past(p) \/ Here(p))' <=> Past(p) \/ Here(p)
      BY <1>1, <1>2, <2>1, <2>2, <3>1 DEF Past, Here
    <3>4. \A x \in CasesOf(scan) : CaseDone(x)' <=> CaseDone(x)
      BY <1>1, <1>2, <2>1, <2>2, <3>1, <3>2 DEF CaseDone, Past, Here
    <3>5. \A x \in OccurrencesOf(scan) : OccurrenceDone(x)' <=> OccurrenceDone(x)
      BY <1>1, <1>2, <2>1, <2>2, <3>1, <3>2 DEF OccurrenceDone, Past, Here, InEvidence
    <3> QED BY <1>1, <1>3, <3>3, <3>4, <3>5, DoneByPosition DEF Done
  <2> QED BY <2>3, <2>4
<1> QED BY <1>1, <1>4, <1>5

(***************************************************************************)
(* What a step writes is what those positions mean.                        *)
(***************************************************************************)
LEMMA TestStored ==
    ASSUME TypeOK, HandlerInv, InOrder, LastRows(tests, CaseRows(scan), DoneCases), InsertTest
    PROVE  LastRows(tests', CaseRows(scan), DoneCases')
<1> DEFINE n == <<pos, item>>
           row == [id |-> TestIdOf(File, item), status |-> CaseStatus(File, item),
                   seed |-> File.cases[item].seed, at |-> pos]
<1>1. phase = "results" /\ stage # "open" /\ tests' = Upsert(tests, row)
  BY DEF InsertTest, At
<1>2. n \in CasesOf(scan) /\ File = scan.results[pos] /\ n[1] = pos /\ n[2] = item
  BY <1>1, InFile
<1>3. CaseRows(scan)[n] = row
  <2> HIDE DEF n
  <2> QED BY <1>2 DEF CaseRows, TestAt
<1>4. DoneCases' = DoneCases \cup {n} /\ \A x \in DoneCases : Before(x, n) /\ ~Before(n, x)
  BY ResultsStored
<1> HIDE DEF n, row
<1>5. LastRows(Upsert(tests, CaseRows(scan)[n]), CaseRows(scan), DoneCases \cup {n})
  BY <1>4, LastRowsGrow
<1> QED BY <1>1, <1>3, <1>4, <1>5

LEMMA FailureStored ==
    ASSUME TypeOK, HandlerInv, InOrder, LastRows(failures, OccurrenceRows(scan), DoneOccurrences),
           InsertFailure
    PROVE  LastRows(failures', OccurrenceRows(scan), DoneOccurrences')
<1>1. PICK k \in Least(left) :
         failures' = Upsert(failures, [id |-> FailureIdAt(k), run |-> RunOf(File),
                                       occ |-> File.fails[k].occ])
  BY DEF InsertFailure
<1> DEFINE n == <<pos, item, k>>
           row == [id |-> FailureIdAt(k), run |-> RunOf(File), occ |-> File.fails[k].occ]
<1>2. phase = "results" /\ stage # "open" /\ failures' = Upsert(failures, row)
  BY <1>1 DEF InsertFailure, At
<1>3. /\ File = scan.results[pos] /\ File \in ResultFiles /\ item \in DOMAIN File.cases
      /\ k \in FailuresOf(File, item) /\ n \in OccurrencesOf(scan)
      /\ n[1] = pos /\ n[2] = item /\ n[3] = k
  <2>1. k \in left
    BY DEF Least
  <2> QED BY <1>2, <2>1, InFile
<1>4. FailureIdAt(k) = FailureAt(scan, n) /\ FailureAt(scan, n).test.run = RunOf(File)
  <2>1. FailureIdAt(k).test = TestIdOf(File, item) /\ TestIdOf(File, item).run = RunOf(File)
    BY <1>3, FailureTyped, TestIdTyped DEF FailureIdAt
  <2> HIDE DEF n
  <2> QED BY <1>3, <2>1 DEF FailureAt, TestAt, FailureIdAt
<1>5. OccurrenceRows(scan)[n] = row
  <2> HIDE DEF n
  <2> QED BY <1>3, <1>4 DEF OccurrenceRows
<1>6. /\ DoneOccurrences' = DoneOccurrences \cup {n}
      /\ \A x \in DoneOccurrences : Before(x, n) /\ ~Before(n, x)
  BY ResultsStored
<1> HIDE DEF n, row
<1>7. LastRows(Upsert(failures, OccurrenceRows(scan)[n]), OccurrenceRows(scan), DoneOccurrences \cup {n})
  BY <1>6, LastRowsGrow
<1> QED BY <1>2, <1>5, <1>6, <1>7

\* The row _upsert_run leaves is failed exactly if this file fails or an earlier one did.
LEMMA UpsertRunExact ==
    ASSUME runs \subseteq RunRows, UniqueRuns, NEW id \in RunIds, NEW st \in Statuses,
           UpsertRun(id, st)
    PROVE  /\ Ids(runs)' = Ids(runs) \cup {id}
           /\ \A s \in runs' :
                 s.status = "fail" <=> \/ s.id = id /\ st = "fail"
                                       \/ \E r \in runs : r.id = s.id /\ r.status = "fail"
           /\ \A s \in runs' : s.id # id => s \in runs
<1> DEFINE new == [id |-> id, status |-> IF \E r \in RowsWith(runs, id) : r.status = "fail"
                                        THEN "fail" ELSE st]
<1>1. runs' = {r \in runs : r.id # id} \cup {new} /\ new.id = id
  BY DEF UpsertRun, Upsert
<1>2. new.status = "fail" <=> st = "fail" \/ \E r \in runs : r.id = id /\ r.status = "fail"
  BY DEF RowsWith
<1> HIDE DEF new
<1>3. Ids(runs)' = Ids(runs) \cup {id}
  BY <1>1 DEF Ids
<1>4. \A s \in runs' : s = new \/ (s \in runs /\ s.id # id)
  BY <1>1
<1>5. ASSUME NEW s \in runs'
      PROVE  s.status = "fail" <=> \/ s.id = id /\ st = "fail"
                                   \/ \E r \in runs : r.id = s.id /\ r.status = "fail"
  <2>1. CASE s = new
    BY <1>1, <1>2, <2>1
  <2>2. CASE s \in runs /\ s.id # id
    <3>1. s.status = "fail" => \E r \in runs : r.id = s.id /\ r.status = "fail"
      BY <2>2
    <3>2. \A r \in runs : r.id = s.id => r = s
      BY <2>2 DEF UniqueRuns
    <3> QED BY <2>2, <3>1, <3>2
  <2> QED BY <1>4, <2>1, <2>2
<1> QED BY <1>1, <1>3, <1>4, <1>5

LEMMA RunOpened ==
    ASSUME TypeOK, HandlerInv, RunsAre, IndexUvmLog \/ IndexCocotbXml
    PROVE  RunsAre'
<1>1. /\ scan' = scan /\ DoneOrphans' = DoneOrphans /\ OpenedFiles' = OpenedFiles \cup {pos}
      /\ File = scan.results[pos] /\ File \in ResultFiles
  BY ResultsOpened
<1>2. UpsertRun(RunOf(File), FileStatus(File))
  BY DEF IndexUvmLog, IndexCocotbXml, OpenResults
<1>3. /\ runs \subseteq RunRows /\ UniqueRuns /\ RunOf(File) \in RunIds /\ FileStatus(File) \in Statuses
      /\ FileStatus(File) = "fail" <=> RunFails(File)
  BY <1>1, RunOfTyped, StatusTyped DEF TypeOK, HandlerInv, UniqueRuns, FileStatus
<1>4. /\ Ids(runs)' = Ids(runs) \cup {RunOf(File)}
      /\ \A s \in runs' :
            s.status = "fail" <=> \/ s.id = RunOf(File) /\ RunFails(File)
                                  \/ \E r \in runs : r.id = s.id /\ r.status = "fail"
  BY <1>2, <1>3, UpsertRunExact
<1>5. /\ {RunOf(scan.results[p]) : p \in OpenedFiles'}
            = {RunOf(scan.results[p]) : p \in OpenedFiles} \cup {RunOf(File)}
      /\ \A id : (\E p \in OpenedFiles' : RunOf(scan.results[p]) = id /\ RunFails(scan.results[p]))
            <=> \/ id = RunOf(File) /\ RunFails(File)
                \/ \E p \in OpenedFiles : RunOf(scan.results[p]) = id /\ RunFails(scan.results[p])
  BY <1>1
<1>6. ASSUME NEW s \in runs'
      PROVE  s.status = "fail" <=>
                \E p \in OpenedFiles' : RunOf(scan.results[p]) = s.id /\ RunFails(scan.results[p])
  <2>1. (\E r \in runs : r.id = s.id /\ r.status = "fail") <=>
            \E p \in OpenedFiles : RunOf(scan.results[p]) = s.id /\ RunFails(scan.results[p])
    <3>1. \A p \in OpenedFiles : RunOf(scan.results[p]) = s.id => \E r \in runs : r.id = s.id
      BY DEF RunsAre, Ids
    <3> QED BY <3>1 DEF RunsAre
  <2> QED BY <1>4, <1>5, <2>1
<1>7. Ids(runs)' = {RunOf(scan.results[p]) : p \in OpenedFiles'}
                     \cup {RunIdOf(scan.coverage[v].path, scan.coverage[v].build) : v \in DoneOrphans}
  BY <1>4, <1>5 DEF RunsAre
<1> QED BY <1>1, <1>6, <1>7 DEF RunsAre

(***************************************************************************)
(* A coverage file: it finds a test exactly if the artifacts have one.     *)
(***************************************************************************)
LEMMA RankTyped == \A q, n \in Names : Rank[q, n] \in 0..3
<1> SUFFICES ASSUME NEW q \in Names, NEW n \in Names PROVE Rank[q, n] \in 0..3
  BY Zenon
<1>1. <<q, n>> \in Names \X Names
  OBVIOUS
<1> QED BY <1>1, RankAssumption, Zenon

RankAt(q, t) == Rank[q, t.id.name]

LEMMA BestMatch ==
    ASSUME NEW q, NEW fw, NEW bound \in Nat,
           \A t \in tests : t.at \in Nat /\ t.at <= bound /\ RankAt(q, t) \in Nat,
           Matches(q, fw) # {}
    PROVE  BestMatches(q, fw) # {}
<1> DEFINE M == Matches(q, fw)
           Ranks == {RankAt(q, t) : t \in M}
<1>1. M \subseteq tests
  BY Zenon DEF Matches
<1>2. \A t \in M : RankAt(q, t) \in Nat /\ t.at \in Nat /\ bound - t.at \in Nat
  <2>1. \A t \in M : RankAt(q, t) \in Nat /\ t.at \in Nat /\ t.at <= bound
    BY Zenon, <1>1
  <2> HIDE DEF M
  <2> QED BY <2>1
<1>3. M # {}
  OBVIOUS
<1> HIDE DEF M
<1>4. PICK best \in Ranks : \A r \in Ranks : best <= r
  <2>1. Ranks \subseteq Nat /\ Ranks # {}
    BY <1>2, <1>3
  <2> HIDE DEF Ranks
  <2> QED BY <2>1, LeastNatural
<1> DEFINE B == {t \in M : RankAt(q, t) = best}
           Ages == {bound - t.at : t \in B}
<1>5. PICK age \in Ages : \A a \in Ages : age <= a
  <2>1. Ages \subseteq Nat /\ Ages # {}
    BY <1>2, <1>4
  <2> HIDE DEF Ages
  <2> QED BY <2>1, LeastNatural
<1>6. PICK t \in B : age = bound - t.at
  BY <1>5
<1>7. ASSUME NEW u \in M PROVE RankAt(q, t) < RankAt(q, u) \/ (RankAt(q, t) = RankAt(q, u) /\ t.at >= u.at)
  <2>1. t \in M /\ RankAt(q, t) = best
    BY <1>6
  <2>2. best <= RankAt(q, u) /\ best \in Nat /\ RankAt(q, u) \in Nat
    BY <1>2, <1>4, <2>1
  <2>3. CASE RankAt(q, u) = best
    <3>1. bound - t.at <= bound - u.at
      BY <1>5, <1>6, <2>3
    <3>2. t.at \in Nat /\ u.at \in Nat
      BY <1>2, <2>1
    <3> QED BY <2>1, <2>3, <3>1, <3>2
  <2> QED BY <2>1, <2>2, <2>3
<1>8. t \in BestMatches(q, fw)
  <2>1. t \in M
    BY <1>6
  <2> QED BY Zenon, <1>7, <2>1 DEF BestMatches, M, RankAt
<1> QED BY <1>8

LEMMA ResolvesIfMatched ==
    ASSUME TypeOK, ResultsResolve, NEW bound \in Nat, \A t \in tests : t.at <= bound,
           NEW q \in Names, NEW fw
    PROVE  ResolveTest(q, fw) = None <=> \A t \in tests : RankAt(q, t) = 3
<1>1. \A t \in tests : t.at \in Nat /\ t.id \in TestIds /\ t.id.name \in Names
  BY DEF TypeOK, TestRows, TestIds
<1>2. \A t \in tests : RankAt(q, t) \in 0..3
  BY Zenon, <1>1, RankTyped DEF RankAt
<1>3. \A g : FindTestByName(q, g) = None <=> Matches(q, g) = {}
  <2> TAKE g
  <2>1. CASE Matches(q, g) = {}
    <3>1. BestMatches(q, g) = {}
      BY Zenon, <2>1 DEF BestMatches
    <3> QED BY <2>1, <3>1 DEF FindTestByName
  <2>2. CASE Matches(q, g) # {}
    <3>1. BestMatches(q, g) # {}
      <4>1. \A t \in tests : RankAt(q, t) \in Nat
        <5>1. \A n \in 0..3 : n \in Nat
          OBVIOUS
        <5> QED BY Zenon, <1>2, <5>1
      <4> QED BY <1>1, <2>2, <4>1, BestMatch
    <3>2. (CHOOSE t \in BestMatches(q, g) : TRUE) \in BestMatches(q, g)
      BY <3>1
    <3>3. BestMatches(q, g) \subseteq tests
      BY Zenon DEF BestMatches, Matches
    <3>4. FindTestByName(q, g) \in TestIds
      BY <1>1, <3>1, <3>2, <3>3 DEF FindTestByName
    <3> QED BY <2>2, <3>4, NoneAssumption
  <2> QED BY <2>1, <2>2
<1>4. \A g : Matches(q, g) # {} => Matches(q, AnyFramework) # {}
  BY Zenon DEF Matches
<1>5. FindTest(q, fw) = None <=> Matches(q, AnyFramework) = {}
  BY <1>3, <1>4 DEF FindTest
<1>6. Matches(q, AnyFramework) = {} <=> \A t \in tests : RankAt(q, t) = 3
  <2>1. \A t : t \in Matches(q, AnyFramework) <=> t \in tests /\ RankAt(q, t) < 3
    BY Zenon DEF Matches, RankAt
  <2> QED BY <1>2, <2>1
<1>7. FindTest(q, fw) # None => RowsWith(runs, FindTest(q, fw).run) # {}
  <2>1. FindTest(q, fw) # None => FindTest(q, fw) \in Ids(tests)
    BY FindTestTyped
  <2> QED BY <2>1 DEF ResultsResolve, Ids, RowsWith
<1> QED BY <1>5, <1>6, <1>7 DEF ResolveTest

LEMMA OrphanIf ==
    ASSUME NEW c \in Corpora, NEW v \in DOMAIN c.coverage, "coverage" \in Adapters,
           c.coverage[v].body = "ok"
    PROVE  v \in OrphanCoverage(c) <=> \A t \in ExpectedTests(c) : RankAt(c.coverage[v].test, t) = 3
BY Zenon DEF OrphanCoverage, RankAt

LEMMA CoverageOpened ==
    ASSUME TypeOK, HandlerInv, ResultsResolve, RunsAre,
           LastRows(tests, CaseRows(scan), DoneCases), IndexCoverageArtifact
    PROVE  RunsAre'
<1> DEFINE t == ResolveTest(File.test, "cocotb")
           id == RunIdOf(File.path, File.build)
           own(D) == {RunIdOf(scan.coverage[v].path, scan.coverage[v].build) : v \in D}
<1>1. /\ scan' = scan /\ scan \in Corpora /\ phase = "coverage" /\ phase' = "coverage" /\ pos' = pos
      /\ stage = "open" /\ stage' # "open" /\ pos \in DOMAIN Work("coverage") /\ pos \in Nat
      /\ File.body = "ok" /\ IF t = None THEN UpsertRun(id, "pass") ELSE runs' = runs
  BY DEF IndexCoverageArtifact, Opening, Goto, TypeOK
<1>2. OpenedFiles' = OpenedFiles
  BY LaterPhases DEF Correlate
<1>3. "coverage" \in Adapters /\ pos \in DOMAIN scan.coverage /\ File = scan.coverage[pos]
  <2>1. Work("coverage") # << >> => "coverage" \in Adapters /\ Work("coverage") = scan.coverage
    BY DEF Work
  <2> QED BY <1>1, <2>1 DEF File
<1>4. File \in CoverageFiles /\ File.test \in Names /\ id \in RunIds /\ "pass" \in Statuses
  <2>1. File \in CoverageFiles
    BY <1>1, CurrentFile
  <2> QED BY <2>1 DEF CoverageFiles, RunIdOf, RunIds, Statuses
<1>5. tests = ExpectedTests(scan)
  <2>1. DoneCases = CasesOf(scan)
    BY <1>1 DEF DoneCases, CaseDone, Past
  <2> QED BY <1>1, <2>1, TablesAreExpected
<1>6. Len(scan.results) \in Nat /\ \A r \in tests : r.at <= Len(scan.results)
  <2>1. scan.results \in Seq(ResultFiles)
    BY <1>1, CaseTyped
  <2>2. \A r \in tests : \E x \in CasesOf(scan) : r.at = x[1]
    BY DEF LastRows, CaseRows, DoneCases
  <2> QED BY <1>1, <2>1, <2>2, CasesOrdered
<1>7. t = None <=> pos \in OrphanCoverage(scan)
  <2>1. t = None <=> \A r \in tests : RankAt(File.test, r) = 3
    BY <1>4, <1>6, ResolvesIfMatched
  <2> HIDE DEF t
  <2> QED BY <1>1, <1>3, <1>5, <2>1, OrphanIf
<1>8. /\ \A v \in OrphanCoverage(scan) : v \in Nat
      /\ \A v \in OrphanCoverage(scan) : OrphanDone(v)' <=> OrphanDone(v) \/ v = pos
  <2>1. \A v \in OrphanCoverage(scan) : v \in Nat
    BY <1>1, OrphanTyped
  <2> QED BY <1>1, <2>1 DEF OrphanDone
<1> HIDE DEF t, id
<1>9. CASE t = None
  <2>1. DoneOrphans' = DoneOrphans \cup {pos}
    BY <1>1, <1>7, <1>8, <1>9 DEF DoneOrphans
  <2>2. own(DoneOrphans') = own(DoneOrphans) \cup {id}
    BY <1>3, <2>1 DEF id
  <2>3. /\ Ids(runs)' = Ids(runs) \cup {id}
        /\ \A s \in runs' :
              s.status = "fail" <=> \E r \in runs : r.id = s.id /\ r.status = "fail"
    BY <1>1, <1>4, <1>9, UpsertRunExact DEF TypeOK, HandlerInv, UniqueRuns
  <2>4. ASSUME NEW s \in runs'
        PROVE  s.status = "fail" <=>
                  \E p \in OpenedFiles : RunOf(scan.results[p]) = s.id /\ RunFails(scan.results[p])
    <3>1. \A p \in OpenedFiles : RunOf(scan.results[p]) = s.id => \E r \in runs : r.id = s.id
      BY DEF RunsAre, Ids
    <3> QED BY <2>3, <3>1 DEF RunsAre
  <2>5. Ids(runs)' = {RunOf(scan.results[p]) : p \in OpenedFiles} \cup own(DoneOrphans')
    BY <2>2, <2>3 DEF RunsAre
  <2> QED BY <1>1, <1>2, <2>4, <2>5 DEF RunsAre
<1>10. CASE t # None
  <2>1. DoneOrphans' = DoneOrphans
    BY <1>1, <1>7, <1>8, <1>10 DEF DoneOrphans
  <2> QED BY <1>1, <1>2, <1>10, <2>1 DEF RunsAre, Ids
<1> QED BY <1>9, <1>10

(***************************************************************************)
(* The evidence of the failures stored.                                    *)
(***************************************************************************)
LEMMA EvidenceKept ==
    ASSUME EvidenceAre, scan' = scan, DoneOccurrences' = DoneOccurrences,
           \A x : ~Current(x) /\ ~Current(x)', \A g : RefsOf(evidence', g) = RefsOf(evidence, g)
    PROVE  EvidenceAre'
<1>1. \A x : IsLast(x)' <=> IsLast(x)
  BY DEF IsLast
<1>2. SUFFICES ASSUME NEW x \in DoneOccurrences, IsLast(x)
               PROVE  LET refs == scan.results[x[1]].fails[x[3]].refs IN
                      RefsOf(evidence', FailureAt(scan, x)) = {refs[n] : n \in DOMAIN refs}
  BY <1>1, Zenon DEF EvidenceAre
<1>3. RefsOf(evidence', FailureAt(scan, x)) = RefsOf(evidence, FailureAt(scan, x))
  BY Zenon
<1>4. LET refs == scan.results[x[1]].fails[x[3]].refs IN
      RefsOf(evidence, FailureAt(scan, x)) = {refs[n] : n \in DOMAIN refs}
  BY <1>2 DEF EvidenceAre
<1> QED BY <1>3, <1>4, Zenon

\* The failure whose evidence is being written is the last of those stored.
LEMMA CurrentIsLast ==
    ASSUME TypeOK, HandlerInv, InOrder, phase = "results", InEvidence, NEW k \in Least(left)
    PROVE  /\ <<pos, item, k>> \in DoneOccurrences
           /\ File = scan.results[pos] /\ File.fails[k].refs \in Seq(Refs)
           /\ FailureAt(scan, <<pos, item, k>>) = FailureIdAt(k)
           /\ \A x \in DoneOccurrences : Current(x) <=> x = <<pos, item, k>>
           /\ \A x \in DoneOccurrences \ {<<pos, item, k>>} :
                 IsLast(x) => FailureAt(scan, x) # FailureIdAt(k)
<1> DEFINE n == <<pos, item, k>>
<1>1. /\ scan \in Corpora /\ pos \in Nat /\ item \in Nat /\ stage # "open" /\ stage # "test"
      /\ File = scan.results[pos] /\ File \in ResultFiles /\ item \in DOMAIN File.cases
      /\ left \subseteq FailuresOf(File, item) /\ left \subseteq Nat
      /\ \A j \in FailuresOf(File, item) : j \in Nat /\ <<pos, item, j>> \in OccurrencesOf(scan)
  BY InFile DEF InEvidence, TypeOK
<1>2. k \in left /\ Least(left) = {k} /\ k \in FailuresOf(File, item) /\ k \in Nat
  BY <1>1, LeastIsOne
<1>3. n \in OccurrencesOf(scan) /\ n[1] = pos /\ n[2] = item /\ n[3] = k
  BY <1>1, <1>2
<1>4. n \in DoneOccurrences
  <2> HIDE DEF n
  <2> QED BY <1>1, <1>2, <1>3 DEF DoneOccurrences, OccurrenceDone, Here
<1>5. FailureAt(scan, n) = FailureIdAt(k)
  <2> HIDE DEF n
  <2> QED BY <1>1, <1>3 DEF FailureAt, TestAt, FailureIdAt
<1>6. \A x \in OccurrencesOf(scan) :
         /\ x[1] \in Nat /\ x[2] \in Nat /\ x[3] \in Nat /\ x = <<x[1], x[2], x[3]>>
         /\ x[3] \in FailuresOf(scan.results[x[1]], x[2])
  BY <1>1, OccurrencesOrdered
<1>7. ASSUME NEW x \in DoneOccurrences PROVE Current(x) <=> x = n
  <2>1. x \in OccurrencesOf(scan)
    BY DEF DoneOccurrences
  <2>2. Current(x) <=> x[1] = pos /\ x[2] = item /\ x[3] = k
    BY <1>1, <1>2 DEF Current, Here
  <2> QED BY <1>6, <2>1, <2>2
<1>8. ASSUME NEW x \in DoneOccurrences \ {n}, IsLast(x), FailureAt(scan, x) = FailureIdAt(k)
      PROVE  FALSE
  <2>1. Before(n, x)
    <3> HIDE DEF n
    <3> QED BY <1>4, <1>5, <1>8 DEF IsLast
  <2>2. /\ x \in OccurrencesOf(scan)
        /\ \/ x[1] < pos \/ (x[1] = pos /\ x[2] < item)
           \/ (x[1] = pos /\ x[2] = item /\ (x[3] \notin left \/ x[3] = k))
    BY <1>1, <1>2, <1>6 DEF DoneOccurrences, OccurrenceDone, Past, Here
  <2>3. ~(x[1] = pos /\ x[2] = item /\ x[3] = k)
    BY <1>6, <1>8, <2>2
  <2>4. x[1] = pos /\ x[2] = item /\ x[3] \notin left => x[3] < k
    BY <1>1, <1>2, <1>6, <2>2 DEF InOrder
  <2>5. PICK p \in Nat, i \in Nat, l \in Nat :
           /\ x = <<p, i, l>>
           /\ p < pos \/ (p = pos /\ i < item) \/ (p = pos /\ i = item /\ l < k)
    BY <1>6, <2>2, <2>3, <2>4
  <2> QED BY <1>1, <1>2, <2>1, <2>5, TripleBefore
<1>9. File.fails[k].refs \in Seq(Refs)
  BY <1>1, <1>2, FailureTyped
<1> QED BY <1>1, <1>4, <1>5, <1>7, <1>8, <1>9

LEMMA EvidenceAwaited ==
    ASSUME TypeOK, HandlerInv, InOrder, EvidenceAre, InsertFailure
    PROVE  EvidenceAre'
<1>1. PICK k \in Least(left) : TRUE
  BY DEF InsertFailure
<1>0. PICK n : n = <<pos, item, k>>
  OBVIOUS
<1>2. /\ scan' = scan /\ evidence' = evidence /\ stage = "failure" /\ stage' = "purge"
      /\ phase' = phase /\ pos' = pos /\ item' = item /\ left' = left
  BY DEF InsertFailure, At, Stay, Goto
<1>3. DoneOccurrences' = DoneOccurrences \cup {n}
  BY <1>0, ResultsStored
<1>4. \A x : ~Current(x)
  BY <1>2 DEF Current, InEvidence
<1>6. Current(n)'
  <2>1. phase = "results" /\ n[1] = pos /\ n[2] = item /\ n[3] = k
    BY <1>0 DEF InsertFailure, At
  <2> QED BY <1>1, <1>2, <2>1 DEF Current, Here, InEvidence, Least
<1>7. ASSUME NEW x \in DoneOccurrences', x # n PROVE x \in DoneOccurrences /\ (IsLast(x)' => IsLast(x))
  BY <1>2, <1>3, <1>7 DEF IsLast
<1> SUFFICES ASSUME NEW x \in DoneOccurrences', IsLast(x)'
             PROVE  LET refs == scan.results[x[1]].fails[x[3]].refs
                        shown == RefsOf(evidence, FailureAt(scan, x)) IN
                    IF Current(x)' THEN stage' = "evidence" => shown = {refs[m] : m \in {j \in DOMAIN refs : j < ref'}}
                    ELSE shown = {refs[m] : m \in DOMAIN refs}
  BY <1>2 DEF EvidenceAre
<1>8. CASE x = n
  BY <1>2, <1>6, <1>8
<1>9. CASE x # n
  <2>1. x \in DoneOccurrences /\ IsLast(x) /\ ~Current(x)
    BY <1>4, <1>7, <1>9
  <2>2. Current(x)' => stage' # "evidence"
    BY <1>2
  <2> QED BY <2>1, <2>2 DEF EvidenceAre
<1> QED BY <1>8, <1>9

\* Purging, writing and ending the evidence of a failure touch that of no other.
LEMMA EvidenceWritten ==
    ASSUME TypeOK, HandlerInv, InOrder, EvidenceAre, DeleteEvidence \/ InsertEvidence \/ EndFailure
    PROVE  EvidenceAre'
<1>1. PICK k \in Least(left) :
         /\ DeleteEvidence => evidence' = {e \in evidence : e.owner # FailureOwner(FailureIdAt(k))}
         /\ InsertEvidence =>
               /\ ref \in DOMAIN File.fails[k].refs
               /\ evidence' = evidence \cup {[owner |-> FailureOwner(FailureIdAt(k)),
                                              ref |-> File.fails[k].refs[ref]]}
         /\ EndFailure => ref \notin DOMAIN File.fails[k].refs /\ evidence' = evidence
                          /\ stage' = "failure"
  <2>1. \A k, l \in Least(left) : k = l
    BY DEF Least, TypeOK
  <2>2. DeleteEvidence => \E k \in Least(left) :
            evidence' = {e \in evidence : e.owner # FailureOwner(FailureIdAt(k))}
    BY DEF DeleteEvidence
  <2>3. InsertEvidence => \E k \in Least(left) :
            /\ ref \in DOMAIN File.fails[k].refs
            /\ evidence' = evidence \cup {[owner |-> FailureOwner(FailureIdAt(k)),
                                           ref |-> File.fails[k].refs[ref]]}
    BY DEF InsertEvidence, AddEvidence
  <2>4. EndFailure => \E k \in Least(left) :
            ref \notin DOMAIN File.fails[k].refs /\ evidence' = evidence /\ stage' = "failure"
    BY DEF EndFailure, Stay, Goto, tables
  <2> QED BY <2>1, <2>2, <2>3, <2>4
<1>0. PICK n, g, refs : n = <<pos, item, k>> /\ g = FailureIdAt(k) /\ refs = File.fails[k].refs
  OBVIOUS
<1>2. /\ scan' = scan /\ phase = "results" /\ phase' = "results" /\ pos' = pos /\ item' = item
      /\ InEvidence
      /\ DeleteEvidence => ref' = 1 /\ stage = "purge"
      /\ InsertEvidence => ref' = ref + 1 /\ stage = "evidence"
      /\ EndFailure => stage = "evidence" /\ stage' = "failure"
      /\ ~EndFailure => stage' = "evidence" /\ left' = left
  BY <1>1 DEF DeleteEvidence, InsertEvidence, EndFailure, At, Stay, Goto, InEvidence
<1>3. /\ n \in DoneOccurrences /\ File = scan.results[pos] /\ refs \in Seq(Refs)
      /\ FailureAt(scan, n) = g /\ n[1] = pos /\ n[3] = k
      /\ \A x \in DoneOccurrences : Current(x) <=> x = n
      /\ \A x \in DoneOccurrences \ {n} : IsLast(x) => FailureAt(scan, x) # g
  BY <1>0, <1>2, CurrentIsLast
<1>4. DoneOccurrences' = DoneOccurrences
  BY ResultsKept DEF Done
<1>5. \A x : IsLast(x)' <=> IsLast(x)
  BY <1>2, <1>4 DEF IsLast
<1>6. \A x : Current(x)' <=> Current(x) /\ ~EndFailure
  <2>1. CASE EndFailure
    BY <1>2, <2>1 DEF Current, InEvidence
  <2>2. CASE ~EndFailure
    BY <1>2, <2>2 DEF Current, InEvidence, Here
  <2> QED BY <2>1, <2>2
<1>7. ASSUME NEW h, h # g PROVE RefsOf(evidence', h) = RefsOf(evidence, h)
  <2>1. FailureOwner(h) # FailureOwner(g)
    BY <1>7 DEF FailureOwner
  <2>2. {x \in evidence' : x.owner = FailureOwner(h)} = {x \in evidence : x.owner = FailureOwner(h)}
    <3> DEFINE new == [owner |-> FailureOwner(g), ref |-> refs[ref]]
    <3>1. new.owner # FailureOwner(h)
      BY <2>1
    <3> HIDE DEF new
    <3>2. DeleteEvidence \/ evidence' = evidence \cup {new} \/ evidence' = evidence
      BY <1>0, <1>1 DEF new
    <3> QED BY <1>0, <1>1, <2>1, <3>1, <3>2
  <2> QED BY <2>2 DEF RefsOf
<1>8. ASSUME IsLast(n)
      PROVE  IF EndFailure THEN RefsOf(evidence', g) = {refs[m] : m \in DOMAIN refs}
                           ELSE RefsOf(evidence', g) = {refs[m] : m \in {j \in DOMAIN refs : j < ref'}}
  <2>1. stage = "evidence" => RefsOf(evidence, g) = {refs[m] : m \in {j \in DOMAIN refs : j < ref}}
    <3>1. Current(n) /\ scan.results[n[1]].fails[n[3]].refs = refs
      BY <1>0, <1>3
    <3> QED BY <1>3, <1>8, <3>1 DEF EvidenceAre
  <2>2. CASE DeleteEvidence
    <3>1. RefsOf(evidence', g) = {} /\ ref' = 1
      BY <1>0, <1>1, <1>2, <2>2 DEF RefsOf
    <3>2. {j \in DOMAIN refs : j < 1} = {}
      <4>1. \A j \in DOMAIN refs : j \in Nat /\ ~(j < 1)
        BY <1>3
      <4> QED BY <4>1
    <3>3. ~EndFailure
      BY <1>2, <2>2
    <3> QED BY <3>1, <3>2, <3>3
  <2>3. CASE InsertEvidence
    <3>1. ref \in DOMAIN refs /\ ref \in Nat /\ ref' = ref + 1 /\ stage = "evidence"
      BY <1>0, <1>1, <1>2, <2>3 DEF TypeOK
    <3> DEFINE new == [owner |-> FailureOwner(g), ref |-> refs[ref]]
    <3>2. new.owner = FailureOwner(g) /\ new.ref = refs[ref] /\ evidence' = evidence \cup {new}
      BY <1>0, <1>1, <2>3
    <3> HIDE DEF new
    <3>3. RefsOf(evidence', g) = RefsOf(evidence, g) \cup {refs[ref]}
      BY <3>2 DEF RefsOf
    <3>4. {j \in DOMAIN refs : j < ref'} = {j \in DOMAIN refs : j < ref} \cup {ref}
      BY <1>3, <3>1
    <3>5. ~EndFailure
      BY <2>3 DEF InsertEvidence, EndFailure, Stay, Goto, TypeOK
    <3> QED BY <2>1, <3>1, <3>3, <3>4, <3>5
  <2>4. CASE EndFailure
    <3>1. ref \notin DOMAIN refs /\ ref \in Nat \ {0} /\ stage = "evidence" /\ evidence' = evidence
      BY <1>0, <1>1, <1>2, <2>4 DEF TypeOK
    <3>2. {j \in DOMAIN refs : j < ref} = DOMAIN refs
      <4>1. DOMAIN refs = 1..Len(refs) /\ Len(refs) \in Nat
        BY <1>3
      <4>2. \A j \in DOMAIN refs : j < ref
        BY <3>1, <4>1
      <4> QED BY <4>2
    <3>3. RefsOf(evidence', g) = RefsOf(evidence, g)
      BY <3>1 DEF RefsOf
    <3> QED BY <2>1, <2>4, <3>1, <3>2, <3>3
  <2> QED BY <2>2, <2>3, <2>4
<1> DEFINE Shows(x) ==
             LET seq == scan.results[x[1]].fails[x[3]].refs
                 shown == RefsOf(evidence', FailureAt(scan, x)) IN
             IF Current(x)' THEN stage' = "evidence" => shown = {seq[m] : m \in {j \in DOMAIN seq : j < ref'}}
             ELSE shown = {seq[m] : m \in DOMAIN seq}
<1>9. ASSUME NEW x \in DoneOccurrences, IsLast(x) PROVE Shows(x)
  <2>1. CASE x = n
    <3>1. scan.results[x[1]].fails[x[3]].refs = refs /\ FailureAt(scan, x) = g
      BY <1>0, <1>3, <2>1
    <3>2. Current(x)' <=> ~EndFailure
      BY <1>3, <1>6, <2>1
    <3>3. CASE EndFailure
      <4>1. RefsOf(evidence', g) = {refs[m] : m \in DOMAIN refs}
        BY <1>8, <1>9, <2>1, <3>3
      <4>2. ~Current(x)'
        BY <3>2, <3>3
      <4> QED BY <3>1, <4>1, <4>2
    <3>4. CASE ~EndFailure
      <4>1. RefsOf(evidence', g) = {refs[m] : m \in {j \in DOMAIN refs : j < ref'}}
        BY <1>8, <1>9, <2>1, <3>4
      <4>2. Current(x)'
        BY <3>2, <3>4
      <4> QED BY <3>1, <4>1, <4>2
    <3> QED BY <3>3, <3>4
  <2>2. CASE x # n
    <3>1. ~Current(x) /\ ~Current(x)' /\ FailureAt(scan, x) # g
      BY <1>3, <1>6, <1>9, <2>2
    <3>2. RefsOf(evidence', FailureAt(scan, x)) = RefsOf(evidence, FailureAt(scan, x))
      BY <1>7, <3>1
    <3> QED BY <1>9, <3>1, <3>2 DEF EvidenceAre
  <2> QED BY <2>1, <2>2
<1> QED BY <1>2, <1>4, <1>5, <1>9 DEF EvidenceAre

\* The evidence of assertions and coverage is not that of a failure.
LEMMA OtherEvidence ==
    ASSUME Correlate, NEW g
    PROVE  RefsOf(evidence', g) = RefsOf(evidence, g)
<1>1. CASE evidence' = evidence
  BY <1>1
<1>2. ASSUME NEW kind \in {"assertion_failure", "coverage"}, NEW m, NEW e,
             AddEvidence(RowOwner(kind, m), e)
      PROVE  RefsOf(evidence', g) = RefsOf(evidence, g)
  <2>1. RowOwner(kind, m) # FailureOwner(g)
    BY DEF RowOwner, FailureOwner
  <2> DEFINE new == [owner |-> RowOwner(kind, m), ref |-> e]
  <2>2. new.owner # FailureOwner(g) /\ evidence' = evidence \cup {new}
    BY <1>2, <2>1 DEF AddEvidence
  <2> HIDE DEF new
  <2>3. {x \in evidence' : x.owner = FailureOwner(g)} = {x \in evidence : x.owner = FailureOwner(g)}
    BY <2>2
  <2> QED BY <2>3 DEF RefsOf
<1>3. CASE InsertAssertionEvidence \/ InsertCoverageEvidence
  BY <1>2, <1>3 DEF InsertAssertionEvidence, InsertCoverageEvidence
<1>4. ASSUME ~InsertAssertionEvidence, ~InsertCoverageEvidence PROVE evidence' = evidence
  BY <1>4 DEF Correlate, IndexWaveformSummary, IndexAssertionArtifact, IndexLogAssertions,
     ResolveBundle, InsertAssertion, InsertUnknownAssertion, InsertAssertionFailure, EndBundle,
     IndexCoverageArtifact, InsertCoverageSummary, IndexSvaStatusArtifact, InsertSvaRunStatus,
     EndSva, tables
<1> QED BY <1>1, <1>3, <1>4

\* Steps that store no failure and write no evidence of one.
LEMMA NoCurrent ==
    ASSUME TypeOK, HandlerInv,
           \/ Connect \/ NextPhase \/ SkipFile \/ IndexUvmLog \/ IndexCocotbXml
           \/ InsertTest \/ InsertTopology \/ EndTest \/ Correlate
    PROVE  /\ \A x : ~Current(x) /\ ~Current(x)'
           /\ \A g : RefsOf(evidence', g) = RefsOf(evidence, g)
<1>1. CASE \/ Connect \/ NextPhase \/ SkipFile
  BY <1>1 DEF Connect, NextPhase, SkipFile, Opening, NextFile, Open, Goto, Current, Here, tables
<1>2. CASE \/ IndexUvmLog \/ IndexCocotbXml \/ InsertTest \/ InsertTopology
  BY <1>2 DEF IndexUvmLog, IndexCocotbXml, OpenResults, Opening, InsertTest, InsertTopology,
              At, Stay, Goto, Current, Here, InEvidence
<1>3. CASE EndTest
  BY <1>3 DEF EndTest, At, Stay, NextFile, Open, Goto, Current, Here, InEvidence, tables
<1>4. CASE Correlate
  <2>1. \A x : ~Current(x) /\ ~Current(x)'
    BY <1>4, LaterPhases DEF Current
  <2> QED BY <1>4, <2>1, OtherEvidence
<1> QED BY <1>1, <1>2, <1>3, <1>4

\* The rows that a step inside a pass leaves alone.
LEMMA RowsKept ==
    /\ Connect \/ NextPhase \/ SkipFile \/ EndTest \/ EndFailure => UNCHANGED <<runs, tests, failures>>
    /\ IndexUvmLog \/ IndexCocotbXml => UNCHANGED <<tests, failures>>
    /\ InsertTest => UNCHANGED <<runs, failures>>
    /\ InsertTopology \/ DeleteEvidence \/ InsertEvidence => UNCHANGED <<runs, tests, failures>>
    /\ InsertFailure => UNCHANGED <<runs, tests>>
    /\ Correlate => UNCHANGED <<tests, failures>>
    /\ Correlate /\ ~IndexCoverageArtifact => UNCHANGED runs
<1> USE DEF tables, results
<1>1. /\ Connect \/ NextPhase \/ SkipFile \/ EndTest \/ EndFailure => UNCHANGED <<runs, tests, failures>>
      /\ IndexUvmLog \/ IndexCocotbXml => UNCHANGED <<tests, failures>>
  BY DEF Connect, NextPhase, SkipFile, EndTest, EndFailure, IndexUvmLog, IndexCocotbXml, OpenResults
<1>2. /\ InsertTest => UNCHANGED <<runs, failures>>
      /\ InsertTopology \/ DeleteEvidence \/ InsertEvidence => UNCHANGED <<runs, tests, failures>>
      /\ InsertFailure => UNCHANGED <<runs, tests>>
  BY DEF InsertTest, InsertTopology, DeleteEvidence, InsertEvidence, InsertFailure
<1>3. /\ Correlate => UNCHANGED <<tests, failures>>
      /\ Correlate /\ ~IndexCoverageArtifact => UNCHANGED runs
  BY DEF Correlate, IndexWaveformSummary, IndexAssertionArtifact, IndexLogAssertions,
     ResolveBundle, InsertAssertion, InsertUnknownAssertion, InsertAssertionFailure,
     InsertAssertionEvidence, InsertCoverageEvidence, EndBundle,
     IndexCoverageArtifact, InsertCoverageSummary, IndexSvaStatusArtifact, InsertSvaRunStatus,
     EndSva
<1> QED BY <1>1, <1>2, <1>3

\* What is there stays what the positions done mean.
LEMMA FilledStep ==
    ASSUME TypeOK, HandlerInv, ResultsResolve, InOrder, Filled,
           \/ Connect \/ NextPhase \/ SkipFile \/ IndexResults \/ Correlate
    PROVE  Filled' /\ scan' = scan
<1> USE RowsKept DEF Filled
<1>1. CASE Connect \/ NextPhase \/ SkipFile \/ EndTest
  <2>1. scan' = scan /\ Done' = Done
    BY <1>1, BetweenFiles, ResultsKept
  <2>2. UNCHANGED <<OpenedFiles, DoneCases, DoneOccurrences, DoneOrphans, runs, tests, failures>>
    BY <1>1, <2>1 DEF Done
  <2>3. EvidenceAre'
    BY <1>1, <2>1, <2>2, NoCurrent, EvidenceKept
  <2> QED BY <2>1, <2>2, <2>3 DEF RunsAre, Ids
<1>2. CASE DeleteEvidence \/ InsertEvidence \/ EndFailure
  <2>1. scan' = scan /\ Done' = Done
    BY <1>2, ResultsKept
  <2>2. UNCHANGED <<OpenedFiles, DoneCases, DoneOccurrences, DoneOrphans, runs, tests, failures>>
    BY <1>2, <2>1 DEF Done
  <2>3. EvidenceAre'
    BY <1>2, EvidenceWritten
  <2> QED BY <2>1, <2>2, <2>3 DEF RunsAre, Ids
<1>3. CASE IndexUvmLog \/ IndexCocotbXml
  <2>1. scan' = scan /\ UNCHANGED <<DoneCases, DoneOccurrences, tests, failures>>
    BY <1>3, ResultsOpened
  <2>2. EvidenceAre'
    BY <1>3, <2>1, NoCurrent, EvidenceKept
  <2> QED BY <1>3, <2>1, <2>2, RunOpened
<1>4. CASE InsertTest \/ InsertTopology
  <2>1. scan' = scan /\ UNCHANGED <<OpenedFiles, DoneOccurrences, DoneOrphans, runs, failures>>
    BY <1>4, ResultsStored DEF InsertTest, InsertTopology, InsertFailure, At
  <2>2. EvidenceAre'
    BY <1>4, <2>1, NoCurrent, EvidenceKept
  <2>3. LastRows(tests', CaseRows(scan), DoneCases')
    <3>1. CASE InsertTest
      BY <3>1, TestStored
    <3>2. CASE ~InsertTest
      BY <1>4, <3>2, ResultsStored
    <3> QED BY <3>1, <3>2
  <2> QED BY <2>1, <2>2, <2>3 DEF RunsAre, Ids
<1>5. CASE InsertFailure
  <2>1. scan' = scan /\ UNCHANGED <<OpenedFiles, DoneCases, DoneOrphans, runs, tests>>
    BY <1>5, ResultsStored DEF InsertTest, InsertFailure, At
  <2>2. EvidenceAre' /\ LastRows(failures', OccurrenceRows(scan), DoneOccurrences')
    BY <1>5, EvidenceAwaited, FailureStored
  <2> QED BY <2>1, <2>2 DEF RunsAre, Ids
<1>6. CASE Correlate
  <2>1. scan' = scan /\ UNCHANGED <<OpenedFiles, DoneCases, DoneOccurrences, tests, failures>>
    BY <1>6, LaterPhases
  <2>2. EvidenceAre'
    BY <1>6, <2>1, NoCurrent, EvidenceKept
  <2>3. RunsAre'
    <3>1. CASE IndexCoverageArtifact
      BY <3>1, CoverageOpened
    <3>2. CASE ~IndexCoverageArtifact
      <4>1. DoneOrphans' = DoneOrphans /\ runs' = runs
        BY <1>6, <3>2, LaterPhases
      <4> QED BY <2>1, <4>1 DEF RunsAre, Ids
    <3> QED BY <3>1, <3>2
  <2> QED BY <2>1, <2>2, <2>3
<1> QED BY <1>1, <1>2, <1>3, <1>4, <1>5, <1>6 DEF IndexResults

(***************************************************************************)
(* The ends of a pass.                                                     *)
(***************************************************************************)
LEMMA FilledFromNothing ==
    ASSUME Unlink
    PROVE  Filled' /\ whole' = None
<1>1. /\ phase' = "connect" /\ whole' = None /\ scan' = scan
      /\ runs' = {} /\ tests' = {} /\ failures' = {}
  BY DEF Unlink, Open, Goto
<1>2. OpenedFiles' = {} /\ DoneCases' = {} /\ DoneOccurrences' = {} /\ DoneOrphans' = {}
  BY <1>1 DEF OpenedFiles, DoneCases, DoneOccurrences, DoneOrphans, CaseDone, OccurrenceDone,
              OrphanDone, Past, Here
<1>3. \A row : LastRows({}, row, {})
  BY DEF LastRows
<1>4. RunsAre'
  BY <1>1, <1>2 DEF RunsAre, Ids
<1>5. EvidenceAre'
  BY <1>2 DEF EvidenceAre
<1> QED BY <1>1, <1>2, <1>3, <1>4, <1>5 DEF Filled

LEMMA AllDone ==
    ASSUME TypeOK, phase = "close"
    PROVE  /\ OpenedFiles = IndexedFiles(scan) /\ DoneCases = CasesOf(scan)
           /\ DoneOccurrences = OccurrencesOf(scan) /\ DoneOrphans = OrphanCoverage(scan)
           /\ \A x : ~Current(x)
BY DEF OpenedFiles, DoneCases, DoneOccurrences, DoneOrphans, CaseDone, OccurrenceDone,
       OrphanDone, Past, Current, Here

LEMMA ClosedRuns ==
    ASSUME TypeOK, HandlerInv, RunsAre, phase = "close"
    PROVE  runs = ExpectedRuns(scan)
<1> DEFINE files == {p \in DOMAIN scan.results : Indexed(scan.results[p])}
           failing == {RunOf(scan.results[p]) : p \in {q \in files : RunFails(scan.results[q])}}
           ids == {RunOf(scan.results[p]) : p \in files}
                    \cup {RunIdOf(scan.coverage[v].path, scan.coverage[v].build) :
                             v \in OrphanCoverage(scan)}
           row(i) == [id |-> i, status |-> IF i \in failing THEN "fail" ELSE "pass"]
<1>1. Ids(runs) = ids
  BY AllDone DEF RunsAre, IndexedFiles
<1>2. \A r \in runs : r.status = "fail" <=> r.id \in failing
  BY AllDone DEF RunsAre, IndexedFiles
<1>3. ASSUME NEW r \in runs PROVE r.id \in ids /\ r = row(r.id)
  <2>1. r \in RunRows
    BY DEF TypeOK
  <2>2. r.id \in ids
    BY <1>1 DEF Ids
  <2> HIDE DEF failing
  <2>3. r = [id |-> r.id, status |-> r.status] /\ r.status \in {"pass", "fail"}
    BY <2>1 DEF RunRows, Statuses
  <2>4. r.status = IF r.id \in failing THEN "fail" ELSE "pass"
    BY <1>2, <2>3
  <2> QED BY <2>2, <2>3, <2>4
<1>4. ASSUME NEW i \in ids PROVE row(i) \in runs
  <2>1. PICK r \in runs : r.id = i
    BY <1>1 DEF Ids
  <2> QED BY <1>3, <2>1
<1> HIDE DEF ids, row
<1>5. runs = {row(i) : i \in ids}
  BY <1>3, <1>4
<1> QED BY <1>5 DEF ExpectedRuns, row, ids

LEMMA ClosedIsContent ==
    ASSUME TypeOK, HandlerInv, Filled, phase = "close"
    PROVE  /\ [runs |-> runs, tests |-> tests, failures |-> failures] = Content(scan)
           /\ \A f \in failures : RefsOf(evidence, f.id) = OccurrenceRefs(scan, f.id)
<1>0. scan \in Corpora
  BY DEF TypeOK
<1>1. runs = ExpectedRuns(scan)
  BY ClosedRuns DEF Filled
<1>2. tests = ExpectedTests(scan) /\ failures = ExpectedFailures(scan)
  BY <1>0, AllDone, TablesAreExpected DEF Filled
<1>3. ASSUME NEW f \in failures PROVE RefsOf(evidence, f.id) = OccurrenceRefs(scan, f.id)
  <2> DEFINE row == OccurrenceRows(scan)
             D == OccurrencesOf(scan)
             S == {y \in D : FailureAt(scan, y) = f.id}
             Last(z) == z \in S /\ \A y \in S \ {z} : Before(y, z)
  <2>1. PICK x \in D : f = row[x] /\ \A y \in D \ {x} : row[y].id = f.id => Before(y, x)
    BY AllDone DEF Filled, LastRows
  <2>2. \A y \in D : row[y].id = FailureAt(scan, y)
    BY DEF OccurrenceRows
  <2>3. Last(x)
    BY <2>1, <2>2
  <2>4. \A z : Last(z) => z = x
    BY <1>0, <2>3, OneIsLast
  <2>5. LastOf(S) = x
    BY <2>3, <2>4 DEF LastOf
  <2>6. IsLast(x) /\ FailureAt(scan, x) = f.id
    BY <2>1, <2>2, AllDone DEF IsLast
  <2>7. RefsOf(evidence, f.id) =
          {scan.results[x[1]].fails[x[3]].refs[n] : n \in DOMAIN scan.results[x[1]].fails[x[3]].refs}
    BY <2>1, <2>6, AllDone DEF Filled, EvidenceAre
  <2> QED BY <2>5, <2>7 DEF OccurrenceRefs
<1> QED BY <1>1, <1>2, <1>3 DEF Content

\* Only Unlink and Close touch `whole`; between passes nothing is written.
LEMMA WholeSteps ==
    ASSUME TypeOK, [Next]_vars
    PROVE  /\ whole' = whole \/ Unlink \/ Close
           /\ Building => \/ phase' = "idle"
                          \/ UNCHANGED vars
                          \/ Connect \/ NextPhase \/ SkipFile \/ IndexResults \/ Correlate
           /\ ~Building => \/ Unlink
                           \/ ~Building' /\ UNCHANGED <<runs, tests, failures, evidence, whole>>
<1> USE DEF cursor, tables, results
<1>1. CASE UNCHANGED vars
  BY <1>1 DEF vars, Building
<1>2. CASE Export \/ Scan \/ Crash \/ Unlink \/ Close \/ AbortOnFile \/ AbortOnSva
  BY <1>2 DEF Export, Scan, Crash, Unlink, Close, AbortOnFile, AbortOnSva, Stop, Open, Goto, At,
              Opening, Building, Phases, cursor
<1>3. CASE Connect \/ NextPhase \/ SkipFile
  BY <1>3 DEF Connect, NextPhase, SkipFile, Building, Phases
<1>4. CASE IndexResults
  BY <1>4 DEF IndexResults, IndexUvmLog, IndexCocotbXml, OpenResults, Opening, At, InsertTest,
     InsertTopology, InsertFailure, DeleteEvidence, InsertEvidence, EndFailure, EndTest, Building, Phases
<1>5. CASE Correlate
  <2>1. whole' = whole
    BY <1>5 DEF Correlate, IndexWaveformSummary, IndexAssertionArtifact, IndexLogAssertions,
       ResolveBundle, InsertAssertion, InsertUnknownAssertion, InsertAssertionFailure,
       InsertAssertionEvidence, InsertCoverageEvidence, EndBundle, IndexCoverageArtifact,
       InsertCoverageSummary, IndexSvaStatusArtifact, InsertSvaRunStatus, EndSva
  <2>2. Building
    BY <1>5 DEF Correlate, IndexWaveformSummary, IndexAssertionArtifact, IndexLogAssertions,
       InsertAssertion, InsertUnknownAssertion, InsertAssertionFailure, InsertAssertionEvidence,
       InsertCoverageEvidence, EndBundle, IndexCoverageArtifact, InsertCoverageSummary,
       IndexSvaStatusArtifact, InsertSvaRunStatus, EndSva, Opening, At, TypeOK, StagesOf, Building, Phases
  <2> QED BY <1>5, <2>1, <2>2
<1> QED BY <1>1, <1>2, <1>3, <1>4, <1>5 DEF Next, Proceed

LEMMA MeaningStep ==
    ASSUME IInv, MeaningInv, [Next]_vars
    PROVE  MeaningInv'
<1> USE DEF IInv
<1>1. InOrder'
  BY OrderKept DEF MeaningInv
<1>2. Building' => whole' = None /\ Filled'
  <2> SUFFICES ASSUME Building' PROVE whole' = None /\ Filled'
    OBVIOUS
  <2>1. CASE ~Building
    BY <2>1, WholeSteps, FilledFromNothing
  <2>2. CASE Building
    <3>1. UNCHANGED vars \/ Connect \/ NextPhase \/ SkipFile \/ IndexResults \/ Correlate
      BY <2>2, WholeSteps DEF Building, Phases
    <3>2. whole = None /\ Filled
      BY <2>2 DEF MeaningInv
    <3>3. CASE UNCHANGED vars
      <4>1. /\ UNCHANGED <<scan, phase, pos, stage, item, left, ref, runs, tests, failures, evidence>>
            /\ whole' = whole
        BY <3>3 DEF vars, cursor, tables, results
      <4>2. \A p : (Past(p)' <=> Past(p)) /\ (Here(p)' <=> Here(p))
        BY <4>1 DEF Past, Here
      <4>3. Least(left)' = Least(left)
        BY <4>1 DEF Least
      <4>4. /\ \A x : (CaseDone(x)' <=> CaseDone(x)) /\ (OccurrenceDone(x)' <=> OccurrenceDone(x))
            /\ \A x : (OrphanDone(x)' <=> OrphanDone(x)) /\ (Current(x)' <=> Current(x))
        <5> HIDE DEF Least
        <5> QED BY <4>1, <4>2, <4>3 DEF CaseDone, OccurrenceDone, OrphanDone, Current, InEvidence
      <4>5. OpenedFiles' = OpenedFiles /\ DoneCases' = DoneCases
        BY <4>1, <4>2, <4>4 DEF OpenedFiles, DoneCases
      <4>6. DoneOccurrences' = DoneOccurrences /\ DoneOrphans' = DoneOrphans
        BY <4>1, <4>4 DEF DoneOccurrences, DoneOrphans
      <4>7. \A x : IsLast(x)' <=> IsLast(x)
        BY <4>1, <4>6 DEF IsLast
      <4>8. RunsAre'
        BY <3>2, <4>1, <4>5, <4>6 DEF Filled, RunsAre, Ids
      <4>9. EvidenceAre'
        <5>1. SUFFICES ASSUME NEW x \in DoneOccurrences, IsLast(x)
                       PROVE  LET refs == scan.results[x[1]].fails[x[3]].refs
                                  seen == RefsOf(evidence, FailureAt(scan, x)) IN
                              IF Current(x) THEN stage = "evidence" => seen = {refs[n] : n \in {m \in DOMAIN refs : m < ref}}
                              ELSE seen = {refs[n] : n \in DOMAIN refs}
          BY <4>1, <4>4, <4>6, <4>7, Zenon DEF EvidenceAre
        <5> QED BY <3>2, <5>1 DEF Filled, EvidenceAre
      <4> QED BY <3>2, <4>1, <4>5, <4>6, <4>8, <4>9 DEF Filled
    <3>4. CASE Connect \/ NextPhase \/ SkipFile \/ IndexResults \/ Correlate
      <4>1. ~Unlink /\ ~Close
        BY <2>2 DEF Building, Phases, Unlink, Close, Open, Goto
      <4> QED BY <3>2, <3>4, <4>1, WholeSteps, FilledStep DEF MeaningInv
    <3> QED BY <3>1, <3>3, <3>4
  <2> QED BY <2>1, <2>2
<1>3. WholeIsContent' /\ EvidenceIsOfTheRow'
  <2>1. CASE Close
    <3>1. /\ whole' = scan /\ phase = "close"
          /\ UNCHANGED <<runs, tests, failures, evidence>>
      BY <2>1 DEF Close, tables, results
    <3>2. Filled
      BY <3>1 DEF MeaningInv, Building
    <3>3. /\ [runs |-> runs, tests |-> tests, failures |-> failures] = Content(scan)
          /\ \A f \in failures : RefsOf(evidence, f.id) = OccurrenceRefs(scan, f.id)
      BY <3>1, <3>2, ClosedIsContent
    <3> QED BY <3>1, <3>3 DEF WholeIsContent, EvidenceIsOfTheRow, RefsOf
  <2>2. CASE Unlink
    <3>1. whole' = None
      BY <2>2 DEF Unlink
    <3> QED BY <3>1 DEF WholeIsContent, EvidenceIsOfTheRow
  <2>3. CASE ~Close /\ ~Unlink /\ Building
    <3>1. whole' = None
      BY <2>3, WholeSteps DEF MeaningInv
    <3> QED BY <3>1 DEF WholeIsContent, EvidenceIsOfTheRow
  <2>4. CASE ~Unlink /\ ~Building
    <3>1. UNCHANGED <<runs, tests, failures, evidence, whole>>
      BY <2>4, WholeSteps
    <3> QED BY <3>1 DEF MeaningInv, WholeIsContent, EvidenceIsOfTheRow
  <2> QED BY <2>1, <2>2, <2>3, <2>4
<1> QED BY <1>1, <1>2, <1>3 DEF MeaningInv

(***************************************************************************)
(* A finished run is failed exactly if the index can show a failure of it. *)
(***************************************************************************)
LEMMA FailedFilesExplained ==
    ASSUME NEW c \in Corpora, NEW p \in DOMAIN c.results, Indexed(c.results[p])
    PROVE  RunFails(c.results[p]) <=>
               \E i \in DOMAIN c.results[p].cases : FailuresOf(c.results[p], i) # {}
<1> DEFINE f == c.results[p]
<1>1. /\ f \in ResultFiles /\ f.kind \in {"uvm", "cocotb"}
      /\ \A k \in DOMAIN f.fails : \E i \in DOMAIN f.cases :
            f.cases[i].name = f.fails[k].name /\ (f.kind = "cocotb" => f.cases[i].status = "fail")
      /\ f.kind = "cocotb" => \A i \in DOMAIN f.cases : f.cases[i].status = "fail" =>
                                  \E k \in DOMAIN f.fails : f.fails[k].name = f.cases[i].name
  BY CaseTyped, CorporaParsed, FileTyped DEF Indexed, Frameworks
<1>2. f.fails \in Seq(Occurrences)
  BY <1>1 DEF ResultFiles
<1> HIDE DEF f
<1>3. ASSUME RunFails(f) PROVE \E i \in DOMAIN f.cases : FailuresOf(f, i) # {}
  <2>1. PICK k \in DOMAIN f.fails : TRUE
    <3>1. CASE f.kind = "uvm"
      <4>1. f.fails # << >>
        BY <1>3, <3>1 DEF RunFails
      <4>2. 1 \in DOMAIN f.fails
        BY <1>2, <4>1
      <4> QED BY <4>2
    <3>2. CASE f.kind = "cocotb"
      BY <1>1, <1>3, <3>2 DEF RunFails
    <3> QED BY <1>1, <3>1, <3>2
  <2>2. PICK i \in DOMAIN f.cases : f.cases[i].name = f.fails[k].name
    BY <1>1
  <2>3. k \in FailuresOf(f, i)
    BY <2>2 DEF FailuresOf
  <2> QED BY <2>3
<1>4. ASSUME NEW i \in DOMAIN f.cases, NEW k \in FailuresOf(f, i) PROVE RunFails(f)
  <2>1. k \in DOMAIN f.fails
    BY DEF FailuresOf
  <2> QED BY <1>1, <1>2, <2>1 DEF RunFails
<1> QED BY <1>3, <1>4 DEF f

LEMMA WholeIsExplained ==
    ASSUME TypeOK, WholeIsContent
    PROVE  FailedRunExplained
<1> SUFFICES ASSUME whole # None, NEW r \in runs
             PROVE  (r.status = "fail") <=> (\E f \in failures : f.run = r.id)
  BY DEF FailedRunExplained
<1>1. /\ whole \in Corpora /\ runs = ExpectedRuns(whole) /\ failures = ExpectedFailures(whole)
  BY DEF TypeOK, WholeIsContent, Content
<1> DEFINE Fails(id) ==
             \E p \in DOMAIN whole.results :
                 /\ Indexed(whole.results[p]) /\ RunFails(whole.results[p])
                 /\ RunOf(whole.results[p]) = id
<1>2. r.status = "fail" <=> Fails(r.id)
  BY <1>1 DEF ExpectedRuns
<1>3. (\E f \in failures : f.run = r.id) <=>
          \E x \in OccurrencesOf(whole) : FailureAt(whole, x).test.run = r.id
  <2> DEFINE at(g) == LastOf({y \in OccurrencesOf(whole) : FailureAt(whole, y) = g})
             row(g) == [id |-> g, run |-> g.test.run, occ |-> whole.results[at(g)[1]].fails[at(g)[3]].occ]
  <2>0. failures = {row(g) : g \in {FailureAt(whole, x) : x \in OccurrencesOf(whole)}}
    BY <1>1 DEF ExpectedFailures
  <2> HIDE DEF at
  <2>4. \A g : row(g).run = g.test.run
    OBVIOUS
  <2> HIDE DEF row
  <2>1. ASSUME NEW f \in failures, f.run = r.id
        PROVE  \E x \in OccurrencesOf(whole) : FailureAt(whole, x).test.run = r.id
    <3>1. PICK x \in OccurrencesOf(whole) : f.run = FailureAt(whole, x).test.run
      BY <2>0, <2>4
    <3> QED BY <2>1, <3>1
  <2>2. ASSUME NEW x \in OccurrencesOf(whole), FailureAt(whole, x).test.run = r.id
        PROVE  \E f \in failures : f.run = r.id
    <3>1. PICK f \in failures : f.run = FailureAt(whole, x).test.run
      BY <2>0, <2>4
    <3> QED BY <2>2, <3>1
  <2> QED BY <2>1, <2>2
<1>4. ASSUME NEW x \in OccurrencesOf(whole)
      PROVE  /\ x[1] \in DOMAIN whole.results /\ Indexed(whole.results[x[1]])
             /\ RunFails(whole.results[x[1]])
             /\ FailureAt(whole, x).test.run = RunOf(whole.results[x[1]])
  <2>1. /\ x[1] \in DOMAIN whole.results /\ Indexed(whole.results[x[1]])
        /\ x[2] \in DOMAIN whole.results[x[1]].cases
        /\ x[3] \in FailuresOf(whole.results[x[1]], x[2])
    BY <1>1, OccurrencesOrdered
  <2>2. RunFails(whole.results[x[1]])
    BY <1>1, <2>1, FailedFilesExplained
  <2>3. whole.results[x[1]] \in ResultFiles
    BY <1>1, <2>1, CaseTyped
  <2>4. FailureAt(whole, x).test.run = RunOf(whole.results[x[1]])
    BY <2>1, <2>3, FailureTyped, TestIdTyped DEF FailureAt, TestAt
  <2> QED BY <2>1, <2>2, <2>4
<1>5. ASSUME NEW p \in DOMAIN whole.results, Indexed(whole.results[p]), RunFails(whole.results[p])
      PROVE  \E x \in OccurrencesOf(whole) : FailureAt(whole, x).test.run = RunOf(whole.results[p])
  <2>1. PICK i \in DOMAIN whole.results[p].cases : FailuresOf(whole.results[p], i) # {}
    BY <1>1, <1>5, FailedFilesExplained
  <2>3. PICK k : k \in FailuresOf(whole.results[p], i)
    BY <2>1
  <2> DEFINE x == <<p, i, k>>
  <2>2. x \in OccurrencesOf(whole) /\ x[1] = p
    BY <1>1, <1>5, <2>1, <2>3, CaseTyped
  <2> HIDE DEF x
  <2> QED BY <1>4, <2>2
<1> QED BY <1>2, <1>3, <1>4, <1>5

(***************************************************************************)
(* The assertion failures of a log.                                        *)
(***************************************************************************)
\* How many of log p's assertion failures the cursor has passed.
EventsDone(p) ==
    CASE phase \in {"coverage", "sva", "close"} -> Len(scan.results[p].asserts)
      [] phase = "log_assertions" /\ p < pos -> Len(scan.results[p].asserts)
      [] phase = "log_assertions" /\ p = pos /\ stage \in {"bundle", "event"} -> item - 1
      [] phase = "log_assertions" /\ p = pos /\ stage = "event_evidence" -> item
      [] OTHER -> 0

KeptUpTo(p, done) ==
    /\ Cardinality(RowsOf(scan.results[p].path)) = done
    /\ \A n \in RowsOf(scan.results[p].path) :
          LogsTest(assertion_failures[n].test, scan.results[p])

Logs == {p \in DOMAIN scan.results : StoresEvents(scan, p)}
LogsKept == \A p \in Logs : KeptUpTo(p, EventsDone(p))

\* What the handlers of the two assertion phases know of their file.
InEventsFile ==
    stage # "open" =>
        /\ phase = "assertions" => File.body = "ok"
        /\ phase = "log_assertions" =>
              /\ Indexed(File) /\ File.kind = "uvm" /\ LogsTest(target, File)
              /\ item <= Len(File.asserts) + 1

KeptInv ==
    /\ Building => LogsKept
    /\ InEventsFile
    /\ LogEventsKept

\* The log's own test is stored, and no other is a better match for its name.
LEMMA LogResolves ==
    ASSUME TypeOK, ResultsResolve, LastRows(tests, CaseRows(scan), DoneCases),
           phase = "log_assertions", NEW p \in IndexedFiles(scan), scan.results[p].kind = "uvm",
           NEW q, q = scan.results[p].cases[1].name
    PROVE  ResolveTest(q, "uvm") # None /\ LogsTest(ResolveTest(q, "uvm"), scan.results[p])
<1> DEFINE f == scan.results[p]
<1>1. /\ scan \in Corpora /\ p \in DOMAIN scan.results /\ f \in ResultFiles /\ Indexed(f)
      /\ f.body = "ok" /\ scan.results \in Seq(ResultFiles)
  BY CaseTyped DEF TypeOK, IndexedFiles, Indexed
<1>2. 1 \in DOMAIN f.cases /\ q \in Names
  <2>1. f.cases # << >>
    BY <1>1, CorporaParsed
  <2>2. f.cases \in Seq(Testcases)
    BY <1>1 DEF ResultFiles
  <2>3. 1 \in DOMAIN f.cases
    BY <2>1, <2>2
  <2> QED BY <1>1, <2>3, FileTyped DEF Testcases
<1>3. PICK own \in tests : own.id = TestIdOf(f, 1)
  <2>1. <<p, 1>> \in DoneCases
    BY <1>1, <1>2, CaseTyped DEF DoneCases, CaseDone, Past
  <2>2. PICK r \in tests : r.id = CaseRows(scan)[<<p, 1>>].id
    BY <2>1 DEF LastRows
  <2> QED BY <2>1, <2>2 DEF CaseRows, DoneCases, TestAt
<1>4. own.id.name = q /\ own.id.framework = "uvm"
  BY <1>3 DEF TestIdOf
<1>5. \A t \in tests : t.at \in Nat /\ t.id \in TestIds /\ t.id.name \in Names
  BY DEF TypeOK, TestRows, TestIds
<1>6. \A t \in tests : RankAt(q, t) \in 0..3 /\ (RankAt(q, t) = 0 <=> q = t.id.name)
  BY Zenon, <1>2, <1>5, RankTyped, RankAssumption DEF RankAt
<1>7. own \in Matches(q, "uvm") /\ RankAt(q, own) = 0
  <2>1. RankAt(q, own) = 0
    BY <1>4, <1>6
  <2>2. RankAt(q, own) < 3
    BY <2>1
  <2> QED BY Zenon, <1>4, <2>1, <2>2 DEF Matches, RankAt
<1>8. BestMatches(q, "uvm") # {}
  <2>1. Len(scan.results) \in Nat /\ \A t \in tests : t.at <= Len(scan.results)
    <3>1. \A t \in tests : \E x \in CasesOf(scan) : t.at = x[1]
      BY DEF LastRows, CaseRows, DoneCases
    <3> QED BY <1>1, <3>1, CasesOrdered
  <2>2. \A t \in tests : RankAt(q, t) \in Nat
    <3>1. \A n \in 0..3 : n \in Nat
      OBVIOUS
    <3> QED BY Zenon, <1>6, <3>1
  <2> QED BY <1>5, <1>7, <2>1, <2>2, BestMatch
<1> DEFINE best == CHOOSE t \in BestMatches(q, "uvm") : TRUE
<1>9. best \in BestMatches(q, "uvm")
  BY <1>8
<1> HIDE DEF best
<1>10. best \in Matches(q, "uvm") /\ (RankAt(q, best) < RankAt(q, own) \/ RankAt(q, best) = RankAt(q, own))
  BY Zenon, <1>7, <1>9 DEF BestMatches, RankAt
<1>11. best \in tests /\ "uvm" \in {AnyFramework, best.id.framework}
  BY Zenon, <1>10 DEF Matches
<1>12. RankAt(q, best) = 0
  <2>1. RankAt(q, best) \in 0..3
    BY <1>6, <1>11
  <2> QED BY <1>7, <1>10, <2>1
<1>13. best.id.name = q /\ best.id.framework = "uvm" /\ best.id \in TestIds
  BY <1>5, <1>6, <1>11, <1>12 DEF AnyFramework
<1>14. FindTestByName(q, "uvm") = best.id /\ best.id # None
  BY <1>8, <1>13, NoneAssumption DEF FindTestByName, best
<1>15. FindTest(q, "uvm") = best.id
  BY <1>14, Zenon DEF FindTest
<1>16. RowsWith(runs, best.id.run) # {}
  BY <1>11 DEF ResultsResolve, Ids, RowsWith
<1>17. ResolveTest(q, "uvm") = best.id
  BY <1>14, <1>15, <1>16, Zenon DEF ResolveTest
<1> QED BY <1>13, <1>14, <1>17 DEF LogsTest

\* Where a step stores nothing and passes no assertion failure of a log, nothing changes.
LEMMA KeptQuiet ==
    ASSUME LogsKept, UNCHANGED <<scan, assertion_failures>>,
           \A p \in Logs : EventsDone(p)' = EventsDone(p)
    PROVE  LogsKept'
<1>1. Logs' = Logs
  BY DEF Logs
<1>2. ASSUME NEW p \in Logs
      PROVE  KeptUpTo(p, EventsDone(p))' 
  <2>1. KeptUpTo(p, EventsDone(p))
    BY DEF LogsKept
  <2>2. RowsOf(scan.results[p].path)' = RowsOf(scan.results[p].path)
    BY DEF RowsOf
  <2> QED BY <2>1, <2>2 DEF KeptUpTo
<1> QED BY <1>1, <1>2 DEF LogsKept

\* A log on the worklist of phase "log_assertions" is indexed.
LEMMA EventsFile ==
    ASSUME TypeOK, phase = "log_assertions", pos \in DOMAIN Work(phase)
    PROVE  /\ File = scan.results[pos] /\ pos \in DOMAIN scan.results /\ File \in ResultFiles
           /\ Len(File.asserts) \in Nat /\ {"assertions", "uvm"} \subseteq Adapters
           /\ BundleDefs = << >> /\ BundleEvents = File.asserts
<1>1. Work(phase) = scan.results /\ {"assertions", "uvm"} \subseteq Adapters
  <2>1. Work("log_assertions") # << >> =>
            Work("log_assertions") = scan.results /\ {"assertions", "uvm"} \subseteq Adapters
    BY DEF Work
  <2> QED BY <2>1
<1>2. File \in ResultFiles
  BY CurrentFile
<1>3. File.asserts \in Seq(AssertionEvents)
  BY <1>2 DEF ResultFiles
<1> QED BY <1>1, <1>2, <1>3 DEF File, BundleDefs, BundleEvents

\* A row appended is counted for its own path.
LEMMA RowAppended ==
    ASSUME TypeOK, NEW x, assertion_failures' = Append(assertion_failures, x), NEW path
    PROVE  /\ IsFiniteSet(RowsOf(path))
           /\ RowsOf(path)' = IF x.src = path THEN RowsOf(path) \cup {Len(assertion_failures) + 1}
                                              ELSE RowsOf(path)
           /\ Len(assertion_failures) + 1 \notin RowsOf(path)
           /\ assertion_failures'[Len(assertion_failures) + 1] = x
           /\ \A n \in RowsOf(path) : assertion_failures'[n] = assertion_failures[n]
<1> DEFINE s == assertion_failures
           last == Len(s) + 1
<1>1. s \in Seq(AssertionFailureRows \cup {x}) /\ Len(s) \in Nat /\ DOMAIN s = 1..Len(s)
  BY DEF TypeOK
<1>2. /\ DOMAIN s' = DOMAIN s \cup {last} /\ last \notin DOMAIN s
      /\ s'[last] = x /\ \A n \in DOMAIN s : s'[n] = s[n]
  BY <1>1
<1>3. IsFiniteSet(RowsOf(path))
  <2>1. IsFiniteSet(1..Len(s))
    BY <1>1, FS_Interval
  <2>2. RowsOf(path) \subseteq 1..Len(s)
    BY <1>1 DEF RowsOf
  <2> QED BY <2>1, <2>2, FS_Subset
<1>4. \A n : n \in RowsOf(path)' <=> n \in DOMAIN s' /\ s'[n].src = path
  BY DEF RowsOf
<1>5. \A n : n \in RowsOf(path) <=> n \in DOMAIN s /\ s[n].src = path
  BY DEF RowsOf
<1> HIDE DEF s, last
<1>6. \A n : n \in RowsOf(path)' <=> n \in RowsOf(path) \/ (n = last /\ x.src = path)
  BY <1>2, <1>4, <1>5
<1> QED BY <1>2, <1>3, <1>5, <1>6 DEF s, last

\* A failure of another file is stored: it is of no log.
LEMMA OthersKept ==
    ASSUME TypeOK, NEW x, assertion_failures' = Append(assertion_failures, x), scan' = scan,
           NEW p, NEW done, KeptUpTo(p, done), x.src # scan.results[p].path
    PROVE  KeptUpTo(p, done)'
<1>1. PICK path : path = scan.results[p].path
  OBVIOUS
<1>2. /\ RowsOf(path)' = RowsOf(path)
      /\ \A n \in RowsOf(path) : assertion_failures'[n] = assertion_failures[n]
  BY <1>1, RowAppended
<1>3. RowsOf(scan.results[p].path) = RowsOf(path) /\ RowsOf(scan.results[p].path)' = RowsOf(path)'
  BY <1>1 DEF RowsOf
<1> QED BY <1>2, <1>3 DEF KeptUpTo

\* A failure of log p is stored under its test: one more.
LEMMA OneMoreKept ==
    ASSUME TypeOK, NEW x, assertion_failures' = Append(assertion_failures, x), scan' = scan,
           NEW p, NEW done \in Nat, KeptUpTo(p, done), x.src = scan.results[p].path,
           LogsTest(x.test, scan.results[p])
    PROVE  KeptUpTo(p, done + 1)'
<1>1. PICK path : path = scan.results[p].path
  OBVIOUS
<1>2. PICK last : last = Len(assertion_failures) + 1
  OBVIOUS
<1>3. PICK rows : rows = RowsOf(path)
  OBVIOUS
<1>4. /\ IsFiniteSet(rows) /\ RowsOf(path)' = rows \cup {last} /\ last \notin rows
      /\ assertion_failures'[last] = x
      /\ \A n \in rows : assertion_failures'[n] = assertion_failures[n]
  BY <1>1, <1>2, <1>3, RowAppended
<1>5. RowsOf(scan.results[p].path) = rows /\ RowsOf(scan.results[p].path)' = rows \cup {last}
  <2>1. RowsOf(scan.results[p].path) = RowsOf(path) /\ RowsOf(scan.results[p].path)' = RowsOf(path)'
    BY <1>1 DEF RowsOf
  <2> QED BY <1>3, <1>4, <2>1
<1>6. Cardinality(rows \cup {last}) = done + 1
  <2>1. Cardinality(rows) = done
    BY <1>5 DEF KeptUpTo
  <2>2. Cardinality(rows \cup {last}) = Cardinality(rows) + 1
    BY <1>4, FS_AddElement
  <2> QED BY <2>1, <2>2
<1>7. \A n \in rows \cup {last} : LogsTest(assertion_failures'[n].test, scan.results[p])
  BY <1>4, <1>5 DEF KeptUpTo
<1> QED BY <1>5, <1>6, <1>7 DEF KeptUpTo, LogsTest

\* What a handler knows of its file stays so.
LEMMA InEventsStep ==
    ASSUME IInv, MidInv, KeptInv, [Next]_vars, Building => Filled
    PROVE  InEventsFile'
<1> USE DEF IInv
<1>1. CASE stage' = "open"
  BY <1>1 DEF InEventsFile
<1>2. CASE UNCHANGED <<scan, cursor, tables>>
  <2>1. UNCHANGED <<scan, phase, pos, stage, item, target>>
    BY <1>2 DEF cursor
  <2>2. File' = File
    BY <2>1, SameFile
  <2> QED BY <2>1, <2>2 DEF KeptInv, InEventsFile
<1>3. CASE \/ IndexResults \/ IndexCoverageArtifact \/ InsertCoverageSummary
           \/ IndexSvaStatusArtifact \/ InsertSvaRunStatus
  <2>1. phase' \in {"results", "coverage", "sva"}
    BY <1>3 DEF IndexResults, IndexUvmLog, IndexCocotbXml, OpenResults, InsertTest, InsertTopology,
       InsertFailure, DeleteEvidence, InsertEvidence, EndFailure, EndTest, IndexCoverageArtifact,
       InsertCoverageSummary, IndexSvaStatusArtifact, InsertSvaRunStatus, Opening, At, Stay,
       NextFile, Open, Goto, cursor
  <2> QED BY <2>1 DEF InEventsFile
<1>4. CASE IndexAssertionArtifact
  <2>1. /\ phase = "assertions" /\ UNCHANGED <<scan, phase, pos>> /\ File.body = "ok"
    BY <1>4 DEF IndexAssertionArtifact, ResolveBundle, Opening, Goto
  <2>2. File' = File
    BY <2>1, SameFile
  <2> QED BY <2>1, <2>2 DEF InEventsFile
<1>5. CASE IndexLogAssertions
  <2>1. /\ phase = "log_assertions" /\ UNCHANGED <<scan, phase, pos>> /\ pos \in DOMAIN Work(phase)
        /\ File.kind = "uvm" /\ File.body = "ok" /\ item' = 1
        /\ target' = ResolveTest(File.cases[1].name, "uvm")
    BY <1>5 DEF IndexLogAssertions, ResolveBundle, Opening, Goto
  <2>2. /\ File' = File /\ File = scan.results[pos] /\ pos \in IndexedFiles(scan)
        /\ Indexed(File) /\ Len(File.asserts) \in Nat
    BY <2>1, SameFile, EventsFile DEF Indexed, IndexedFiles
  <2>3. LastRows(tests, CaseRows(scan), DoneCases)
    BY <2>1 DEF Building, Phases, Filled
  <2>4. LogsTest(target', File)
    <3>1. PICK q : q = File.cases[1].name
      OBVIOUS
    <3>2. LogsTest(ResolveTest(q, "uvm"), scan.results[pos])
      BY <2>1, <2>2, <2>3, <3>1, LogResolves
    <3>3. ResolveTest(q, "uvm") = target'
      BY <2>1, <3>1
    <3> QED BY <2>2, <3>2, <3>3
  <2>5. Indexed(File)' /\ LogsTest(target, File)' /\ item' <= Len(File.asserts)' + 1 /\ File.kind' = "uvm"
    BY <2>1, <2>2, <2>4 DEF Indexed, LogsTest
  <2> QED BY <2>1, <2>5 DEF InEventsFile
<1>6. CASE InsertAssertion \/ InsertUnknownAssertion \/ InsertAssertionFailure \/ InsertAssertionEvidence
  <2>1. /\ stage \in {"bundle", "event", "event_evidence"}
        /\ UNCHANGED <<scan, phase, pos, target>>
        /\ item' = item \/ InsertAssertion \/ (InsertAssertionEvidence /\ item' = item + 1)
    BY <1>6 DEF InsertAssertion, InsertUnknownAssertion, InsertAssertionFailure,
                InsertAssertionEvidence, Stay, Goto
  <2>2. File' = File
    BY <2>1, SameFile
  <2>3. CASE phase = "log_assertions"
    <3>1. pos \in DOMAIN Work(phase) /\ InBundle
      BY <2>1 DEF HandlerInv, MidInv
    <3>2. /\ BundleDefs = << >> /\ BundleEvents = File.asserts /\ File.asserts \in Seq(AssertionEvents)
          /\ Len(File.asserts) \in Nat /\ item \in Nat \ {0}
      <4>1. File \in ResultFiles
        BY <2>3, <3>1, EventsFile
      <4> QED BY <2>3, <3>1, <4>1, EventsFile DEF TypeOK, ResultFiles
    <3>3. ~InsertAssertion
      BY <3>2 DEF InsertAssertion
    <3>4. item' <= Len(File.asserts) + 1
      <4>1. CASE item' = item
        BY <2>1, <2>3, <4>1 DEF KeptInv, InEventsFile
      <4>2. CASE InsertAssertionEvidence /\ item' = item + 1
        <5>1. Event \in DOMAIN File.asserts /\ Event = item
          BY <3>1, <3>2, <4>2 DEF InBundle, InsertAssertionEvidence, Event
        <5> QED BY <3>2, <4>2, <5>1
      <4> QED BY <2>1, <3>3, <4>1, <4>2
    <3> QED BY <2>1, <2>2, <2>3, <3>4 DEF KeptInv, InEventsFile, Indexed, LogsTest
  <2>4. CASE phase # "log_assertions"
    BY <2>1, <2>2, <2>4 DEF KeptInv, InEventsFile
  <2> QED BY <2>3, <2>4
<1> QED BY <1>1, <1>2, <1>3, <1>4, <1>5, <1>6, MidSteps

\* Before and after phase "log_assertions" the cursor passes no assertion failure of a log.
LEMMA QuietPhases ==
    ASSUME phase' = phase, phase # "log_assertions", scan' = scan
    PROVE  \A p : EventsDone(p)' = EventsDone(p)
BY DEF EventsDone

\* Between files: a log is passed with all its assertion failures stored, or without one.
LEMMA KeptBetweenFiles ==
    ASSUME IInv, Filled, LogsKept, Connect \/ NextPhase \/ SkipFile
    PROVE  LogsKept'
<1> USE DEF IInv
<1>1. UNCHANGED <<scan, assertion_failures>> /\ scan \in Corpora /\ pos \in Nat \ {0}
  BY DEF Connect, NextPhase, SkipFile, tables, correlated, TypeOK
<1>2. ASSUME NEW p \in Logs PROVE EventsDone(p)' = EventsDone(p)
  <2>1. /\ p \in Nat \ {0} /\ p \in DOMAIN scan.results /\ scan.results \in Seq(ResultFiles)
        /\ scan.results[p] \in ResultFiles /\ Indexed(scan.results[p])
        /\ scan.results[p].kind = "uvm" /\ {"assertions", "uvm"} \subseteq Adapters
    BY <1>1, CaseTyped DEF Logs, StoresEvents, Indexed
  <2>2. Work("log_assertions") = scan.results
    BY <2>1 DEF Work
  <2>3. CASE Connect
    BY <2>3 DEF Connect, Open, Goto, EventsDone
  <2>4. CASE NextPhase
    <3>1. /\ phase' = PhaseAfter[phase] /\ phase \in Phases /\ stage = "open" /\ stage' = "open" /\ pos' = 1
          /\ pos \notin DOMAIN Work(phase)
      BY <2>4 DEF NextPhase, Open, Goto
    <3>2. phase = "log_assertions" => p < pos
      <4>1. phase = "log_assertions" => pos \notin DOMAIN scan.results
        BY <2>2, <3>1
      <4> QED BY <1>1, <2>1, <4>1
    <3>3. ~(p < 1)
      BY <2>1
    <3>4. CASE phase = "log_assertions"
      <4>1. phase' = "coverage"
        BY <3>1, <3>4 DEF PhaseAfter
      <4> QED BY <1>1, <3>2, <3>4, <4>1 DEF EventsDone
    <3>5. CASE phase \in {"coverage", "sva"}
      <4>1. phase' \in {"sva", "close"}
        BY <3>1, <3>5 DEF PhaseAfter
      <4> QED BY <1>1, <3>5, <4>1 DEF EventsDone
    <3>6. CASE phase \in {"results", "waves", "assertions"}
      <4>1. phase' \in {"waves", "assertions", "log_assertions"}
        BY <3>1, <3>6 DEF PhaseAfter
      <4> QED BY <1>1, <3>1, <3>3, <3>6, <4>1 DEF EventsDone
    <3> QED BY <3>1, <3>4, <3>5, <3>6 DEF Phases
  <2>5. CASE SkipFile
    <3>1. /\ phase' = phase /\ phase \in Phases /\ stage = "open" /\ stage' = "open" /\ pos' = pos + 1
          /\ ~Handled
      BY <2>5 DEF SkipFile, NextFile, Open, Goto, Opening
    <3>2. CASE phase # "log_assertions"
      BY <1>1, <3>1, <3>2, QuietPhases
    <3>3. CASE phase = "log_assertions"
      <4>1. p = pos => Len(scan.results[p].asserts) = 0
        <5> SUFFICES ASSUME p = pos PROVE Len(scan.results[p].asserts) = 0
          OBVIOUS
        <5>1. File = scan.results[p] /\ File.kind = "uvm" /\ File.body = "ok"
          BY <2>1, <2>2, <3>3 DEF File, Indexed
        <5>2. PICK q : q = File.cases[1].name
          OBVIOUS
        <5>3. ResolveTest(q, "uvm") # None
          <6>1. p \in IndexedFiles(scan)
            BY <2>1 DEF IndexedFiles
          <6> QED BY <2>1, <3>3, <5>1, <5>2, <6>1, LogResolves DEF Filled
        <5>4. File.asserts = << >>
          BY <3>1, <3>3, <5>1, <5>2, <5>3 DEF Handled
        <5> QED BY <5>1, <5>4
      <4>2. p < pos' <=> p < pos \/ p = pos
        BY <1>1, <2>1, <3>1
      <4> QED BY <1>1, <3>1, <3>3, <4>1, <4>2 DEF EventsDone
    <3> QED BY <3>2, <3>3
  <2> QED BY <2>3, <2>4, <2>5
<1> QED BY <1>1, <1>2, KeptQuiet

\* In a bundle: the failure stored is one of the log the cursor is in, or of no log.
LEMMA KeptInBundle ==
    ASSUME IInv, MidInv, InEventsFile, LogsKept, InsertAssertionFailure
    PROVE  LogsKept'
<1> USE DEF IInv
<1>1. /\ UNCHANGED <<scan, phase, pos, item>> /\ stage' = "event_evidence"
      /\ stage \in {"bundle", "event"} /\ item \in Nat \ {0} /\ scan \in Corpora
      /\ phase \in {"assertions", "log_assertions"}
  BY DEF InsertAssertionFailure, Stay, Goto, TypeOK, StagesOf, Phases
<1>2. pos \in DOMAIN Work(phase) /\ Logs' = Logs
  BY <1>1 DEF HandlerInv, Logs
<1>3. PICK x : /\ assertion_failures' = Append(assertion_failures, x)
               /\ x.src = File.path /\ x.test = target
  BY DEF InsertAssertionFailure
<1>4. ASSUME NEW p \in Logs PROVE KeptUpTo(p, EventsDone(p))'
  <2>1. PICK done : done = EventsDone(p)
    OBVIOUS
  <2>2. KeptUpTo(p, done) /\ OwnPath(scan, p) /\ p \in DOMAIN scan.results
    BY <2>1 DEF LogsKept, Logs, StoresEvents
  <2>3. CASE phase = "assertions"
    <3>1. File.body = "ok" /\ pos \in DOMAIN scan.asserts /\ File = scan.asserts[pos]
      <4>1. Work("assertions") # << >> => Work("assertions") = scan.asserts
        BY DEF Work
      <4> QED BY <1>1, <1>2, <2>3, <4>1 DEF InEventsFile, File
    <3>2. x.src # scan.results[p].path
      BY <1>3, <2>2, <3>1 DEF OwnPath
    <3>3. KeptUpTo(p, done)'
      BY <1>1, <1>3, <2>2, <3>2, OthersKept
    <3>4. EventsDone(p)' = done
      BY <1>1, <2>1, <2>3, QuietPhases
    <3> QED BY <3>3, <3>4
  <2>4. CASE phase = "log_assertions" /\ p # pos
    <3>1. pos \in DOMAIN scan.results /\ File = scan.results[pos]
      BY <1>2, <2>4, EventsFile
    <3>2. x.src # scan.results[p].path
      BY <1>3, <2>2, <2>4, <3>1 DEF OwnPath
    <3>3. KeptUpTo(p, done)'
      BY <1>1, <1>3, <2>2, <3>2, OthersKept
    <3>4. EventsDone(p)' = done
      BY <1>1, <2>1, <2>4 DEF EventsDone
    <3> QED BY <3>3, <3>4
  <2>5. CASE phase = "log_assertions" /\ p = pos
    <3>1. File = scan.results[p] /\ LogsTest(x.test, scan.results[p])
      BY <1>1, <1>2, <1>3, <2>5, EventsFile DEF InEventsFile
    <3>2. done = item - 1 /\ done \in Nat /\ EventsDone(p)' = done + 1
      BY <1>1, <2>1, <2>5 DEF EventsDone
    <3>3. KeptUpTo(p, done + 1)'
      BY <1>1, <1>3, <2>2, <3>1, <3>2, OneMoreKept
    <3> QED BY <3>2, <3>3
  <2> QED BY <1>1, <2>3, <2>4, <2>5
<1> QED BY <1>2, <1>4 DEF LogsKept

\* The other steps of a handler store no assertion failure.
LEMMA KeptInHandlers ==
    ASSUME IInv, MidInv, InEventsFile, LogsKept, IndexResults \/ Correlate
    PROVE  LogsKept'
<1> USE DEF IInv
<1>1. CASE IndexResults
  <2>1. UNCHANGED <<scan, phase, assertion_failures>> /\ phase = "results"
    BY <1>1 DEF IndexResults, IndexUvmLog, IndexCocotbXml, OpenResults, InsertTest, InsertTopology,
       InsertFailure, DeleteEvidence, InsertEvidence, EndFailure, EndTest, Opening, At, Stay,
       NextFile, Open, Goto, tables, correlated
  <2> QED BY <2>1, QuietPhases, KeptQuiet
<1>2. CASE \/ IndexWaveformSummary \/ IndexAssertionArtifact \/ IndexCoverageArtifact
           \/ InsertCoverageSummary \/ InsertCoverageEvidence \/ IndexSvaStatusArtifact
           \/ InsertSvaRunStatus \/ EndSva
  <2>1. UNCHANGED <<scan, phase, assertion_failures>> /\ phase # "log_assertions"
    BY <1>2 DEF IndexWaveformSummary, IndexAssertionArtifact, ResolveBundle, IndexCoverageArtifact,
       InsertCoverageSummary, InsertCoverageEvidence, IndexSvaStatusArtifact, InsertSvaRunStatus,
       EndSva, Opening, At, Stay, NextFile, Open, Goto, tables, correlated
  <2> QED BY <2>1, QuietPhases, KeptQuiet
<1>3. CASE IndexLogAssertions
  <2>1. /\ UNCHANGED <<scan, phase, pos, assertion_failures>> /\ phase = "log_assertions"
        /\ stage = "open" /\ stage' = "bundle" /\ item' = 1
    BY <1>3 DEF IndexLogAssertions, ResolveBundle, Opening, Goto, tables, correlated
  <2>2. \A p \in Logs : EventsDone(p)' = EventsDone(p)
    BY <2>1 DEF EventsDone
  <2> QED BY <2>1, <2>2, KeptQuiet
<1>4. CASE InsertAssertionFailure
  BY <1>4, KeptInBundle
<1>5. CASE InsertAssertion \/ InsertUnknownAssertion \/ InsertAssertionEvidence \/ EndBundle
  <2>1. /\ UNCHANGED <<scan, phase, assertion_failures>>
        /\ stage \in {"bundle", "event_evidence"} /\ phase \in {"assertions", "log_assertions"}
        /\ pos \in Nat /\ item \in Nat \ {0} /\ scan \in Corpora
    BY <1>5 DEF InsertAssertion, InsertUnknownAssertion, InsertAssertionEvidence, EndBundle, Stay,
       NextFile, Open, Goto, tables, correlated, TypeOK, StagesOf, Phases
  <2>2. CASE phase = "assertions"
    BY <2>1, <2>2, QuietPhases, KeptQuiet
  <2>3. CASE phase = "log_assertions"
    <3>1. /\ pos \in DOMAIN Work(phase)
          /\ Len(File.asserts) \in Nat /\ BundleDefs = << >> /\ BundleEvents = File.asserts
          /\ File = scan.results[pos]
      BY <2>1, <2>3, EventsFile DEF HandlerInv
    <3>2. ASSUME NEW p \in Logs PROVE EventsDone(p)' = EventsDone(p)
      <4>1. p \in Nat
        BY <2>1, CaseTyped DEF Logs
      <4>2. CASE InsertUnknownAssertion
        <5>1. stage = "bundle" /\ stage' = "event" /\ UNCHANGED <<scan, phase, pos, item>>
          BY <4>2 DEF InsertUnknownAssertion, Stay, Goto
        <5> QED BY <2>3, <5>1 DEF EventsDone
      <4>3. CASE InsertAssertionEvidence
        <5>1. stage = "event_evidence" /\ stage' = "bundle" /\ UNCHANGED <<scan, phase, pos>> /\ item' = item + 1
          BY <4>3 DEF InsertAssertionEvidence, Stay, Goto
        <5> QED BY <2>1, <2>3, <5>1 DEF EventsDone
      <4>4. CASE EndBundle
        <5>1. /\ stage = "bundle" /\ item > Len(File.asserts) /\ item <= Len(File.asserts) + 1
              /\ stage' = "open" /\ pos' = pos + 1 /\ phase' = phase /\ scan' = scan
          BY <2>1, <2>3, <3>1, <4>4 DEF EndBundle, NextFile, Open, Goto, InEventsFile
        <5>2. item - 1 = Len(File.asserts)
          BY <2>1, <3>1, <5>1
        <5>3. p < pos' <=> p < pos \/ p = pos
          BY <2>1, <4>1, <5>1
        <5> QED BY <2>3, <3>1, <5>1, <5>2, <5>3 DEF EventsDone
      <4>5. ~InsertAssertion
        BY <3>1 DEF InsertAssertion
      <4> QED BY <1>5, <4>2, <4>3, <4>4, <4>5
    <3> QED BY <2>1, <3>2, KeptQuiet
  <2> QED BY <2>1, <2>2, <2>3
<1> QED BY <1>1, <1>2, <1>3, <1>4, <1>5 DEF Correlate

\* Between passes nothing is stored.
LEMMA IdleKeeps ==
    ASSUME [Next]_vars, TypeOK, ~Building, ~Unlink
    PROVE  ~Building' /\ assertion_failures' = assertion_failures /\ whole' = whole
<1> USE DEF cursor, tables, correlated
<1>1. CASE UNCHANGED vars
  BY <1>1 DEF vars, Building
<1>2. CASE Export \/ Scan \/ Crash
  BY <1>2 DEF Export, Scan, Crash, Stop, Open, Goto, Building, Phases
<1>3. ~(Connect \/ NextPhase \/ SkipFile \/ Close \/ AbortOnFile \/ AbortOnSva \/ IndexResults \/ Correlate)
  <2>1. /\ IndexResults \/ AbortOnFile \/ AbortOnSva \/ Connect \/ NextPhase \/ SkipFile \/ Close => Building
    BY DEF IndexResults, IndexUvmLog, IndexCocotbXml, OpenResults, Opening, At, InsertTest,
       InsertTopology, InsertFailure, DeleteEvidence, InsertEvidence, EndFailure, EndTest, Building,
       Phases, AbortOnFile, AbortOnSva, Connect, NextPhase, SkipFile, Close
  <2>2. Correlate => Building
    BY DEF Correlate, IndexWaveformSummary, IndexAssertionArtifact, IndexLogAssertions,
       InsertAssertion, InsertUnknownAssertion, InsertAssertionFailure, InsertAssertionEvidence,
       InsertCoverageEvidence, EndBundle, IndexCoverageArtifact, InsertCoverageSummary,
       IndexSvaStatusArtifact, InsertSvaRunStatus, EndSva, Opening, At, TypeOK, StagesOf, Building, Phases
  <2> QED BY <2>1, <2>2
<1> QED BY <1>1, <1>2, <1>3 DEF Next, Proceed

LEMMA KeptStep ==
    ASSUME IInv, MidInv, MeaningInv, KeptInv, [Next]_vars
    PROVE  KeptInv'
<1> USE DEF IInv
<1>1. InEventsFile'
  BY InEventsStep DEF MeaningInv
<1>2. Building' => LogsKept'
  <2> SUFFICES ASSUME Building' PROVE LogsKept'
    OBVIOUS
  <2>1. CASE ~Building
    <3>1. Unlink
      BY <2>1, IdleKeeps
    <3>2. assertion_failures' = << >> /\ phase' = "connect"
      BY <3>1 DEF Unlink, Open, Goto
    <3>3. ASSUME NEW p PROVE KeptUpTo(p, EventsDone(p))'
      <4>1. EventsDone(p)' = 0
        BY <3>2 DEF EventsDone
      <4>2. RowsOf(scan.results[p].path)' = {}
        BY <3>2 DEF RowsOf
      <4> QED BY <4>1, <4>2, FS_EmptySet DEF KeptUpTo
    <3> QED BY <3>3 DEF LogsKept
  <2>2. CASE Building
    <3>1. UNCHANGED vars \/ Connect \/ NextPhase \/ SkipFile \/ IndexResults \/ Correlate
      BY <2>2, WholeSteps DEF Building, Phases
    <3>2. Filled /\ LogsKept /\ InEventsFile
      BY <2>2 DEF MeaningInv, KeptInv
    <3>3. CASE UNCHANGED vars
      <4>1. UNCHANGED <<scan, phase, pos, stage, item, assertion_failures>>
        BY <3>3 DEF vars, cursor, tables, correlated
      <4>2. \A p \in Logs : EventsDone(p)' = EventsDone(p)
        BY <4>1 DEF EventsDone
      <4> QED BY <3>2, <4>1, <4>2, KeptQuiet
    <3> QED BY <3>1, <3>2, <3>3, KeptBetweenFiles, KeptInHandlers
  <2> QED BY <2>1, <2>2
<1>3. LogEventsKept'
  <2>1. CASE Close
    <3>1. whole' = scan /\ phase = "close" /\ assertion_failures' = assertion_failures /\ Building
      BY <2>1 DEF Close, tables, correlated, Building
    <3>2. ASSUME NEW p \in DOMAIN scan.results, StoresEvents(scan, p)
          PROVE  KeptUpTo(p, Len(scan.results[p].asserts))
      <4>1. EventsDone(p) = Len(scan.results[p].asserts)
        BY <3>1 DEF EventsDone
      <4> QED BY <3>1, <3>2, <4>1 DEF KeptInv, LogsKept, Logs
    <3>3. \A path : RowsOf(path)' = RowsOf(path)
      BY <3>1 DEF RowsOf
    <3> QED BY <3>1, <3>2, <3>3 DEF LogEventsKept, KeptUpTo, RowsOf
  <2>2. CASE Unlink
    <3>1. whole' = None
      BY <2>2 DEF Unlink
    <3> QED BY <3>1 DEF LogEventsKept
  <2>3. CASE ~Close /\ ~Unlink /\ Building
    <3>1. whole' = None
      BY <2>3, WholeSteps DEF MeaningInv
    <3> QED BY <3>1 DEF LogEventsKept
  <2>4. CASE ~Unlink /\ ~Building
    BY <2>4, IdleKeeps DEF KeptInv, LogEventsKept, RowsOf
  <2> QED BY <2>1, <2>2, <2>3, <2>4
<1> QED BY <1>1, <1>2, <1>3 DEF KeptInv

(***************************************************************************)
(* Theorems.                                                               *)
(***************************************************************************)
\* In every reachable state the index holds the rows of the positions its cursor has passed
\* and no others, and the index of a finished pass those of every position.
THEOREM MeaningInductive == Spec => []MeaningInv
<1>1. Init => MeaningInv
  BY DEF Init, MeaningInv, Building, Phases, InOrder, WholeIsContent, EvidenceIsOfTheRow
<1>2. IInv /\ MeaningInv /\ [Next]_vars => MeaningInv'
  BY MeaningStep
<1> QED BY Inductive, <1>1, <1>2, PTL DEF Spec

\* A pass that reached its end holds exactly the runs, tests and failures that its artifacts
\* mean, whatever earlier passes left behind and wherever they were cut short.
THEOREM FinishedIndexIsContent == Spec => []WholeIsContent
<1>1. MeaningInv => WholeIsContent
  BY DEF MeaningInv
<1> QED BY MeaningInductive, <1>1, PTL

\* Each failure of a finished index has the evidence of the occurrence its row shows, all of
\* it, and none of the occurrences that row replaced.
THEOREM EvidenceOfTheRow == Spec => []EvidenceIsOfTheRow
<1>1. MeaningInv => EvidenceIsOfTheRow
  BY DEF MeaningInv
<1> QED BY MeaningInductive, <1>1, PTL

\* In a finished index a run is failed if and only if a failure of it can be shown.
THEOREM FailedRunsExplained == Spec => []FailedRunExplained
<1>1. IInv /\ MeaningInv => FailedRunExplained
  BY WholeIsExplained DEF IInv, MeaningInv
<1> QED BY Inductive, MeaningInductive, <1>1, PTL

\* The assertion failures that the index shows of a log are those its cursor has passed.
THEOREM KeptInductive == Spec => []KeptInv
<1>1. Init => KeptInv
  BY DEF Init, KeptInv, Building, Phases, InEventsFile, LogEventsKept
<1>2. IInv /\ MidInv /\ MeaningInv /\ KeptInv /\ [Next]_vars => KeptInv'
  BY KeptStep
<1>3. RInv => MidInv
  BY DEF RInv
<1> QED BY Inductive, ReferencesInductive, MeaningInductive, <1>1, <1>2, <1>3, PTL DEF Spec

\* A finished index has every assertion failure of a log once, under a test of the log's own
\* name, whatever the other tests are called.
THEOREM LogEventsStored == Spec => []LogEventsKept
<1>1. KeptInv => LogEventsKept
  BY DEF KeptInv
<1> QED BY KeptInductive, <1>1, PTL

(***************************************************************************)
(* The pass implements the abstract rebuild.                               *)
(***************************************************************************)
LEMMA SameMeaning ==
    \A c : Build!Meaning(c) =
        {[fact |-> "run", id |-> r.id] : r \in ExpectedRuns(c)}
          \cup {[fact |-> "failed", id |-> r.id] : r \in {s \in ExpectedRuns(c) : s.status = "fail"}}
          \cup {[fact |-> "test", id |-> t.id] : t \in ExpectedTests(c)}
          \cup {[fact |-> "failure", id |-> f.id] : f \in ExpectedFailures(c)}
<1>1. \A c : Build!ExpectedTests(c) = ExpectedTests(c)
  BY DEF Build!ExpectedTests, ExpectedTests, Build!LastOf, LastOf, Build!Before, Before,
     Build!CasesOf, CasesOf, Build!Indexed, Indexed, Build!TestAt, TestAt, Build!TestIdOf, TestIdOf,
     Build!RunOf, RunOf, Build!RunIdOf, RunIdOf, Build!CaseStatus, CaseStatus, Build!FileStatus,
     FileStatus, Build!RunFails, RunFails
<1>2. \A c : Build!ExpectedFailures(c) = ExpectedFailures(c)
  BY DEF Build!ExpectedFailures, ExpectedFailures, Build!LastOf, LastOf, Build!Before, Before,
     Build!CasesOf, CasesOf, Build!Indexed, Indexed, Build!TestAt, TestAt, Build!TestIdOf, TestIdOf,
     Build!RunOf, RunOf, Build!RunIdOf, RunIdOf, Build!OccurrencesOf, OccurrencesOf,
     Build!FailuresOf, FailuresOf, Build!FailureAt, FailureAt, Build!FailureIdOf, FailureIdOf
<1>3. \A c : Build!ExpectedRuns(c) = ExpectedRuns(c)
  <2>1. \A c : Build!OrphanCoverage(c) = OrphanCoverage(c)
    BY <1>1, Zenon DEF Build!OrphanCoverage, OrphanCoverage
  <2> QED BY <2>1, Zenon DEF Build!ExpectedRuns, ExpectedRuns, Build!Indexed, Indexed, Build!RunOf, RunOf,
     Build!RunIdOf, RunIdOf, Build!RunFails, RunFails
<1> QED BY <1>1, <1>2, <1>3 DEF Build!Meaning, Build!FactsOf, Build!Fact, Build!Content

LEMMA ExpectedIds ==
    ASSUME NEW c
    PROVE  /\ \A x \in CasesOf(c) : \E t \in ExpectedTests(c) : t.id = TestAt(c, x)
           /\ \A x \in OccurrencesOf(c) : \E f \in ExpectedFailures(c) : f.id = FailureAt(c, x)
           /\ \A p \in IndexedFiles(c) : \E r \in ExpectedRuns(c) :
                 r.id = RunOf(c.results[p]) /\ (RunFails(c.results[p]) => r.status = "fail")
           /\ \A v \in OrphanCoverage(c) : \E r \in ExpectedRuns(c) :
                 r.id = RunIdOf(c.coverage[v].path, c.coverage[v].build)
<1>1. \A x \in CasesOf(c) : \E t \in ExpectedTests(c) : t.id = TestAt(c, x)
  <2> DEFINE at(t) == LastOf({y \in CasesOf(c) : TestAt(c, y) = t})
             row(t) == [id |-> t, status |-> CaseStatus(c.results[at(t)[1]], at(t)[2]),
                        seed |-> c.results[at(t)[1]].cases[at(t)[2]].seed, at |-> at(t)[1]]
  <2>1. ExpectedTests(c) = {row(t) : t \in {TestAt(c, x) : x \in CasesOf(c)}}
    BY DEF ExpectedTests
  <2> HIDE DEF at
  <2>2. \A t : row(t).id = t
    OBVIOUS
  <2> HIDE DEF row
  <2> QED BY <2>1, <2>2
<1>2. \A x \in OccurrencesOf(c) : \E f \in ExpectedFailures(c) : f.id = FailureAt(c, x)
  <2> DEFINE at(g) == LastOf({y \in OccurrencesOf(c) : FailureAt(c, y) = g})
             row(g) == [id |-> g, run |-> g.test.run, occ |-> c.results[at(g)[1]].fails[at(g)[3]].occ]
  <2>1. ExpectedFailures(c) = {row(g) : g \in {FailureAt(c, x) : x \in OccurrencesOf(c)}}
    BY DEF ExpectedFailures
  <2> HIDE DEF at
  <2>2. \A g : row(g).id = g
    OBVIOUS
  <2> HIDE DEF row
  <2> QED BY <2>1, <2>2
<1> DEFINE files == {p \in DOMAIN c.results : Indexed(c.results[p])}
           failing == {RunOf(c.results[p]) : p \in {q \in files : RunFails(c.results[q])}}
           own == {RunOf(c.results[p]) : p \in files}
           orphan == {RunIdOf(c.coverage[v].path, c.coverage[v].build) : v \in OrphanCoverage(c)}
           row(r) == [id |-> r, status |-> IF r \in failing THEN "fail" ELSE "pass"]
<1>3. ExpectedRuns(c) = {row(r) : r \in own \cup orphan}
  BY DEF ExpectedRuns
<1>4. /\ \A p \in IndexedFiles(c) : /\ RunOf(c.results[p]) \in own
                                    /\ RunFails(c.results[p]) => RunOf(c.results[p]) \in failing
      /\ \A v \in OrphanCoverage(c) : RunIdOf(c.coverage[v].path, c.coverage[v].build) \in orphan
  BY DEF IndexedFiles
<1> HIDE DEF own, orphan, failing
<1>5. \A r : row(r).id = r /\ (r \in failing => row(r).status = "fail")
  OBVIOUS
<1> HIDE DEF row
<1> QED BY <1>1, <1>2, <1>3, <1>4, <1>5

\* A pass that is under way shows nothing but what the artifacts it scanned mean.
OnlyMeaning == Building => Shown \subseteq Build!Meaning(scan)

LEMMA ShowsOnlyMeaning ==
    ASSUME TypeOK, MeaningInv
    PROVE  OnlyMeaning
<1> SUFFICES ASSUME Filled PROVE Shown \subseteq Build!Meaning(scan)
  BY DEF OnlyMeaning, MeaningInv
<1>1. \A t \in tests : \E x \in CasesOf(scan) : t.id = TestAt(scan, x)
  BY DEF Filled, LastRows, CaseRows, DoneCases
<1>2. \A f \in failures : \E x \in OccurrencesOf(scan) : f.id = FailureAt(scan, x)
  BY DEF Filled, LastRows, OccurrenceRows, DoneOccurrences
<1>3. ASSUME NEW r \in runs PROVE \E s \in ExpectedRuns(scan) : s.id = r.id
  <2>1. r.id \in Ids(runs)
    BY DEF Ids
  <2>2. CASE \E p \in OpenedFiles : r.id = RunOf(scan.results[p])
    BY <2>2, ExpectedIds DEF OpenedFiles
  <2>3. CASE \E v \in DoneOrphans : r.id = RunIdOf(scan.coverage[v].path, scan.coverage[v].build)
    BY <2>3, ExpectedIds DEF DoneOrphans
  <2> QED BY <2>1, <2>2, <2>3 DEF Filled, RunsAre
<1>4. ASSUME NEW r \in runs, r.status = "fail"
      PROVE  \E s \in ExpectedRuns(scan) : s.id = r.id /\ s.status = "fail"
  BY <1>4, ExpectedIds DEF Filled, RunsAre, OpenedFiles
<1>5. \A t \in tests : \E s \in ExpectedTests(scan) : s.id = t.id
  BY <1>1, ExpectedIds
<1>6. \A f \in failures : \E s \in ExpectedFailures(scan) : s.id = f.id
  BY <1>2, ExpectedIds
<1> QED BY <1>3, <1>4, <1>5, <1>6, SameMeaning DEF Shown, Ids

LEMMA BuildSteps ==
    ASSUME TypeOK, [Next]_vars
    PROVE  \/ UNCHANGED vars
           \/ Export \/ Scan \/ Unlink \/ Close
           \/ Running /\ Stop
           \/ Building /\ Building' /\ UNCHANGED <<corpus, scan, whole>>
<1> USE DEF cursor, tables, results
<1>1. CASE UNCHANGED vars \/ Export \/ Scan \/ Unlink \/ Close \/ Crash
  BY <1>1 DEF Crash
<1>2. CASE AbortOnFile \/ AbortOnSva
  BY <1>2 DEF AbortOnFile, AbortOnSva, At, Opening, Phases, Running
<1>3. CASE Connect \/ NextPhase \/ SkipFile
  BY <1>3 DEF Connect, NextPhase, SkipFile, NextFile, Open, Goto, Building, Phases, PhaseAfter
<1>4. CASE IndexResults
  BY <1>4 DEF IndexResults, IndexUvmLog, IndexCocotbXml, OpenResults, Opening, At, InsertTest,
     InsertTopology, InsertFailure, DeleteEvidence, InsertEvidence, EndFailure, EndTest, Building,
     Phases, NextFile, Stay, Open, Goto
<1>5. CASE Correlate
  <2>1. UNCHANGED <<corpus, scan, whole>> /\ phase' = phase
    BY <1>5 DEF Correlate, IndexWaveformSummary, IndexAssertionArtifact, IndexLogAssertions,
       ResolveBundle, InsertAssertion, InsertUnknownAssertion, InsertAssertionFailure,
       InsertAssertionEvidence, InsertCoverageEvidence, EndBundle, IndexCoverageArtifact,
       InsertCoverageSummary, IndexSvaStatusArtifact, InsertSvaRunStatus, EndSva,
       NextFile, Stay, Open, Goto
  <2>2. Building
    BY <1>5 DEF Correlate, IndexWaveformSummary, IndexAssertionArtifact, IndexLogAssertions,
       InsertAssertion, InsertUnknownAssertion, InsertAssertionFailure, InsertAssertionEvidence,
       InsertCoverageEvidence, EndBundle, IndexCoverageArtifact, InsertCoverageSummary,
       IndexSvaStatusArtifact, InsertSvaRunStatus, EndSva, Opening, At, TypeOK, StagesOf, Building, Phases
  <2> QED BY <2>1, <2>2 DEF Building
<1> QED BY <1>1, <1>2, <1>3, <1>4, <1>5 DEF Next, Proceed

LEMMA ShownKept ==
    ASSUME NothingForgotten
    PROVE  Shown \subseteq Shown'
<1>1. /\ \A r \in runs : \E s \in runs' : s.id = r.id /\ (r.status = "fail" => s.status = "fail")
      /\ Ids(tests) \subseteq Ids(tests)' /\ Ids(failures) \subseteq Ids(failures)'
  BY DEF NothingForgotten, Ids
<1> QED BY <1>1 DEF Shown, Ids

LEMMA BuildStep ==
    ASSUME IInv, MeaningInv, OnlyMeaning', [Next]_vars
    PROVE  [Build!BuildNext]_(Build!buildVars)
<1> USE DEF IInv
<1>1. CASE UNCHANGED vars
  <2>1. UNCHANGED <<corpus, scan, phase, whole, runs, tests, failures>>
    BY <1>1 DEF vars, cursor, tables, results
  <2>2. Mode' = Mode /\ Shown' = Shown
    BY <2>1 DEF Mode, Shown, Ids
  <2> QED BY <2>1, <2>2 DEF Build!buildVars
<1>2. CASE Export \/ Scan
  <2>1. UNCHANGED <<whole, runs, tests, failures>>
    BY <1>2 DEF Export, Scan, cursor, tables, results
  <2>2. Shown' = Shown
    BY <2>1 DEF Shown, Ids
  <2>3. Export => Build!ExportArtifacts
    BY <2>1, <2>2 DEF Export, cursor, Mode, Build!ExportArtifacts
  <2>4. Scan => Build!Begin
    BY <2>1, <2>2 DEF Scan, Open, Goto, Mode, Build!Begin
  <2> QED BY <1>2, <2>3, <2>4 DEF Build!BuildNext
<1>3. CASE Unlink
  <2>1. Shown' = {}
    BY <1>3 DEF Unlink, Shown, Ids
  <2> QED BY <1>3, <2>1 DEF Unlink, Open, Goto, Mode, Build!Forget, Build!BuildNext
<1>4. CASE Close
  <2>1. phase = "close" /\ phase' = "idle" /\ whole' = scan
        /\ UNCHANGED <<corpus, scan, runs, tests, failures>>
    BY <1>4 DEF Close, Open, Goto, tables, results
  <2>2. Filled
    BY <2>1 DEF MeaningInv, Building
  <2>3. runs = ExpectedRuns(scan) /\ tests = ExpectedTests(scan) /\ failures = ExpectedFailures(scan)
    BY <2>1, <2>2, ClosedIsContent DEF Content
  <2>4. Shown = Build!Meaning(scan)
    <3> DEFINE facts(kind, I) == {[fact |-> kind, id |-> i] : i \in I}
               rows(kind, T) == {[fact |-> kind, id |-> r.id] : r \in T}
               failed == {r \in runs : r.status = "fail"}
    <3>1. \A kind, T : facts(kind, Ids(T)) = rows(kind, T)
      BY DEF Ids
    <3>2. Shown = facts("run", Ids(runs)) \cup facts("failed", Ids(failed))
                    \cup facts("test", Ids(tests)) \cup facts("failure", Ids(failures))
      BY DEF Shown
    <3>3. Build!Meaning(scan) = rows("run", runs) \cup rows("failed", failed)
                                  \cup rows("test", tests) \cup rows("failure", failures)
      BY <2>3, SameMeaning
    <3> HIDE DEF facts, rows, failed
    <3> QED BY <3>1, <3>2, <3>3
  <2>5. Shown' = Shown
    BY <2>1 DEF Shown, Ids
  <2> QED BY <2>1, <2>4, <2>5 DEF Mode, Build!Complete, Build!BuildNext
<1>5. CASE Running /\ Stop
  <2>1. UNCHANGED <<corpus, scan, whole, runs, tests, failures>> /\ phase # "idle" /\ phase' = "idle"
    BY <1>5 DEF Running, Stop, Open, Goto, tables, results
  <2>2. Shown' = Shown
    BY <2>1 DEF Shown, Ids
  <2> QED BY <2>1, <2>2 DEF Mode, Build!GiveUp, Build!BuildNext
<1>6. CASE Building /\ Building' /\ UNCHANGED <<corpus, scan, whole>>
  <2>1. Mode = "building" /\ Mode' = "building"
    BY <1>6 DEF Mode, Building, Phases
  <2>2. Shown \subseteq Shown'
    BY <1>6, StickyStep, ShownKept DEF Building, Phases
  <2>3. Shown' \subseteq Build!Meaning(scan)
    <3>1. Shown' \subseteq Build!Meaning(scan)'
      BY <1>6 DEF OnlyMeaning
    <3>2. Build!Meaning(scan)' = Build!Meaning(scan)
      BY <1>6, SameMeaning
    <3> QED BY <3>1, <3>2
  <2> QED BY <1>6, <2>1, <2>2, <2>3 DEF Build!Show, Build!BuildNext
<1> QED BY <1>1, <1>2, <1>3, <1>4, <1>5, <1>6, BuildSteps

\* Cut short anywhere and repeated at any time, the pass shows what a rebuild promises: it
\* forgets once, only adds what the artifacts it scanned mean, and ends with all of it.
THEOREM ImplementsBuildSafe == Spec => Build!BuildSafe
<1>1. Init => Build!BuildInit
  BY DEF Init, Build!BuildInit, Mode, Shown, Ids
<1>2. IInv /\ MeaningInv => OnlyMeaning
  BY ShowsOnlyMeaning DEF IInv
<1>3. IInv /\ MeaningInv /\ OnlyMeaning' /\ [Next]_vars => [Build!BuildNext]_(Build!buildVars)
  BY BuildStep
<1> QED BY Inductive, MeaningInductive, <1>1, <1>2, <1>3, PTL DEF Spec, Build!BuildSafe

=============================================================================
