---------------------------- MODULE ListingProofs ----------------------------
(***************************************************************************)
(* Theorems of Listing: the pages of a list tool put together.             *)
(***************************************************************************)
EXTENDS Listing, FiniteSetTheorems, SequenceTheorems, WellFoundedInduction, TLAPS

LEMMA SeqsOfASet ==
    ASSUME NEW S, IsFiniteSet(S), NEW s \in SetToSeqs(S)
    PROVE  /\ s \in Seq(S) /\ Len(s) = Cardinality(S)
           /\ \A i, j \in DOMAIN s : s[i] = s[j] => i = j
<1>1. Cardinality(S) \in Nat
  BY FS_CardinalityType
<1>2. /\ s \in [1..Cardinality(S) -> S]
      /\ \A i, j \in 1..Cardinality(S) : s[i] = s[j] => i = j
  BY DEF SetToSeqs
<1> QED BY <1>1, <1>2

LEMMA Division ==
    ASSUME NEW n \in Nat, NEW p \in Nat, NEW z \in Nat \ {0}
    PROVE  /\ (n + z - 1) \div z \in Nat
           /\ p < (n + z - 1) \div z <=> p * z < n
<1> DEFINE q == (n + z - 1) \div z
<1>1. /\ q \in Nat /\ q * z <= n + z - 1 /\ n + z - 1 < q * z + z
  OBVIOUS
<1> HIDE DEF q
<1>2. ASSUME p < q PROVE p * z < n
  <2>1. (q - 1 - p) * z >= 0
    BY <1>1, <1>2
  <2> QED BY <1>1, <2>1
<1>3. ASSUME ~(p < q) PROVE ~(p * z < n)
  <2>1. (p - q) * z >= 0
    BY <1>1, <1>3
  <2> QED BY <1>1, <2>1
<1> QED BY <1>1, <1>2, <1>3 DEF q

(***************************************************************************)
(* A non-empty set of naturals has a least element.                        *)
(***************************************************************************)
LEMMA LeastNatural ==
    ASSUME NEW T, T \subseteq Nat, T # {}
    PROVE  \E x \in T : \A y \in T : x <= y
<1> DEFINE UpTo(x) == T \cap 0..x
           Family == {UpTo(x) : x \in T}
           Smaller == StrictSubsetOrdering(Nat)
<1>1. \A x \in T : UpTo(x) \in FiniteSubsetsOf(Nat)
  <2> SUFFICES ASSUME NEW x \in T PROVE UpTo(x) \in FiniteSubsetsOf(Nat)
    OBVIOUS
  <2>1. IsFiniteSet(0..x)
    BY FS_Interval
  <2>2. IsFiniteSet(UpTo(x))
    BY <2>1, FS_Intersection
  <2> QED BY <2>2 DEF FiniteSubsetsOf
<1>2. IsWellFoundedOn(Smaller, FiniteSubsetsOf(Nat))
  BY FS_StrictSubsetOrderingWellFounded
<1>3. Family \subseteq FiniteSubsetsOf(Nat) /\ Family # {}
  BY <1>1
<1>4. PICK F \in Family : \A G \in Family : ~(<<G, F>> \in Smaller)
  <2> HIDE DEF Family, Smaller
  <2> QED BY <1>2, <1>3, WFMin
<1>5. PICK x \in T : F = UpTo(x)
  BY <1>4
<1>6. ASSUME NEW y \in T, y < x PROVE FALSE
  <2>1. UpTo(y) \subseteq UpTo(x) /\ x \in UpTo(x) /\ x \notin UpTo(y)
    BY <1>6
  <2>2. <<UpTo(y), UpTo(x)>> \in Smaller
    BY <2>1 DEF StrictSubsetOrdering
  <2> QED BY <1>4, <1>5, <2>2
<1>7. \A y \in T : x <= y
  BY <1>6
<1> QED BY <1>7

(***************************************************************************)
(* The order of a query whose ties the row id breaks is total, so the rows *)
(* come in one order only.                                                 *)
(***************************************************************************)
LEMMA RowsMatching ==
    ASSUME table \in Tables, NEW t
    PROVE  /\ Matching(t) \subseteq table /\ table \subseteq Rows
           /\ IsFiniteSet(table) /\ IsFiniteSet(Matching(t))
           /\ Cardinality(Matching(t)) \in Nat /\ Cardinality(table) \in Nat
           /\ Cardinality(Matching(t)) <= Cardinality(table)
           /\ Cardinality(table) <= PageBound
           /\ \A r, s \in table : r.id = s.id => r = s
<1>1. Matching(t) \subseteq table
  BY DEF Matching
<1>2. /\ table \subseteq Rows /\ IsFiniteSet(table) /\ Cardinality(table) <= PageBound
      /\ \A r, s \in table : r.id = s.id => r = s
  BY TablesAssumption, PageBoundAssumption
<1> QED BY <1>1, <1>2, FS_Subset, FS_CardinalityType

LEMMA RankTyped ==
    ASSUME NEW t \in Tools, NEW r \in Rows
    PROVE  SortRank(t, r) \in Nat
<1>1. r.key \in 0..MaxKey \/ r.key = Null
  BY DEF Rows
<1> QED BY <1>1, LimitsAssumption DEF SortRank

LEMMA PrecedesTotal ==
    ASSUME NEW t \in Tools, t.query.tie = "id", NEW x \in Rows, NEW y \in Rows, x.id # y.id
    PROVE  Precedes(t, x, y) <=> ~Precedes(t, y, x)
<1>1. x.id \in Nat /\ y.id \in Nat
  BY DEF Rows
<1>2. SortRank(t, x) \in Nat /\ SortRank(t, y) \in Nat
  BY RankTyped
<1> QED BY <1>1, <1>2 DEF Precedes

LEMMA OrderingIs ==
    ASSUME table \in Tables, NEW t, NEW s \in Orderings(t)
    PROVE  /\ s \in Seq(Rows) /\ Len(s) = Cardinality(Matching(t)) /\ Len(s) \in Nat
           /\ DOMAIN s = 1..Cardinality(Matching(t))
           /\ \A i \in DOMAIN s : s[i] \in Matching(t)
           /\ \A i, j \in DOMAIN s : s[i].id = s[j].id => i = j
           /\ \A x \in Matching(t) : \E i \in DOMAIN s : s[i] = x
<1> DEFINE M == Matching(t)
           n == Cardinality(M)
<1>1. /\ M \subseteq table /\ table \subseteq Rows /\ IsFiniteSet(M) /\ n \in Nat
      /\ \A r, u \in table : r.id = u.id => r = u
  BY RowsMatching
<1>2. s \in SetToSeqs(M)
  BY DEF Orderings
<1> HIDE DEF M
<1>3. s \in Seq(M) /\ Len(s) = n /\ \A i, j \in DOMAIN s : s[i] = s[j] => i = j
  BY <1>1, <1>2, SeqsOfASet
<1>4. DOMAIN s = 1..n /\ s \in [1..n -> M] /\ \A i \in DOMAIN s : s[i] \in M
  BY <1>1, <1>3
<1>5. s \in Injection(1..n, M)
  BY <1>3, <1>4 DEF Injection, IsInjective
<1>6. IsFiniteSet(1..n) /\ Cardinality(1..n) = n
  BY <1>1, FS_Interval
<1>7. s \in Surjection(1..n, M)
  BY <1>1, <1>5, <1>6, FS_Injection
<1>8. \A x \in M : \E i \in DOMAIN s : s[i] = x
  BY <1>4, <1>7 DEF Surjection
<1>9. s \in Seq(Rows)
  BY <1>1, <1>3
<1> QED BY <1>1, <1>3, <1>4, <1>8, <1>9 DEF M

LEMMA OneOrdering ==
    ASSUME table \in Tables, NEW t \in Tools, t.query.tie = "id",
           NEW s \in Orderings(t), NEW u \in Orderings(t)
    PROVE  s = u
<1> DEFINE n == Cardinality(Matching(t))
           D == {i \in 1..n : s[i] # u[i]}
<1>1. /\ n \in Nat /\ s \in Seq(Rows) /\ u \in Seq(Rows) /\ Len(s) = n /\ Len(u) = n
      /\ DOMAIN s = 1..n /\ DOMAIN u = 1..n
  BY OrderingIs, RowsMatching
<1> DEFINE Lists(w) == /\ \A i \in 1..n : w[i] \in Matching(t) /\ w[i] \in Rows
                       /\ \A i, j \in 1..n : w[i].id = w[j].id => i = j
                       /\ \A x \in Matching(t) : \E i \in 1..n : w[i] = x
<1>2. Lists(s) /\ Lists(u)
  <2>1. ASSUME NEW w \in Orderings(t) PROVE Lists(w)
    <3>1. /\ DOMAIN w = 1..n /\ w \in Seq(Rows)
          /\ \A i \in DOMAIN w : w[i] \in Matching(t)
          /\ \A i, j \in DOMAIN w : w[i].id = w[j].id => i = j
          /\ \A x \in Matching(t) : \E i \in DOMAIN w : w[i] = x
      BY OrderingIs DEF n
    <3>2. Matching(t) \subseteq Rows
      BY RowsMatching
    <3>3. \A i \in 1..n : w[i] \in Matching(t) /\ w[i] \in Rows
      BY <3>1, <3>2
    <3>4. \A i, j \in 1..n : w[i].id = w[j].id => i = j
      BY <3>1
    <3> QED BY <3>1, <3>3, <3>4
  <2> QED BY <2>1
<1>3. \A i, j \in 1..n : i < j => ~Precedes(t, s[j], s[i]) /\ ~Precedes(t, u[j], u[i])
  BY <1>1 DEF Orderings
<1> HIDE DEF n
<1>4. ASSUME D # {} PROVE FALSE
  <2>1. PICK d \in D : \A i \in D : d <= i
    <3>1. D \subseteq Nat
      BY <1>1
    <3> HIDE DEF D
    <3> QED BY <1>4, <3>1, LeastNatural
  <2>2. d \in 1..n /\ s[d] # u[d] /\ \A i \in 1..n : i < d => s[i] = u[i]
    BY <1>1, <2>1
  <2>3. PICK j \in 1..n : u[j] = s[d]
    BY <1>2, <2>2
  <2>4. PICK k \in 1..n : s[k] = u[d]
    BY <1>2, <2>2
  <2>5. d < j /\ d < k
    <3>1. j # d /\ k # d
      BY <2>2, <2>3, <2>4
    <3>2. ~(j < d) /\ ~(k < d)
      <4>1. j < d => s[j] = s[d]
        BY <2>2, <2>3
      <4>2. k < d => u[k] = u[d]
        BY <2>2, <2>4
      <4> QED BY <1>1, <1>2, <2>2, <3>1, <4>1, <4>2
    <3> QED BY <1>1, <2>2, <3>1, <3>2
  <2>6. ~Precedes(t, s[d], u[d]) /\ ~Precedes(t, u[d], s[d])
    BY <1>3, <2>2, <2>3, <2>4, <2>5
  <2>7. s[d].id # u[d].id
    BY <1>2, <2>2, <2>3
  <2> QED BY <1>2, <2>2, <2>6, <2>7, PrecedesTotal
<1> QED BY <1>1, <1>4

(***************************************************************************)
(* One page.                                                               *)
(***************************************************************************)
\* How many rows the tool ever shows.
Shows(t) == IF t.cap = Null THEN Cardinality(Matching(t)) ELSE AtMost(t.cap, Cardinality(Matching(t)))

LEMMA ToolsAre ==
    ASSUME NEW t \in Tools
    PROVE  /\ t.cap = Null \/ (t.cap \in Nat \ {0} /\ t.cap # Null)
           /\ t.total = "count" \/ t.total = "gaps" \/ t.total = "fetched"
           /\ t.total = "count" => t.cap = Null
           /\ t.query.tie = "id" <=> t.total # "fetched"
           /\ t = get_coverage_gaps => t.total = "gaps" /\ t.cap = max_coverage_gaps
BY LimitsAssumption DEF Tools, list_runs, list_tests, list_failures, list_assertions,
   list_assertion_failures, list_coverage, get_sva_status, get_vacuous_assertions,
   get_coverage_gaps, query_runs, query_tests, query_failures, query_assertions,
   query_assertion_failures, query_coverage_summaries, query_sva_run_status,
   query_vacuous_assertions, generate_recommendations

LEMMA PartOfASeq ==
    ASSUME NEW s \in Seq(Rows), NEW m \in Nat \ {0}, NEW n \in Nat, n <= Len(s)
    PROVE  /\ SubSeq(s, m, n) \in Seq(Rows)
           /\ Len(SubSeq(s, m, n)) = IF m <= n + 1 THEN n + 1 - m ELSE 0
           /\ DOMAIN SubSeq(s, m, n) = 1..(n + 1 - m)
           /\ \A i \in 1..(n + 1 - m) : SubSeq(s, m, n)[i] = s[i + m - 1]
OBVIOUS

\* How many rows an answer was fetched from: those of the page and the next, or all.
LEMMA FetchedAre ==
    ASSUME tool \in Tools, table \in Tables, page \in Nat \ {0}, size \in Nat \ {0},
           NEW s \in Orderings(tool)
    PROVE  LET fetched == Prefix(s, Fetch(tool))
               shows == Shows(tool) IN
           /\ shows \in Nat /\ shows <= Len(s)
           /\ fetched = SubSeq(s, 1, Len(fetched)) /\ fetched \in Seq(Rows)
           /\ Len(fetched) \in Nat /\ Len(fetched) <= shows
           /\ Len(fetched) = shows \/ (tool.total = "fetched" /\ Len(fetched) = page * size + size)
<1> DEFINE n == Cardinality(Matching(tool))
           m == Cardinality(table)
           fetched == Prefix(s, Fetch(tool))
<1>1. n \in Nat /\ m \in Nat /\ n <= m /\ s \in Seq(Rows) /\ Len(s) = n
  BY RowsMatching, OrderingIs
<1>2. PICK b : b = page * size
  OBVIOUS
<1>3. b \in Nat /\ size * page + size = b + size /\ size \in Nat
  BY <1>2
<1> HIDE DEF n, m
<1>4. /\ Fetch(tool) \in Nat
      /\ Shows(tool) \in Nat /\ Shows(tool) <= n
      /\ AtMost(Fetch(tool), n) \in Nat /\ AtMost(Fetch(tool), n) <= Shows(tool)
      /\ \/ AtMost(Fetch(tool), n) = Shows(tool)
         \/ tool.total = "fetched" /\ AtMost(Fetch(tool), n) = b + size
  <2>1. Shows(tool) = IF tool.cap = Null THEN n ELSE AtMost(tool.cap, n)
    BY DEF Shows, n
  <2>2. Fetch(tool) = IF tool.total = "fetched"
                      THEN IF tool.cap = Null THEN b + size ELSE AtMost(b + size, tool.cap)
                      ELSE IF tool.cap = Null THEN m ELSE AtMost(m, tool.cap)
    BY <1>3 DEF Fetch, m
  <2> QED BY <1>1, <1>3, <2>1, <2>2, ToolsAre DEF AtMost
<1>5. fetched = SubSeq(s, 1, AtMost(Fetch(tool), n))
  BY <1>1 DEF Prefix
<1>6. fetched \in Seq(Rows) /\ Len(fetched) = AtMost(Fetch(tool), n)
  BY <1>1, <1>4, <1>5, PartOfASeq
<1> HIDE DEF fetched
<1> QED BY <1>1, <1>2, <1>4, <1>5, <1>6 DEF fetched

LEMMA PageAnswered ==
    ASSUME tool \in Tools, table \in Tables, page \in Nat \ {0}, size \in Nat \ {0}, NEW a \in Answers
    PROVE  LET shows == Shows(tool)
               first == (page - 1) * size
               last == page * size IN
           /\ shows \in Nat /\ first \in Nat /\ last \in Nat /\ last = first + size
           /\ a.items \in Seq(Rows) /\ a.total \in Nat /\ a.total <= Cardinality(Matching(tool))
           /\ TotalPages(a.total) \in Nat
           /\ page < TotalPages(a.total) => page < PageBound
           /\ first <= shows => Len(a.items) = AtMost(last, shows) - first
           /\ page < TotalPages(a.total) <=> last < shows
           /\ ~(last < shows) => a.total = shows
           /\ tool.query.tie = "id" => a.total = shows
           /\ tool.query.tie = "id" =>
                 \E s \in Orderings(tool) : a.items = SubSeq(s, first + 1, AtMost(last, shows))
<1> DEFINE shows == Shows(tool)
           n == Cardinality(Matching(tool))
<1>1. PICK s \in Orderings(tool) :
         /\ a.items = Slice(Prefix(s, Fetch(tool)))
         /\ a.total = TotalItems(tool, Prefix(s, Fetch(tool)))
  BY DEF Answers
<1>2. PICK fetched : fetched = Prefix(s, Fetch(tool))
  OBVIOUS
<1>3. PICK first, last, len : first = (page - 1) * size /\ last = page * size /\ len = Len(fetched)
  OBVIOUS
<1>4. first \in Nat /\ last \in Nat /\ last = first + size /\ page <= last
  BY <1>3
<1>5. s \in Seq(Rows) /\ Len(s) = n /\ n \in Nat /\ n <= PageBound
  BY OrderingIs, RowsMatching, LimitsAssumption
<1>6. fetched = SubSeq(s, 1, len) /\ fetched \in Seq(Rows)
  BY <1>2, <1>3, FetchedAre
<1>7. /\ shows \in Nat /\ shows <= n /\ len \in Nat /\ len <= shows
      /\ len = shows \/ (tool.total = "fetched" /\ len = last + size)
  BY <1>2, <1>3, <1>5, FetchedAre
<1>8. a.items = SubSeq(fetched, first + 1, AtMost(last, len))
  BY <1>1, <1>2, <1>3 DEF Slice
<1>9. a.total = IF tool.total = "count" THEN n ELSE len
  BY <1>1, <1>2, <1>3 DEF TotalItems
<1>10. tool.total = "count" => shows = n
  BY ToolsAre DEF Shows
<1> HIDE DEF shows, n
<1>11. AtMost(last, len) \in Nat /\ AtMost(last, len) <= len
  BY <1>4, <1>7 DEF AtMost
<1>12. /\ a.items \in Seq(Rows)
       /\ first <= AtMost(last, len) => Len(a.items) = AtMost(last, len) - first
  <2>1. PICK hi : hi = AtMost(last, len)
    OBVIOUS
  <2>2. Len(fetched) = len
    BY <1>3
  <2> QED BY <1>4, <1>6, <1>8, <1>11, <2>1, <2>2, PartOfASeq
<1>13. /\ a.total \in Nat /\ a.total <= n /\ a.total <= shows
       /\ a.total = shows \/ (tool.total = "fetched" /\ a.total = last + size)
  BY <1>5, <1>7, <1>9, <1>10
<1>14. TotalPages(a.total) \in Nat /\ (page < TotalPages(a.total) <=> last < a.total)
  BY <1>3, <1>13, Division DEF TotalPages
<1>15. (last < a.total <=> last < shows) /\ (~(last < shows) => a.total = shows)
  BY <1>4, <1>7, <1>13
<1>16. AtMost(last, len) = AtMost(last, shows)
  BY <1>4, <1>7 DEF AtMost
<1>17. first <= shows => Len(a.items) = AtMost(last, shows) - first
  BY <1>4, <1>7, <1>12, <1>16 DEF AtMost
<1>18. page < TotalPages(a.total) => page < PageBound
  BY <1>4, <1>5, <1>13, <1>14, LimitsAssumption
<1>19. tool.query.tie = "id" => a.total = shows
  BY <1>13, ToolsAre
<1>20. ASSUME tool.query.tie = "id"
       PROVE  a.items = SubSeq(s, first + 1, AtMost(last, shows))
  <2>1. len = shows
    BY <1>7, <1>20, ToolsAre
  <2>2. PICK hi : hi = AtMost(last, shows)
    OBVIOUS
  <2>3. hi \in Nat /\ hi <= shows
    BY <1>4, <1>7, <2>2 DEF AtMost
  <2>4. \A i \in 1..shows : fetched[i] = s[i]
    BY <1>5, <1>6, <1>7, <2>1, PartOfASeq
  <2>5. Len(fetched) = shows
    BY <1>3, <2>1
  <2>6. SubSeq(fetched, first + 1, hi) = SubSeq(s, first + 1, hi)
    <3> DEFINE U == SubSeq(fetched, first + 1, hi)
               V == SubSeq(s, first + 1, hi)
    <3>1. /\ U \in Seq(Rows) /\ Len(U) = (IF first <= hi THEN hi - first ELSE 0)
          /\ \A i \in 1..(hi - first) : U[i] = fetched[i + first]
      BY <1>4, <1>6, <2>3, <2>5, PartOfASeq
    <3>2. /\ V \in Seq(Rows) /\ Len(V) = (IF first <= hi THEN hi - first ELSE 0)
          /\ \A i \in 1..(hi - first) : V[i] = s[i + first]
      BY <1>4, <1>5, <1>7, <2>3, PartOfASeq
    <3>3. \A i \in 1..(hi - first) : i + first \in 1..shows
      BY <1>4, <1>7, <2>3
    <3>4. \A i \in 1..(hi - first) : U[i] = V[i]
      BY <2>4, <3>1, <3>2, <3>3
    <3> HIDE DEF U, V
    <3>5. U = V
      <4>1. Len(U) = Len(V) /\ \A i \in 1..Len(U) : U[i] = V[i]
        BY <1>4, <2>3, <3>1, <3>2, <3>4
      <4> QED BY <3>1, <3>2, <4>1, SeqEqual
    <3> QED BY <3>5 DEF U, V
  <2> QED BY <1>8, <1>16, <2>2, <2>6
<1> QED BY <1>3, <1>4, <1>7, <1>12, <1>13, <1>14, <1>15, <1>17, <1>18, <1>19, <1>20 DEF shows, n

LEMMA PartsMeet ==
    ASSUME NEW s \in Seq(Rows), NEW m \in Nat, NEW n \in Nat, m <= n, n <= Len(s)
    PROVE  SubSeq(s, 1, m) \o SubSeq(s, m + 1, n) = SubSeq(s, 1, n)
<1> DEFINE A == SubSeq(s, 1, m)
           B == SubSeq(s, m + 1, n)
           C == SubSeq(s, 1, n)
<1>0. Len(s) \in Nat
  BY LenProperties
<1>1. A \in Seq(Rows) /\ Len(A) = m /\ \A i \in 1..m : A[i] = s[i]
  BY <1>0, PartOfASeq
<1>2. B \in Seq(Rows) /\ Len(B) = n - m /\ \A i \in 1..(n - m) : B[i] = s[i + m]
  BY PartOfASeq
<1>3. C \in Seq(Rows) /\ Len(C) = n /\ \A i \in 1..n : C[i] = s[i]
  BY PartOfASeq
<1> HIDE DEF A, B, C
<1>4. /\ A \o B \in Seq(Rows) /\ Len(A \o B) = n
      /\ \A i \in 1..n : (A \o B)[i] = IF i <= m THEN A[i] ELSE B[i - m]
  <2>1. Len(A) + Len(B) = n
    BY <1>1, <1>2
  <2>2. /\ A \o B \in Seq(Rows) /\ Len(A \o B) = Len(A) + Len(B)
        /\ \A i \in 1..(Len(A) + Len(B)) :
              (A \o B)[i] = IF i <= Len(A) THEN A[i] ELSE B[i - Len(A)]
    <3>1. A \in Seq(Rows) /\ B \in Seq(Rows)
      BY <1>1, <1>2
    <3> QED BY <3>1, ConcatProperties, Zenon
  <2> QED BY <1>1, <2>1, <2>2
<1>5. \A i \in 1..n : (A \o B)[i] = C[i]
  <2> SUFFICES ASSUME NEW i \in 1..n PROVE (A \o B)[i] = C[i]
    OBVIOUS
  <2>0. C[i] = s[i] /\ (A \o B)[i] = IF i <= m THEN A[i] ELSE B[i - m]
    BY <1>3, <1>4, Zenon
  <2>1. CASE i <= m
    <3>1. i \in 1..m
      BY <2>1
    <3>2. A[i] = s[i]
      BY <1>1, <3>1, Zenon
    <3> QED BY <2>0, <2>1, <3>2, Zenon
  <2>2. CASE ~(i <= m)
    <3>1. i - m \in 1..(n - m) /\ (i - m) + m = i
      BY <2>2
    <3>2. B[i - m] = s[(i - m) + m]
      BY <1>2, <3>1, Zenon
    <3> QED BY <2>0, <2>2, <3>1, <3>2, Zenon
  <2> QED BY <2>1, <2>2
<1>6. A \o B = C
  BY <1>3, <1>4, <1>5, SeqEqual
<1> QED BY <1>6 DEF A, B, C

(***************************************************************************)
(* The walk.                                                               *)
(***************************************************************************)
LEMMA TypeStep ==
    ASSUME TypeOK, [Next]_vars
    PROVE  TypeOK'
<1> USE DEF TypeOK
<1>1. CASE UNCHANGED vars
  BY <1>1 DEF vars
<1>2. CASE Answered
  <2>1. PICK a \in Answers :
           /\ got' = got \o a.items /\ total' = a.total
           /\ IF page < TotalPages(a.total) THEN page' = page + 1 /\ UNCHANGED status
                                            ELSE status' = "done" /\ UNCHANGED page
    BY <1>2 DEF Answered
  <2>2. /\ a.items \in Seq(Rows) /\ a.total \in Nat
        /\ page < TotalPages(a.total) => page < PageBound
    BY PageAnswered, LimitsAssumption
  <2>3. UNCHANGED <<tool, table, size, moved>>
    BY <1>2 DEF Answered
  <2>4. got' \in Seq(Rows)
    BY <2>1, <2>2, ConcatProperties
  <2>5. page' \in 1..PageBound
    BY <2>1, <2>2, LimitsAssumption
  <2> QED BY <2>1, <2>2, <2>3, <2>4, <2>5
<1>3. CASE Refused
  <2>1. UNCHANGED <<tool, table>>
    BY <1>3 DEF Refused
  <2>2. page' \in 1..PageBound /\ size' \in 1..(max_page_size + 1)
    BY <1>3, LimitsAssumption DEF Refused
  <2>3. got' \in Seq(Rows) /\ total' \in Nat
    <3>1. << >> \in Seq(Rows)
      BY EmptySeq
    <3>2. (got' = << >> /\ total' = 0) \/ UNCHANGED <<got, total>>
      BY <1>3 DEF Refused
    <3>3. CASE got' = << >> /\ total' = 0
      <4>1. got' \in Seq(Rows)
        BY <3>1, <3>3, Zenon
      <4> QED BY <3>3, <4>1
    <3>4. CASE UNCHANGED <<got, total>>
      BY <3>4
    <3> QED BY <3>2, <3>3, <3>4
  <2>4. status' \in {"walking", "done", "refused"} /\ moved' \in BOOLEAN
    BY <1>3 DEF Refused
  <2> QED BY <2>1, <2>2, <2>3, <2>4
<1>4. CASE Reopen
  BY <1>4 DEF Reopen
<1> QED BY <1>1, <1>2, <1>3, <1>4 DEF Next

\* A walk over one index has the rows of the pages before the next; one that is done, all.
WalkLength ==
    ~moved =>
        /\ status # "done" =>
              /\ (page - 1) * size <= Shows(tool) /\ Len(got) = (page - 1) * size
              /\ (page > 1 /\ tool.query.tie = "id") => total = Shows(tool)
        /\ status = "done" => Len(got) = Shows(tool) /\ total = Shows(tool)

\* ... and where the order is total, they are the first rows of the one order there is.
WalkRows ==
    (~moved /\ tool.query.tie = "id") =>
        /\ status # "done" => \A s \in Orderings(tool) : got = SubSeq(s, 1, (page - 1) * size)
        /\ status = "done" => \E s \in Orderings(tool) : got = SubSeq(s, 1, Shows(tool))

WalkInv == TypeOK /\ WalkLength /\ WalkRows

LEMMA WalkBegins ==
    ASSUME page = 1, got = << >>, TypeOK, status # "done"
    PROVE  WalkLength /\ WalkRows
<1>1. (page - 1) * size = 0
  BY DEF TypeOK
<1>2. Shows(tool) \in Nat
  BY RowsMatching, ToolsAre DEF TypeOK, Shows, AtMost
<1>3. \A s : SubSeq(s, 1, 0) = << >>
  BY SubSeqEmpty
<1> QED BY <1>1, <1>2, <1>3 DEF WalkLength, WalkRows

LEMMA SameIndex ==
    ASSUME tool' = tool, table' = table
    PROVE  Shows(tool)' = Shows(tool) /\ Orderings(tool)' = Orderings(tool)
BY DEF Shows, Orderings, Matching, Precedes, SortRank

LEMMA AnsweredStep ==
    ASSUME WalkInv, ~moved, Answered
    PROVE  WalkLength' /\ WalkRows'
<1> USE DEF TypeOK, WalkInv
<1>1. PICK a \in Answers :
         /\ got' = got \o a.items /\ total' = a.total
         /\ IF page < TotalPages(a.total) THEN page' = page + 1 /\ UNCHANGED status
                                          ELSE status' = "done" /\ UNCHANGED page
  BY DEF Answered
<1>2. /\ tool' = tool /\ table' = table /\ size' = size /\ moved' = moved /\ status = "walking"
      /\ Shows(tool)' = Shows(tool) /\ Orderings(tool)' = Orderings(tool)
  BY SameIndex DEF Answered
<1>3. PICK shows, first, last :
         shows = Shows(tool) /\ first = (page - 1) * size /\ last = page * size
  OBVIOUS
<1>4. /\ shows \in Nat /\ first \in Nat /\ last \in Nat /\ last = first + size
      /\ a.items \in Seq(Rows)
      /\ first <= shows => Len(a.items) = AtMost(last, shows) - first
      /\ page < TotalPages(a.total) <=> last < shows
      /\ ~(last < shows) => a.total = shows
      /\ tool.query.tie = "id" => a.total = shows
      /\ tool.query.tie = "id" =>
            \E s \in Orderings(tool) : a.items = SubSeq(s, first + 1, AtMost(last, shows))
  BY <1>3, PageAnswered, LimitsAssumption
<1>5. first <= shows /\ Len(got) = first
  BY <1>2, <1>3 DEF WalkLength
<1>6. PICK next : next = AtMost(last, shows)
  OBVIOUS
<1>7. /\ next \in Nat /\ first <= next /\ next <= shows
      /\ last < shows => next = last
      /\ ~(last < shows) => next = shows
  BY <1>4, <1>5, <1>6 DEF AtMost
<1>8. Len(got') = next
  <2>1. Len(a.items) = next - first
    BY <1>4, <1>5, <1>6
  <2> QED BY <1>1, <1>4, <1>5, <1>7, <2>1, ConcatProperties
<1>9. /\ last < shows => status' = "walking" /\ page' = page + 1
      /\ ~(last < shows) => status' = "done"
  BY <1>1, <1>2, <1>4
<1>10. last < shows => (page' - 1) * size' = last
  BY <1>2, <1>3, <1>9
<1>11. WalkLength'
  BY <1>1, <1>2, <1>3, <1>4, <1>7, <1>8, <1>9, <1>10 DEF WalkLength
<1>12. ASSUME tool.query.tie = "id"
       PROVE  \E s \in Orderings(tool) : got' = SubSeq(s, 1, next)
  <2>1. PICK s \in Orderings(tool) : a.items = SubSeq(s, first + 1, next)
    BY <1>4, <1>6, <1>12
  <2>2. got = SubSeq(s, 1, first)
    BY <1>2, <1>3, <1>12 DEF WalkRows
  <2>3. s \in Seq(Rows) /\ next <= Len(s)
    <3>1. s \in Seq(Rows) /\ Len(s) = Cardinality(Matching(tool)) /\ Len(s) \in Nat
      BY OrderingIs
    <3>2. shows <= Cardinality(Matching(tool))
      BY <1>3, <3>1, ToolsAre DEF Shows, AtMost
    <3> QED BY <1>4, <1>7, <3>1, <3>2
  <2>4. SubSeq(s, 1, first) \o SubSeq(s, first + 1, next) = SubSeq(s, 1, next)
    BY <1>4, <1>7, <2>3, PartsMeet
  <2> QED BY <1>1, <2>1, <2>2, <2>4
<1>13. WalkRows'
  <2>1. CASE tool.query.tie # "id"
    BY <1>2, <2>1 DEF WalkRows
  <2>2. CASE tool.query.tie = "id" /\ last < shows
    <3>1. \A s \in Orderings(tool) : got' = SubSeq(s, 1, last)
      BY <1>7, <1>12, <2>2, OneOrdering
    <3> QED BY <1>2, <1>9, <1>10, <2>2, <3>1 DEF WalkRows
  <2>3. CASE tool.query.tie = "id" /\ ~(last < shows)
    BY <1>2, <1>3, <1>7, <1>9, <1>12, <2>3 DEF WalkRows
  <2> QED BY <2>1, <2>2, <2>3
<1> QED BY <1>11, <1>13

LEMMA WalkStep ==
    ASSUME WalkInv, [Next]_vars
    PROVE  WalkLength' /\ WalkRows'
<1>1. CASE UNCHANGED vars
  <2>1. Shows(tool)' = Shows(tool) /\ Orderings(tool)' = Orderings(tool)
    BY <1>1, SameIndex DEF vars
  <2> QED BY <1>1, <2>1 DEF vars, WalkInv, WalkLength, WalkRows
<1>2. CASE Answered
  <2>1. CASE moved
    BY <1>2, <2>1 DEF Answered, WalkLength, WalkRows
  <2> QED BY <1>2, <2>1, AnsweredStep
<1>3. CASE Refused
  <2>1. /\ tool' = tool /\ table' = table
        /\ Shows(tool)' = Shows(tool) /\ Orderings(tool)' = Orderings(tool)
    BY <1>3, SameIndex DEF Refused
  <2>2. CASE size > 1
    <3>1. page' = 1 /\ got' = << >> /\ status' # "done" /\ size' \in Nat
      BY <1>3, <2>2 DEF Refused, WalkInv, TypeOK
    <3>2. (page' - 1) * size' = 0
      <4>1. \A z \in Nat : (1 - 1) * z = 0
        OBVIOUS
      <4> QED BY <3>1, <4>1
    <3>3. Shows(tool) \in Nat
      BY RowsMatching, ToolsAre DEF WalkInv, TypeOK, Shows, AtMost
    <3>4. \A s : SubSeq(s, 1, 0) = << >>
      BY SubSeqEmpty
    <3>5. Len(<< >>) = 0
      BY EmptySeq
    <3>6. WalkLength'
      <4>1. Len(got') = 0 /\ ~(page' > 1)
        BY <3>1, <3>5
      <4>2. (page' - 1) * size' <= Shows(tool)' /\ Len(got') = (page' - 1) * size'
        BY <2>1, <3>2, <3>3, <4>1
      <4> QED BY <3>1, <4>1, <4>2, Zenon DEF WalkLength
    <3>7. WalkRows'
      BY <3>1, <3>2, <3>4 DEF WalkRows
    <3> QED BY <3>6, <3>7
  <2>3. CASE ~(size > 1)
    <3>1. UNCHANGED <<page, size, got, total, moved>> /\ status' = "refused" /\ status # "done"
      BY <1>3, <2>3 DEF Refused
    <3> QED BY <2>1, <3>1 DEF WalkInv, WalkLength, WalkRows
  <2> QED BY <2>2, <2>3
<1>4. CASE Reopen
  BY <1>4 DEF Reopen, WalkLength, WalkRows
<1> QED BY <1>1, <1>2, <1>3, <1>4 DEF Next

LEMMA CountedExact ==
    ASSUME WalkInv
    PROVE  CountedWalkExact
<1> SUFFICES ASSUME tool \in Counting, ~moved
             PROVE  /\ status = "done" => got \in Orderings(tool) /\ Len(got) = total
                    /\ got # << >> => total = Cardinality(Matching(tool))
  BY DEF CountedWalkExact
<1>1. tool \in Tools /\ tool.query.tie = "id" /\ Shows(tool) = Cardinality(Matching(tool))
  BY ToolsAre DEF Counting, Shows
<1>2. ASSUME status = "done" PROVE got \in Orderings(tool) /\ Len(got) = total
  <2>1. PICK s \in Orderings(tool) : got = SubSeq(s, 1, Shows(tool))
    BY <1>1, <1>2 DEF WalkInv, WalkRows
  <2>2. s \in Seq(Rows) /\ Len(s) = Shows(tool)
    BY <1>1, OrderingIs DEF WalkInv, TypeOK
  <2>3. got = s
    BY <2>1, <2>2, SubSeqFull
  <2> QED BY <1>2, <2>3 DEF WalkInv, WalkLength
<1>3. ASSUME got # << >> PROVE total = Cardinality(Matching(tool))
  <2>1. CASE status = "done"
    BY <1>1, <2>1 DEF WalkInv, WalkLength
  <2>2. CASE status # "done"
    <3>1. Len(got) # 0
      BY <1>3, EmptySeq DEF WalkInv, TypeOK
    <3>2. page > 1
      <4>1. page = 1 => (page - 1) * size = 0
        BY DEF WalkInv, TypeOK
      <4> QED BY <2>2, <3>1, <4>1, LimitsAssumption DEF WalkInv, TypeOK, WalkLength
    <3> QED BY <1>1, <2>2, <3>2 DEF WalkInv, WalkLength
  <2> QED BY <2>1, <2>2
<1> QED BY <1>2, <1>3

LEMMA GapsExact ==
    ASSUME WalkInv
    PROVE  GapsWalkExact
<1> SUFFICES ASSUME tool = get_coverage_gaps, ~moved, status = "done"
             PROVE  \E s \in Orderings(tool) : got = Prefix(s, tool.cap)
  BY DEF GapsWalkExact, Ended
<1>1. tool \in Tools /\ tool.query.tie = "id" /\ tool.cap # Null
  BY ToolsAre, LimitsAssumption DEF WalkInv, TypeOK
<1>2. PICK s \in Orderings(tool) : got = SubSeq(s, 1, Shows(tool))
  BY <1>1 DEF WalkInv, WalkRows
<1>3. Len(s) = Cardinality(Matching(tool))
  BY OrderingIs DEF WalkInv, TypeOK
<1> QED BY <1>1, <1>2, <1>3 DEF Prefix, Shows

(***************************************************************************)
(* Theorems.                                                               *)
(***************************************************************************)
\* A walk stays inside the pages there are, and has the rows of those it has seen.
THEOREM WalkInductive == Spec => []WalkInv
<1>1. Init => WalkInv
  <2> SUFFICES ASSUME Init PROVE WalkInv
    OBVIOUS
  <2>1. TypeOK
    <3>1. 1 \in 1..PageBound /\ << >> \in Seq(Rows) /\ 0 \in Nat
      BY LimitsAssumption, EmptySeq
    <3> QED BY <3>1 DEF Init, TypeOK
  <2> QED BY <2>1, WalkBegins DEF Init, WalkInv
<1>2. WalkInv /\ [Next]_vars => WalkInv'
  BY TypeStep, WalkStep DEF WalkInv
<1> QED BY <1>1, <1>2, PTL DEF Spec

\* No answer offers a page beyond the rows there are, for any row sets and any limits.
THEOREM WalkTyped == Spec => []TypeOK
<1>1. WalkInv => TypeOK
  BY DEF WalkInv
<1> QED BY WalkInductive, <1>1, PTL

\* The pages of a tool that counts are its rows, each once and in one order, whatever ties
\* in the sort column and whatever the page size.
THEOREM CountedWalk == Spec => []CountedWalkExact
BY WalkInductive, CountedExact, PTL

\* The walk of a tool that counts what it fetched shows as many rows as there are, up to
\* the tool's cap.
THEOREM FetchedWalk == Spec => []FetchedWalkComplete
<1>1. WalkInv => FetchedWalkComplete
  BY DEF WalkInv, WalkLength, FetchedWalkComplete, Ended, Shows
<1> QED BY WalkInductive, <1>1, PTL

\* The walk over the coverage gaps shows the first of them, each once.
THEOREM GapsWalk == Spec => []GapsWalkExact
<1>1. WalkInv => GapsWalkExact
  BY GapsExact
<1> QED BY WalkInductive, <1>1, PTL
=============================================================================
