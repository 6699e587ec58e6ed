---------------------------- MODULE IntakeProofs ----------------------------
(***************************************************************************)
(* Theorems of Intake, for any logs, reports, artifacts and messages.      *)
(*                                                                         *)
(* A handler reads one file and never goes back to it, so what is kept of  *)
(* a file is a function of that file: LogsKept says which for a log,       *)
(* EventsRead for a failure, SummariesRead for a report.  The claims then  *)
(* are about those functions: the lists that Lists makes, the tags of a    *)
(* message, the rows that the metrics of a report are drawn from, and the  *)
(* gaps that are sorted, cut and made distinct.                            *)
(***************************************************************************)
EXTENDS Intake, FiniteSetTheorems, WellFoundedInduction, TLAPS

(***************************************************************************)
(* One line, one message.                                                  *)
(***************************************************************************)
\* The last pattern takes whatever line the others leave.
LEMMA SomePatternMatches == \A r : MatchedBy(r) # {}
<1> SUFFICES ASSUME NEW r PROVE 5 \in MatchedBy(r)
  OBVIOUS
<1>1. 5 \in DOMAIN PatternOrder /\ PatternOrder[5] = "generic"
  BY DEF PatternOrder
<1>2. Matches("generic", r)
  BY DEF Matches
<1> QED BY <1>1, <1>2 DEF MatchedBy

\* The failures of a log are its reports of an error or a fatal that are no tallies.
FailingLines(lines) ==
    {n \in DOMAIN lines :
        LET r == lines[n].report IN r # None /\ r.severity \in Failing /\ ~r.tally}

LEMMA FailureMessagesAre ==
    \A lines : FailureMessages(lines) = {MessageOf(lines, n) : n \in FailingLines(lines)}
<1> SUFFICES ASSUME NEW lines
             PROVE  FailureMessages(lines) = {MessageOf(lines, n) : n \in FailingLines(lines)}
  OBVIOUS
<1>1. ExtractMessages(lines) = {MessageOf(lines, n) : n \in {k \in DOMAIN lines : IsMessage(lines[k])}}
  BY SomePatternMatches DEF ExtractMessages
<1>2. \A n : MessageOf(lines, n).severity = lines[n].report.severity
  BY DEF MessageOf
<1> QED BY <1>1, <1>2 DEF FailureMessages, FailingLines, IsMessage

LEMMA PrintedFailing ==
    \A lines : (Printed(lines, "UVM_ERROR") \/ Printed(lines, "UVM_FATAL"))
                  <=> FailureMessages(lines) # {}
BY DEF Printed, FailureMessages, Failing

\* What a pattern leaves in a message is told by the layout of the report, and by whether it prints
\* a time at all.
LEMMA MessagesAlike ==
    ASSUME NEW r, NEW q, PrintedAlike(r, q)
    PROVE  SameBut("time", Message(r), Message(q))
<1>1. /\ r.lead = q.lead /\ r.file = q.file /\ r.unit = q.unit /\ r.colon = q.colon
      /\ r.source = q.source /\ (r.time = None <=> q.time = None)
  BY DEF PrintedAlike
<1>2. PatternOf(r) = PatternOf(q)
  <2>1. \A p : Matches(p, r) = Matches(p, q)
    BY <1>1 DEF Matches
  <2>2. MatchedBy(r) = MatchedBy(q)
    BY <2>1 DEF MatchedBy
  <2> QED BY <2>2 DEF PatternOf
<1>3. Captured(r) = None <=> Captured(q) = None
  BY <1>1, <1>2 DEF Captured
<1>4. Taken(r) = Taken(q)
  BY <1>1, <1>2 DEF Taken
<1>5. \A part : StaysIn(part, r) <=> StaysIn(part, q)
  BY <1>1, <1>2, <1>3, <1>4 DEF StaysIn
<1>6. Left(r) = Left(q)
  BY <1>2, <1>5 DEF Left
<1>7. \A part \in Left(r) \cup {"text"} : part # "time" => r[part] = q[part]
  BY DEF Left, Prefix, PrintedAlike
<1> QED BY <1>6, <1>7 DEF SameBut, Message

(***************************************************************************)
(* The status of a log: the first rule that holds.                         *)
(***************************************************************************)
OneToSix == {1, 2, 3, 4, 5, 6}

LEMMA LeastOfSix ==
    ASSUME NEW S, S \subseteq OneToSix, S # {}
    PROVE  Min(S) \in S /\ \A y \in S : Min(S) <= y
<1> DEFINE IsLeast(x) == x \in S /\ \A y \in S : x <= y
<1>1. \E x : IsLeast(x)
  <2>1. CASE 1 \in S
    <3>1. IsLeast(1)
      BY <2>1 DEF OneToSix
    <3> QED BY <3>1
  <2>2. CASE 1 \notin S /\ 2 \in S
    <3>1. IsLeast(2)
      BY <2>2 DEF OneToSix
    <3> QED BY <3>1
  <2>3. CASE 1 \notin S /\ 2 \notin S /\ 3 \in S
    <3>1. IsLeast(3)
      BY <2>3 DEF OneToSix
    <3> QED BY <3>1
  <2>4. CASE 1 \notin S /\ 2 \notin S /\ 3 \notin S /\ 4 \in S
    <3>1. IsLeast(4)
      BY <2>4 DEF OneToSix
    <3> QED BY <3>1
  <2>5. CASE 1 \notin S /\ 2 \notin S /\ 3 \notin S /\ 4 \notin S /\ 5 \in S
    <3>1. IsLeast(5)
      BY <2>5 DEF OneToSix
    <3> QED BY <3>1
  <2>6. CASE 1 \notin S /\ 2 \notin S /\ 3 \notin S /\ 4 \notin S /\ 5 \notin S
    <3>1. \A x \in S : x = 6
      BY <2>6 DEF OneToSix
    <3>2. IsLeast(6)
      BY <3>1
    <3> QED BY <3>2
  <2> QED BY <2>1, <2>2, <2>3, <2>4, <2>5, <2>6
<1> QED BY <1>1 DEF Min

LEMMA StatusRules ==
    ASSUME NEW lines
    PROVE  LET error == FailureMessages(lines) # {}
               Says(mark) == Marked(lines, mark) IN
           TestStatus(lines) = IF error \/ Says("failed") THEN "fail"
                               ELSE IF Says("passed") \/ Says("complete") THEN "pass"
                               ELSE "aborted"
<1> DEFINE rules ==
      <<Rule(Printed(lines, "UVM_FATAL"), "fail"), Rule(Marked(lines, "failed"), "fail"),
        Rule(Printed(lines, "UVM_ERROR"), "fail"), Rule(Marked(lines, "passed"), "pass"),
        Rule(~Marked(lines, "complete"), "aborted"), Rule(TRUE, "pass")>>
    holding == {i \in DOMAIN rules : rules[i].holds}
    least == Min(holding)
<1>1. DOMAIN rules = OneToSix
  BY DEF OneToSix
<1>2. /\ 1 \in holding <=> Printed(lines, "UVM_FATAL")
      /\ 2 \in holding <=> Marked(lines, "failed")
      /\ 3 \in holding <=> Printed(lines, "UVM_ERROR")
      /\ 4 \in holding <=> Marked(lines, "passed")
      /\ 5 \in holding <=> ~Marked(lines, "complete")
      /\ 6 \in holding
  <2>1. /\ rules[1].holds <=> Printed(lines, "UVM_FATAL")
        /\ rules[2].holds <=> Marked(lines, "failed")
        /\ rules[3].holds <=> Printed(lines, "UVM_ERROR")
        /\ rules[4].holds <=> Marked(lines, "passed")
        /\ rules[5].holds <=> ~Marked(lines, "complete")
        /\ rules[6].holds
    BY DEF Rule
  <2> QED BY <1>1, <2>1 DEF OneToSix
<1>3. /\ rules[1].status = "fail" /\ rules[2].status = "fail" /\ rules[3].status = "fail"
      /\ rules[4].status = "pass" /\ rules[5].status = "aborted" /\ rules[6].status = "pass"
  BY DEF Rule
<1>4. TestStatus(lines) = rules[least].status
  BY DEF TestStatus, FirstRule
<1>5. holding \subseteq OneToSix /\ holding # {}
  BY <1>1, <1>2
<1> HIDE DEF rules, holding
<1>6. least \in holding /\ \A y \in holding : least <= y
  BY <1>5, LeastOfSix
<1> HIDE DEF least
<1>7. CASE 1 \in holding \/ 2 \in holding \/ 3 \in holding
  <2>1. least \in {1, 2, 3}
    BY <1>5, <1>6, <1>7 DEF OneToSix
  <2> QED BY <1>2, <1>3, <1>4, <1>7, <2>1, PrintedFailing
<1>8. CASE 1 \notin holding /\ 2 \notin holding /\ 3 \notin holding
  <2>1. FailureMessages(lines) = {} /\ ~Marked(lines, "failed")
    BY <1>2, <1>8, PrintedFailing
  <2>2. CASE 4 \in holding
    <3>1. least = 4
      BY <1>5, <1>6, <1>8, <2>2 DEF OneToSix
    <3> QED BY <1>2, <1>3, <1>4, <2>1, <2>2, <3>1
  <2>3. CASE 4 \notin holding /\ 5 \in holding
    <3>1. least = 5
      BY <1>5, <1>6, <1>8, <2>3 DEF OneToSix
    <3> QED BY <1>2, <1>3, <1>4, <2>1, <2>3, <3>1
  <2>4. CASE 4 \notin holding /\ 5 \notin holding
    <3>1. least = 6
      BY <1>5, <1>6, <1>8, <2>4 DEF OneToSix
    <3> QED BY <1>2, <1>3, <1>4, <2>1, <2>4, <3>1
  <2> QED BY <2>2, <2>3, <2>4
<1> QED BY <1>7, <1>8

(***************************************************************************)
(* The nearest artifact: a file has finitely many parts, so among the      *)
(* artifacts of a name some share the most with it.                        *)
(***************************************************************************)
LEMMA LeastNatural ==
    ASSUME NEW T, T \subseteq Nat, T # {}
    PROVE  \E x \in T : \A y \in T : x <= y
<1> DEFINE UpTo(x) == T \cap 0..x
           Family == {UpTo(x) : x \in T}
           Smaller == StrictSubsetOrdering(Nat)
<1>1. \A x \in T : UpTo(x) \in FiniteSubsetsOf(Nat)
  <2> SUFFICES ASSUME NEW x \in T PROVE UpTo(x) \in FiniteSubsetsOf(Nat)
    OBVIOUS
  <2>1. IsFiniteSet(0..x)
    BY FS_Interval
  <2>2. IsFiniteSet(UpTo(x))
    BY <2>1, FS_Intersection
  <2> QED BY <2>2 DEF FiniteSubsetsOf
<1>2. IsWellFoundedOn(Smaller, FiniteSubsetsOf(Nat))
  BY FS_StrictSubsetOrderingWellFounded
<1>3. Family \subseteq FiniteSubsetsOf(Nat) /\ Family # {}
  BY <1>1
<1>4. PICK F \in Family : \A G \in Family : ~(<<G, F>> \in Smaller)
  <2> HIDE DEF Family, Smaller
  <2> QED BY <1>2, <1>3, WFMin
<1>5. PICK x \in T : F = UpTo(x)
  BY <1>4
<1>6. ASSUME NEW y \in T, y < x PROVE FALSE
  <2>1. UpTo(y) \subseteq UpTo(x) /\ x \in UpTo(x) /\ x \notin UpTo(y)
    BY <1>6
  <2>2. <<UpTo(y), UpTo(x)>> \in Smaller
    BY <2>1 DEF StrictSubsetOrdering
  <2> QED BY <1>4, <1>5, <2>2
<1>7. \A y \in T : x <= y
  BY <1>6
<1> QED BY <1>7

LEMMA SomeIsNearest ==
    ASSUME NEW matches, NEW source, matches # {}, IsFiniteSet(Parts(source))
    PROVE  Nearest(matches, source) # {}
<1> DEFINE most == Cardinality(Parts(source))
           T == {most - Shared(a, source) : a \in matches}
<1>1. most \in Nat
  BY FS_CardinalityType
<1>2. \A a : Shared(a, source) \in Nat /\ Shared(a, source) <= most
  BY FS_Intersection, FS_CardinalityType DEF Shared
<1> HIDE DEF most
<1>3. T \subseteq Nat /\ T # {}
  BY <1>1, <1>2
<1>4. PICK x \in T : \A y \in T : x <= y
  BY <1>3, LeastNatural
<1>5. PICK a \in matches : x = most - Shared(a, source)
  BY <1>4
<1>6. \A b \in matches : most - Shared(a, source) <= most - Shared(b, source)
  BY <1>4, <1>5
<1>7. a \in Nearest(matches, source)
  BY <1>1, <1>2, <1>6 DEF Nearest
<1> QED BY <1>7

\* What FoundUnlessIndexedForAnother says of one path of a pointer in the file `source`, with the
\* index `idx` of the artifacts `tree`.
Called(tree, name) == {a \in tree : IsFile(a) /\ a.name = name}
RightBy(idx, tree, pointer, path, source) ==
    pointer.form = "absolute" =>
        /\ idx # NoIndex
        /\ \/ \E a \in Called(tree, pointer.name) :
                 /\ path = Place(a)
                 /\ \A b \in Called(tree, pointer.name) : Shared(b, source) <= Shared(a, source)
           \/ /\ path = External(pointer.name)
              /\ \/ Called(tree, pointer.name) = {}
                 \/ pointer.name \notin Glob[idx.name]

BuiltFrom(idx, tree) == idx = NoIndex \/ idx = BuildIndex(tree, idx.name)

LEMMA LookupIsRight ==
    ASSUME NEW idx, NEW tree, BuiltFrom(idx, tree), idx # NoIndex,
           NEW pointer, NEW source, NEW path,
           pointer.form = "absolute", IsFiniteSet(Parts(source)),
           path \in Resolve(pointer, tree, source, idx)
    PROVE  RightBy(idx, tree, pointer, path, source)
<1> DEFINE name == pointer.name
           called == Called(tree, name)
<1>1. idx.found = {a \in tree : IsFile(a) /\ a.name \in Glob[idx.name]}
  <2>1. BuildIndex(tree, idx.name).found = {a \in tree : IsFile(a) /\ a.name \in Glob[idx.name]}
    BY DEF BuildIndex
  <2> QED BY <2>1 DEF BuiltFrom
<1>2. CASE name \notin Glob[idx.name]
  <2>1. FindArtifact(idx, name, source) = {}
    BY <1>1, <1>2 DEF FindArtifact, Nearest
  <2>2. path = External(name)
    BY <2>1 DEF Resolve
  <2> QED BY <1>2, <2>2 DEF RightBy
<1>3. CASE name \in Glob[idx.name]
  <2>1. {a \in idx.found : a.name = name} = called
    BY <1>1, <1>3 DEF Called
  <2>2. FindArtifact(idx, name, source) = Nearest(called, source)
    BY <2>1 DEF FindArtifact
  <2>3. CASE called = {}
    <3>1. path = External(name)
      BY <2>2, <2>3 DEF Resolve, Nearest
    <3> QED BY <2>3, <3>1 DEF RightBy
  <2>4. CASE called # {}
    <3>1. Nearest(called, source) # {}
      BY <2>4, SomeIsNearest
    <3>2. PICK a \in Nearest(called, source) : path = Place(a)
      BY <2>2, <3>1 DEF Resolve
    <3> QED BY <3>2 DEF RightBy, Nearest
  <2> QED BY <2>3, <2>4
<1> QED BY <1>2, <1>3

(***************************************************************************)
(* Lists.  What is ahead of one place of a list and what is ahead of       *)
(* another are one within the other: counting them gives each place a      *)
(* rank of its own.                                                        *)
(***************************************************************************)
LEMMA RanksAreAll ==
    ASSUME NEW P, IsFiniteSet(P), NEW A \in [P -> SUBSET P], \A i \in P : i \in A[i],
           \A i, j \in P : i # j => \/ A[i] \subseteq A[j] /\ j \notin A[i]
                                    \/ A[j] \subseteq A[i] /\ i \notin A[j]
    PROVE  /\ Cardinality(P) \in Nat
           /\ \A i \in P : Cardinality(A[i]) \in 1..Cardinality(P)
           /\ \A k \in 1..Cardinality(P) : \E i \in P : Cardinality(A[i]) = k
           /\ \A i, j \in P : A[i] \subseteq A[j] /\ j \notin A[i]
                                => Cardinality(A[i]) < Cardinality(A[j])
           /\ \A i, j \in P : Cardinality(A[i]) = Cardinality(A[j]) => i = j
<1> DEFINE n == Cardinality(P)
           r == [i \in P |-> Cardinality(A[i])]
<1>1. n \in Nat
  BY FS_CardinalityType
<1>2. \A i \in P : IsFiniteSet(A[i]) /\ Cardinality(A[i]) \in Nat /\ Cardinality(A[i]) <= n
  <2> TAKE i \in P
  <2>1. A[i] \in SUBSET P
    OBVIOUS
  <2>2. IsFiniteSet(A[i]) /\ Cardinality(A[i]) <= n
    BY <2>1, FS_Subset
  <2> QED BY <2>2, FS_CardinalityType
<1>3. \A i \in P : Cardinality(A[i]) # 0
  BY <1>2, FS_EmptySet
<1>4. \A i \in P : Cardinality(A[i]) \in 1..n
  BY <1>1, <1>2, <1>3
<1>5. \A i, j \in P : A[i] \subseteq A[j] /\ j \notin A[i] => Cardinality(A[i]) < Cardinality(A[j])
  <2> SUFFICES ASSUME NEW i \in P, NEW j \in P, A[i] \subseteq A[j], j \notin A[i]
               PROVE  Cardinality(A[i]) < Cardinality(A[j])
    OBVIOUS
  <2>1. A[i] \in SUBSET A[j] /\ A[i] # A[j]
    OBVIOUS
  <2>2. Cardinality(A[i]) <= Cardinality(A[j]) /\ Cardinality(A[i]) # Cardinality(A[j])
    BY <1>2, <2>1, FS_Subset
  <2> QED BY <1>2, <2>2
<1>6. \A i, j \in P : Cardinality(A[i]) = Cardinality(A[j]) => i = j
  <2> SUFFICES ASSUME NEW i \in P, NEW j \in P, i # j
               PROVE  Cardinality(A[i]) # Cardinality(A[j])
    OBVIOUS
  <2>1. Cardinality(A[i]) < Cardinality(A[j]) \/ Cardinality(A[j]) < Cardinality(A[i])
    BY <1>5
  <2> QED BY <1>2, <2>1
<1>7. r \in Injection(P, 1..n)
  BY <1>4, <1>6 DEF Injection, IsInjective
<1>8. IsFiniteSet(1..n) /\ Cardinality(1..n) = n
  BY <1>1, FS_Interval
<1>9. r \in Surjection(P, 1..n)
  BY <1>7, <1>8, FS_Injection
<1>10. \A k \in 1..n : \E i \in P : Cardinality(A[i]) = k
  BY <1>9 DEF Surjection
<1> QED BY <1>1, <1>4, <1>5, <1>6, <1>10

\* A comprehension keeps the places with the condition, in order.
LEMMA Selected ==
    ASSUME NEW s, NEW n \in Nat, NEW P, P \subseteq 1..n
    PROVE  /\ Cardinality(P) \in Nat
           /\ \E at \in [1..Cardinality(P) -> P] :
                 /\ SelectInOrder(s, P) = [k \in 1..Cardinality(P) |-> s[at[k]]]
                 /\ \A i \in P : \E k \in 1..Cardinality(P) : at[k] = i
                 /\ \A k, l \in 1..Cardinality(P) : k < l => at[k] < at[l]
<1> DEFINE A == [i \in P |-> {j \in P : j <= i}]
           m == Cardinality(P)
           at == [k \in 1..m |-> CHOOSE i \in P : Cardinality({j \in P : j <= i}) = k]
<1>0. \A i \in P : i \in Int
  OBVIOUS
<1>1. IsFiniteSet(P)
  <2>1. IsFiniteSet(1..n) /\ P \in SUBSET (1..n)
    BY FS_Interval
  <2> QED BY <2>1, FS_Subset
<1>2. A \in [P -> SUBSET P] /\ \A i \in P : i \in A[i]
  OBVIOUS
<1>3. \A i, j \in P : i < j => A[i] \subseteq A[j] /\ j \notin A[i]
  <2> SUFFICES ASSUME NEW i \in P, NEW j \in P, i < j
               PROVE  A[i] \subseteq A[j] /\ j \notin A[i]
    OBVIOUS
  <2>1. A[i] = {l \in P : l <= i} /\ A[j] = {l \in P : l <= j}
    OBVIOUS
  <2>2. \A l \in P : l <= i => l <= j
    BY <1>0
  <2>3. ~(j <= i)
    BY <1>0
  <2> HIDE DEF A
  <2> QED BY <2>1, <2>2, <2>3
<1>4. \A i, j \in P : i # j => \/ A[i] \subseteq A[j] /\ j \notin A[i]
                               \/ A[j] \subseteq A[i] /\ i \notin A[j]
  BY <1>3
<1>5. /\ m \in Nat
      /\ \A i \in P : Cardinality(A[i]) \in 1..m
      /\ \A k \in 1..m : \E i \in P : Cardinality(A[i]) = k
      /\ \A i, j \in P : A[i] \subseteq A[j] /\ j \notin A[i]
                            => Cardinality(A[i]) < Cardinality(A[j])
      /\ \A i, j \in P : Cardinality(A[i]) = Cardinality(A[j]) => i = j
  <2> HIDE DEF A
  <2> QED BY <1>1, <1>2, <1>4, RanksAreAll
<1>6. \A k \in 1..m : at[k] \in P /\ Cardinality(A[at[k]]) = k
  BY <1>5
<1> HIDE DEF m
<1>7. at \in [1..m -> P]
  BY <1>6
<1>8. \A i \in P : at[Cardinality(A[i])] = i
  BY <1>5, <1>6
<1>9. \A k, l \in 1..m : k < l => at[k] < at[l]
  <2> SUFFICES ASSUME NEW k \in 1..m, NEW l \in 1..m, k < l, ~(at[k] < at[l])
               PROVE  FALSE
    OBVIOUS
  <2>1. at[k] \in P /\ at[l] \in P /\ Cardinality(A[at[k]]) = k /\ Cardinality(A[at[l]]) = l
    BY <1>6
  <2> HIDE DEF at, A
  <2>2. at[l] < at[k] \/ at[l] = at[k]
    <3>1. at[k] \in Int /\ at[l] \in Int
      BY <1>0, <2>1
    <3> QED BY <3>1
  <2>3. at[l] < at[k] => Cardinality(A[at[l]]) < Cardinality(A[at[k]])
    BY <1>3, <1>5, <2>1
  <2> QED BY <2>1, <2>2, <2>3
<1>10. SelectInOrder(s, P) = [k \in 1..m |-> s[at[k]]]
  BY DEF SelectInOrder, m
<1> HIDE DEF at, A
<1> QED BY <1>5, <1>7, <1>8, <1>9, <1>10 DEF m

\* sorted() moves the elements and puts the lesser keys first.
LEMMA Sorted ==
    ASSUME NEW s, NEW n \in Nat, DOMAIN s = 1..n, NEW key, \A i \in 1..n : key[s[i]] \in Int
    PROVE  \E at \in [1..n -> 1..n] :
                 /\ SortedBy(s, key) = [k \in 1..n |-> s[at[k]]]
                 /\ \A i \in 1..n : \E k \in 1..n : at[k] = i
                 /\ \A k, l \in 1..n : k < l => key[s[at[k]]] <= key[s[at[l]]]
<1> DEFINE ahead(i) == {j \in 1..n : \/ key[s[j]] < key[s[i]]
                                     \/ key[s[j]] = key[s[i]] /\ j <= i}
           A == [i \in 1..n |-> ahead(i)]
           at == [k \in 1..n |-> CHOOSE i \in 1..n : Cardinality(ahead(i)) = k]
<1>1. IsFiniteSet(1..n) /\ Cardinality(1..n) = n
  BY FS_Interval
<1>2. A \in [1..n -> SUBSET (1..n)] /\ \A i \in 1..n : i \in A[i]
  OBVIOUS
<1>3. \A i, j \in 1..n : i \notin A[j] => A[j] \subseteq A[i]
  OBVIOUS
<1>4. \A i, j \in 1..n : i # j => i \notin A[j] \/ j \notin A[i]
  OBVIOUS
<1>5. /\ \A i \in 1..n : Cardinality(A[i]) \in 1..n
      /\ \A k \in 1..n : \E i \in 1..n : Cardinality(A[i]) = k
      /\ \A i, j \in 1..n : A[i] \subseteq A[j] /\ j \notin A[i]
                            => Cardinality(A[i]) < Cardinality(A[j])
      /\ \A i, j \in 1..n : Cardinality(A[i]) = Cardinality(A[j]) => i = j
  <2> HIDE DEF A
  <2>1. \A i, j \in 1..n : i # j => \/ A[i] \subseteq A[j] /\ j \notin A[i]
                                    \/ A[j] \subseteq A[i] /\ i \notin A[j]
    BY <1>3, <1>4
  <2> DEFINE P == 1..n
  <2>2. /\ IsFiniteSet(P) /\ A \in [P -> SUBSET P] /\ \A i \in P : i \in A[i]
        /\ \A i, j \in P : i # j => \/ A[i] \subseteq A[j] /\ j \notin A[i]
                                    \/ A[j] \subseteq A[i] /\ i \notin A[j]
    BY <1>1, <1>2, <2>1
  <2>3. Cardinality(P) = n
    BY <1>1
  <2> HIDE DEF P
  <2>4. /\ \A i \in P : Cardinality(A[i]) \in 1..Cardinality(P)
        /\ \A k \in 1..Cardinality(P) : \E i \in P : Cardinality(A[i]) = k
        /\ \A i, j \in P : A[i] \subseteq A[j] /\ j \notin A[i]
                             => Cardinality(A[i]) < Cardinality(A[j])
        /\ \A i, j \in P : Cardinality(A[i]) = Cardinality(A[j]) => i = j
    BY <2>2, RanksAreAll
  <2> QED BY <2>3, <2>4 DEF P
<1>6. \A k \in 1..n : at[k] \in 1..n /\ Cardinality(A[at[k]]) = k
  <2> DEFINE Ranked(k, i) == Cardinality(ahead(i)) = k
  <2>1. at = [k \in 1..n |-> CHOOSE i \in 1..n : Ranked(k, i)]
    OBVIOUS
  <2>2. \A k : \A i \in 1..n : Ranked(k, i) <=> Cardinality(A[i]) = k
    OBVIOUS
  <2> HIDE DEF A, at, ahead, Ranked
  <2>3. \A k \in 1..n : \E i \in 1..n : Ranked(k, i)
    BY <1>5, <2>2
  <2>4. \A k \in 1..n : at[k] \in 1..n /\ Ranked(k, at[k])
    BY <2>1, <2>3
  <2> QED BY <2>2, <2>4
<1>7. at \in [1..n -> 1..n]
  BY <1>6
<1>8. \A i \in 1..n : at[Cardinality(A[i])] = i
  BY <1>5, <1>6
<1>9. \A i, j \in 1..n : key[s[j]] < key[s[i]] => i \notin A[j]
  OBVIOUS
<1>10. \A k, l \in 1..n : k < l => key[s[at[k]]] <= key[s[at[l]]]
  <2> SUFFICES ASSUME NEW k \in 1..n, NEW l \in 1..n, k < l, ~(key[s[at[k]]] <= key[s[at[l]]])
               PROVE  FALSE
    OBVIOUS
  <2>1. at[k] \in 1..n /\ at[l] \in 1..n /\ Cardinality(A[at[k]]) = k /\ Cardinality(A[at[l]]) = l
    BY <1>6
  <2> HIDE DEF at, A
  <2>2. key[s[at[l]]] < key[s[at[k]]]
    BY <2>1
  <2>3. at[k] \notin A[at[l]] /\ A[at[l]] \subseteq A[at[k]]
    BY <1>3, <1>9, <2>1, <2>2
  <2>4. Cardinality(A[at[l]]) < Cardinality(A[at[k]])
    BY <1>5, <2>1, <2>3
  <2> QED BY <2>1, <2>4
<1>11. SortedBy(s, key) = [k \in 1..n |-> s[at[k]]]
  BY DEF SortedBy
<1> HIDE DEF at, A
<1> QED BY <1>5, <1>7, <1>8, <1>10, <1>11


LEMMA SelectedSeq ==
    ASSUME NEW V, NEW s \in Seq(V), NEW P, P \subseteq DOMAIN s
    PROVE  /\ SelectInOrder(s, P) \in Seq(V)
           /\ Range(SelectInOrder(s, P)) = {s[i] : i \in P}
           /\ SelectInOrder(s, P) = << >> <=> P = {}
<1> DEFINE n == Len(s)
           m == Cardinality(P)
<1>1. n \in Nat /\ DOMAIN s = 1..n /\ P \subseteq 1..n
  OBVIOUS
<1> HIDE DEF n
<1>2. m \in Nat
  BY <1>1, Selected
<1>3. PICK at \in [1..m -> P] : /\ SelectInOrder(s, P) = [k \in 1..m |-> s[at[k]]]
                                /\ \A i \in P : \E k \in 1..m : at[k] = i
                                /\ \A k, l \in 1..m : k < l => at[k] < at[l]
  BY <1>1, Selected
<1> HIDE DEF m
<1>4. \A k \in 1..m : s[at[k]] \in V
  BY <1>1
<1>5. SelectInOrder(s, P) \in Seq(V) /\ DOMAIN SelectInOrder(s, P) = 1..m
  BY <1>2, <1>3, <1>4
<1>6. Range(SelectInOrder(s, P)) = {s[i] : i \in P}
  BY <1>3 DEF Range
<1>7. SelectInOrder(s, P) = << >> <=> m = 0
  BY <1>2, <1>5
<1>8. m = 0 <=> P = {}
  <2>1. m = 0 => P = {}
    BY <1>3
  <2>2. P = {} => m = 0
    BY FS_EmptySet DEF m
  <2> QED BY <2>1, <2>2
<1> QED BY <1>5, <1>6, <1>7, <1>8

LEMMA AmongIs ==
    ASSUME NEW V, NEW s \in Seq(V), NEW S
    PROVE  /\ Among(s, S) \in Seq(V)
           /\ Range(Among(s, S)) = Range(s) \cap S
           /\ Among(s, S) = << >> <=> Range(s) \cap S = {}
<1> DEFINE P == {i \in DOMAIN s : s[i] \in S}
<1>1. Among(s, S) = SelectInOrder(s, P)
  BY DEF Among
<1>2. {s[i] : i \in P} = Range(s) \cap S
  BY DEF Range
<1>3. P = {} <=> Range(s) \cap S = {}
  BY DEF Range
<1>4. P \subseteq DOMAIN s
  OBVIOUS
<1> HIDE DEF P
<1> QED BY <1>1, <1>2, <1>3, <1>4, SelectedSeq

LEMMA SortedIs ==
    ASSUME NEW V, NEW s \in Seq(V), NEW key, \A x \in Range(s) : key[x] \in Int
    PROVE  /\ SortedBy(s, key) \in Seq(V)
           /\ Len(SortedBy(s, key)) = Len(s)
           /\ Range(SortedBy(s, key)) = Range(s)
           /\ \A k, l \in DOMAIN SortedBy(s, key) :
                 k < l => key[SortedBy(s, key)[k]] <= key[SortedBy(s, key)[l]]
<1> DEFINE n == Len(s)
<1>1. n \in Nat /\ DOMAIN s = 1..n /\ \A i \in 1..n : s[i] \in V /\ key[s[i]] \in Int
  BY DEF Range
<1> HIDE DEF n
<1>2. PICK at \in [1..n -> 1..n] :
          /\ SortedBy(s, key) = [k \in 1..n |-> s[at[k]]]
          /\ \A i \in 1..n : \E k \in 1..n : at[k] = i
          /\ \A k, l \in 1..n : k < l => key[s[at[k]]] <= key[s[at[l]]]
  BY <1>1, Sorted
<1>3. \A k \in 1..n : s[at[k]] \in V
  BY <1>1
<1>4. SortedBy(s, key) \in Seq(V) /\ Len(SortedBy(s, key)) = n /\ DOMAIN SortedBy(s, key) = 1..n
  BY <1>1, <1>2, <1>3
<1>5. Range(SortedBy(s, key)) = Range(s)
  <2>1. \A k \in 1..n : s[at[k]] \in Range(s)
    BY <1>1 DEF Range
  <2>2. \A i \in 1..n : \E k \in 1..n : s[i] = s[at[k]]
    BY <1>2
  <2>3. \A f : DOMAIN f = 1..n => Range(f) = {f[k] : k \in 1..n}
    BY DEF Range
  <2> DEFINE t == SortedBy(s, key)
  <2>4. DOMAIN t = 1..n /\ \A k \in 1..n : t[k] = s[at[k]]
    BY <1>2
  <2> HIDE DEF t
  <2>5. Range(t) = {t[k] : k \in 1..n} /\ Range(s) = {s[k] : k \in 1..n}
    BY <1>1, <2>3, <2>4
  <2>6. \A x : x \in Range(t) => x \in Range(s)
    BY <2>1, <2>4, <2>5
  <2>7. \A x : x \in Range(s) => x \in Range(t)
    BY <2>2, <2>4, <2>5
  <2> QED BY <2>6, <2>7 DEF t
<1> QED BY <1>2, <1>4, <1>5 DEF n

LEMMA CutIs ==
    ASSUME NEW V, NEW s \in Seq(V), NEW n \in Nat
    PROVE  /\ Cut(s, n) \in Seq(V)
           /\ Len(Cut(s, n)) = IF Len(s) < n THEN Len(s) ELSE n
           /\ \A i \in 1..Len(Cut(s, n)) : i \in 1..Len(s) /\ Cut(s, n)[i] = s[i]
           /\ Range(Cut(s, n)) \subseteq Range(s)
<1> DEFINE m == IF Len(s) < n THEN Len(s) ELSE n
<1>1. m \in 0..Len(s)
  OBVIOUS
<1>2. Cut(s, n) = SubSeq(s, 1, m)
  BY DEF Cut
<1>3. Cut(s, n) = [i \in 1..m |-> s[i]]
  BY <1>1, <1>2
<1> HIDE DEF m
<1>4. \A i \in 1..m : i \in 1..Len(s) /\ s[i] \in V
  BY <1>1
<1>5. Cut(s, n) \in Seq(V) /\ Len(Cut(s, n)) = m
  BY <1>1, <1>3, <1>4
<1>6. \A i \in 1..m : Cut(s, n)[i] = s[i] /\ s[i] \in Range(s)
  BY <1>3, <1>4 DEF Range
<1>7. Range(Cut(s, n)) \subseteq Range(s)
  BY <1>3, <1>6 DEF Range
<1> QED BY <1>4, <1>5, <1>6, <1>7 DEF m

LEMMA SameLists ==
    /\ \A s, S : Failures!SelectInOrder(s, S) = SelectInOrder(s, S)
    /\ \A s, S : Failures!Among(s, S) = Among(s, S)
    /\ \A s, n : Failures!Cut(s, n) = Cut(s, n)
    /\ \A S : Failures!Min(S) = Min(S)
    /\ \A S : Failures!Range(S) = Range(S)
<1>1. \A s, S : Failures!SelectInOrder(s, S) = SelectInOrder(s, S)
  BY DEF Failures!SelectInOrder, SelectInOrder, Failures!Cardinality, Cardinality
<1>2. \A s, S : Failures!Among(s, S) = Among(s, S)
  BY <1>1 DEF Failures!Among, Among
<1>3. \A s, n : Failures!Cut(s, n) = Cut(s, n)
  BY DEF Failures!Cut, Cut
<1>4. \A S : Failures!Min(S) = Min(S)
  BY DEF Failures!Min, Min
<1>5. \A S : Failures!Range(S) = Range(S)
  BY DEF Failures!Range, Range
<1> QED BY <1>1, <1>2, <1>3, <1>4, <1>5

LEMMA SeqWidens ==
    ASSUME NEW S, NEW T, S \subseteq T, NEW x \in Seq(S)
    PROVE  x \in Seq(T)
OBVIOUS

LEMMA AmongAll ==
    ASSUME NEW V, NEW s \in Seq(V), NEW S, Range(s) \subseteq S
    PROVE  Among(s, S) = s
<1> DEFINE n == Len(s)
<1>1. n \in Nat /\ DOMAIN s = 1..n /\ s = [k \in 1..n |-> s[k]]
  OBVIOUS
<1>2. {i \in DOMAIN s : s[i] \in S} = 1..n
  BY <1>1 DEF Range
<1>3. \A i \in 1..n : Cardinality({j \in 1..n : j <= i}) = i
  <2> SUFFICES ASSUME NEW i \in 1..n PROVE Cardinality({j \in 1..n : j <= i}) = i
    OBVIOUS
  <2>1. {j \in 1..n : j <= i} = 1..i
    <3>1. i \in Int /\ i <= n /\ n \in Int
      BY <1>1
    <3> HIDE DEF n
    <3> QED BY <3>1
  <2>2. Cardinality(1..i) = i
    BY FS_Interval
  <2> QED BY <2>1, <2>2
<1>4. Cardinality(1..n) = n
  <2>1. n \in Nat
    OBVIOUS
  <2> HIDE DEF n
  <2> QED BY <2>1, FS_Interval
<1> DEFINE at(k) == CHOOSE i \in 1..n : Cardinality({j \in 1..n : j <= i}) = k
<1>5. \A k \in 1..n : at(k) = k
  BY <1>3
<1>6. SelectInOrder(s, 1..n) = [k \in 1..n |-> s[at(k)]]
  <2>1. SelectInOrder(s, 1..n) = [k \in 1..Cardinality(1..n) |-> s[at(k)]]
    BY DEF SelectInOrder
  <2> HIDE DEF at, n
  <2> QED BY <1>4, <2>1
<1>7. Among(s, S) = SelectInOrder(s, 1..n)
  BY <1>2 DEF Among
<1> HIDE DEF n, at
<1>8. [k \in 1..n |-> s[at(k)]] = [k \in 1..n |-> s[k]]
  BY <1>5
<1> QED BY <1>1, <1>6, <1>7, <1>8

(***************************************************************************)
(* Tags.                                                                   *)
(***************************************************************************)
Rules == {"compile", "elab", "assertion", "timeout", "xprop", "scoreboard", "protocol", "runtime"}
Protos == {"axi4", "apb", "ahb", "pcie", "usb", "jtag", "i2c", "spi"}

LEMMA KnownAre == Failures!Known = Protos \ {"jtag"}
BY DEF Failures!Known, Failures!Range, Failures!ProtocolOrder, Protos

LEMMA CategoryTagsAre ==
    ASSUME NEW words
    PROVE  Failures!CategoryTags(words) \in Seq(Rules \cup {"sva"})
<1> DEFINE order == Failures!RuleOrder
           first == Failures!FirstOf(order, WordCues[words])
<1>1. order \in Seq(Rules)
  BY DEF Failures!RuleOrder, Rules
<1> HIDE DEF order
<1>2. Among(order, WordCues[words]) \in Seq(Rules)
  BY <1>1, AmongIs
<1>3. first = Cut(Among(order, WordCues[words]), 1)
  BY SameLists DEF Failures!FirstOf
<1>4. first \in Seq(Rules)
  BY <1>2, <1>3, CutIs
<1> HIDE DEF first
<1>5. first # << >> => Head(first) \in Rules
  BY <1>4
<1>6. Failures!Category(words) \in Rules \cup {"unknown"}
  BY <1>5 DEF Failures!Category, order, first
<1>7. CASE Failures!Category(words) = "unknown"
  BY <1>7 DEF Failures!CategoryTags
<1>8. CASE Failures!Category(words) = "assertion"
  BY <1>8 DEF Failures!CategoryTags, Rules
<1>9. CASE Failures!Category(words) \in Rules \ {"assertion"}
  <2>1. Failures!Category(words) # "unknown"
    BY <1>9 DEF Rules
  <2> QED BY <1>9, <2>1 DEF Failures!CategoryTags
<1> QED BY <1>6, <1>7, <1>8, <1>9

LEMMA TagsExtended ==
    ASSUME NEW V, NEW W, NEW tags \in Seq(V), NEW more \in Seq(W)
    PROVE  \E x \in Seq(W) : Failures!AddTags(tags, more) = tags \o x
<1>1. Failures!AddTags(tags, more) = tags \o Among(more, Range(more) \ Range(tags))
  BY SameLists DEF Failures!AddTags
<1>2. Among(more, Range(more) \ Range(tags)) \in Seq(W)
  BY AmongIs
<1> QED BY <1>1, <1>2

LEMMA TagsAppended ==
    ASSUME NEW V, NEW W, V \cap W = {}, NEW tags \in Seq(V), NEW more \in Seq(W)
    PROVE  Failures!AddTags(tags, more) = tags \o more
<1>1. Failures!AddTags(tags, more) = tags \o Among(more, Range(more) \ Range(tags))
  BY SameLists DEF Failures!AddTags
<1>2. Range(more) \subseteq W /\ Range(tags) \subseteq V
  BY DEF Range
<1>3. Range(more) \subseteq Range(more) \ Range(tags)
  BY <1>2
<1>4. Among(more, Range(more) \ Range(tags)) = more
  BY <1>3, AmongAll
<1> QED BY <1>1, <1>4

\* Where a tag stands that names a protocol: behind those of the category and the framework,
\* as far as the cut leaves it.
ProtocolsOf(words) == Among(Failures!ProtocolOrder, WordProtocols[words])
Before(words) == Len(Failures!CategoryTags(words)) + 1

RoleTags == {"driver", "monitor", "scoreboard", "sequencer"}
VendorTags == {"vcs", "questa", "xcelium", "verilator", "riviera"}
Later == RoleTags \cup VendorTags \cup {"phase"}

Around(tags, words) ==
    \E lead \in Seq(Rules \cup {"sva", "uvm", "cocotb"}), later \in Seq(Later) :
        Len(lead) = Before(words) /\ tags = (lead \o ProtocolsOf(words)) \o later

LEMMA BuiltTags ==
    ASSUME NEW words, NEW phase, NEW roles, NEW framework \in {"uvm", "cocotb"}
    PROVE  /\ ProtocolsOf(words) \in Seq(Protos)
           /\ Before(words) \in Nat
           /\ Around(Failures!BuildTags(words, phase, roles, framework), words)
<1> DEFINE cat == Failures!CategoryTags(words)
           protos == ProtocolsOf(words)
           before == Before(words)
           Lead == Rules \cup {"sva", "uvm", "cocotb"}
           named == Failures!AddTags(cat, << framework >>)
           spoken == Failures!AddTags(named, Among(Failures!ProtocolOrder, WordProtocols[words]))
           sold == Failures!AddTags(spoken, Failures!FirstOf(Failures!VendorOrder, WordVendors[words]))
           phased == Failures!AddTags(sold, Failures!PhaseTags(phase))
           built == Failures!AddTags(phased, Among(Failures!RoleOrder, roles))
<1>1. cat \in Seq(Rules \cup {"sva"})
  BY CategoryTagsAre
<1>2. named = cat \o << framework >>
  <2> DEFINE V == Rules \cup {"sva"}
             W == {"uvm", "cocotb"}
             more == << framework >>
  <2>1. more \in Seq(W)
    OBVIOUS
  <2>2. V \cap W = {}
    BY DEF Rules
  <2>3. cat \in Seq(V)
    BY <1>1
  <2> HIDE DEF V, W, more, cat
  <2>4. Failures!AddTags(cat, more) = cat \o more
    BY <2>1, <2>2, <2>3, TagsAppended
  <2> QED BY <2>4 DEF more
<1>3. protos \in Seq(Protos)
  <2>1. Failures!ProtocolOrder \in Seq(Protos)
    BY DEF Failures!ProtocolOrder, Protos
  <2> QED BY <2>1, AmongIs DEF ProtocolsOf
<1>4. named \in Seq(Lead) /\ Len(named) = before
  <2>1. cat \in Seq(Lead) /\ << framework >> \in Seq(Lead)
    BY <1>1
  <2> HIDE DEF Lead, named
  <2> QED BY <1>2, <2>1 DEF Before
<1>5. spoken = named \o protos
  <2>1. Lead \cap Protos = {}
    BY DEF Rules, Protos
  <2> HIDE DEF Lead, named, protos
  <2>2. Failures!AddTags(named, protos) = named \o protos
    BY <1>3, <1>4, <2>1, TagsAppended
  <2> QED BY <2>2 DEF protos, ProtocolsOf
<1>6. \E x \in Seq(Later) : sold = spoken \o x
  <2>1. Failures!VendorOrder \in Seq(VendorTags)
    BY DEF Failures!VendorOrder, VendorTags
  <2>2. Among(Failures!VendorOrder, WordVendors[words]) \in Seq(VendorTags)
    BY <2>1, AmongIs
  <2>3. Failures!FirstOf(Failures!VendorOrder, WordVendors[words]) \in Seq(VendorTags)
    BY <2>2, CutIs, SameLists DEF Failures!FirstOf
  <2>4. spoken \in Seq(Lead \cup Protos)
    <3> HIDE DEF Lead, named, protos, spoken
    <3>1. named \in Seq(Lead \cup Protos) /\ protos \in Seq(Lead \cup Protos)
      BY <1>3, <1>4, SeqWidens
    <3> QED BY <1>5, <3>1
  <2> DEFINE sale == Failures!FirstOf(Failures!VendorOrder, WordVendors[words])
  <2> HIDE DEF spoken, sale
  <2>5. \E x \in Seq(VendorTags) : Failures!AddTags(spoken, sale) = spoken \o x
    BY <2>3, <2>4, TagsExtended DEF sale
  <2>6. VendorTags \subseteq Later
    BY DEF Later
  <2> QED BY <2>5, <2>6, SeqWidens DEF sale
<1>7. \E x \in Seq(Later) : phased = sold \o x
  <2>1. sold \in Seq(Lead \cup Protos \cup Later)
    <3> HIDE DEF Lead, named, protos, spoken, sold
    <3>1. named \in Seq(Lead \cup Protos \cup Later) /\ protos \in Seq(Lead \cup Protos \cup Later)
      BY <1>3, <1>4, SeqWidens
    <3>2. \A x \in Seq(Later) : x \in Seq(Lead \cup Protos \cup Later)
      BY SeqWidens
    <3> QED BY <1>5, <1>6, <3>1, <3>2
  <2>2. Failures!PhaseTags(phase) \in Seq(Later)
    <3>1. << "phase" >> \in Seq(Later) /\ << >> \in Seq(Later)
      BY DEF Later
    <3> QED BY <3>1 DEF Failures!PhaseTags
  <2> HIDE DEF sold
  <2> QED BY <2>1, <2>2, TagsExtended
<1>8. \E x \in Seq(Later) : built = phased \o x
  <2>1. phased \in Seq(Lead \cup Protos \cup Later)
    <3> HIDE DEF Lead, named, protos, spoken, sold, phased
    <3>1. named \in Seq(Lead \cup Protos \cup Later) /\ protos \in Seq(Lead \cup Protos \cup Later)
      BY <1>3, <1>4, SeqWidens
    <3>2. \A x \in Seq(Later) : x \in Seq(Lead \cup Protos \cup Later)
      BY SeqWidens
    <3> QED BY <1>5, <1>6, <1>7, <3>1, <3>2
  <2>2. Failures!RoleOrder \in Seq(Later)
    BY DEF Failures!RoleOrder, Later, RoleTags
  <2>3. Among(Failures!RoleOrder, roles) \in Seq(Later)
    BY <2>2, AmongIs
  <2> HIDE DEF phased
  <2> QED BY <2>1, <2>3, TagsExtended
<1>9. Failures!BuildTags(words, phase, roles, framework) = built
  BY SameLists DEF Failures!BuildTags
<1>10. Before(words) \in Nat
  BY <1>1 DEF Before
<1> HIDE DEF Lead, named, protos, spoken, sold, phased, built, before
<1>11. PICK x \in Seq(Later), y \in Seq(Later), z \in Seq(Later) :
           sold = spoken \o x /\ phased = sold \o y /\ built = phased \o z
  BY <1>6, <1>7, <1>8
<1>12. ((x \o y) \o z) \in Seq(Later) /\ built = (named \o protos) \o ((x \o y) \o z)
  <2>1. spoken \in Seq(Lead \cup Protos)
    <3>1. named \in Seq(Lead \cup Protos) /\ protos \in Seq(Lead \cup Protos)
      BY <1>3, <1>4, SeqWidens
    <3> QED BY <1>5, <3>1
  <2> HIDE DEF Later
  <2>2. built = ((spoken \o x) \o y) \o z
    BY <1>11
  <2>3. ((spoken \o x) \o y) \o z = spoken \o ((x \o y) \o z)
    <3> DEFINE All == Lead \cup Protos \cup Later
    <3>1. spoken \in Seq(All) /\ x \in Seq(All) /\ y \in Seq(All) /\ z \in Seq(All)
      BY <2>1, SeqWidens
    <3> HIDE DEF All
    <3>2. (spoken \o x) \o y = spoken \o (x \o y)
      BY <3>1
    <3>3. (x \o y) \in Seq(All)
      BY <3>1
    <3>4. (spoken \o (x \o y)) \o z = spoken \o ((x \o y) \o z)
      BY <3>1, <3>3
    <3> QED BY <3>2, <3>4
  <2> QED BY <1>5, <2>2, <2>3
<1>13. /\ named \in Seq(Rules \cup {"sva", "uvm", "cocotb"})
       /\ Len(named) = Before(words) /\ protos = ProtocolsOf(words)
  BY <1>4 DEF Lead, before, protos
<1>14. Around(built, words)
  BY <1>12, <1>13 DEF Around
<1> QED BY <1>3, <1>9, <1>10, <1>13, <1>14

LEMMA TwoJoined ==
    ASSUME NEW V, NEW s \in Seq(V), NEW t \in Seq(V)
    PROVE  /\ s \o t \in Seq(V)
           /\ Len(s) \in Nat /\ Len(t) \in Nat /\ Len(s \o t) = Len(s) + Len(t)
           /\ \A i \in 1..(Len(s) + Len(t)) :
                 (s \o t)[i] = IF i <= Len(s) THEN s[i] ELSE t[i - Len(s)]
OBVIOUS

LEMMA ProtocolPlaces ==
    ASSUME NEW words, NEW phase, NEW roles, NEW framework \in {"uvm", "cocotb"}
    PROVE  LET tags == Failures!Tags(words, phase, roles, framework)
               protos == ProtocolsOf(words)
               before == Before(words)
           IN  /\ Len(tags) \in Nat /\ Len(tags) <= MaxTags /\ DOMAIN tags = 1..Len(tags)
               /\ \A i \in Int :
                     i \in DOMAIN tags /\ tags[i] \in Failures!Known <=>
                         /\ i \in (before + 1)..(before + Len(protos)) /\ i <= MaxTags
                         /\ protos[i - before] \in Failures!Known
               /\ \A i \in DOMAIN tags :
                     tags[i] \in Failures!Known => tags[i] = protos[i - before]
<1> DEFINE tags == Failures!Tags(words, phase, roles, framework)
           protos == ProtocolsOf(words)
           before == Before(words)
           built == Failures!BuildTags(words, phase, roles, framework)
           Lead == Rules \cup {"sva", "uvm", "cocotb"}
           All == Lead \cup Protos \cup Later
           p == Len(protos)
<1>1. protos \in Seq(Protos) /\ before \in Nat
  BY BuiltTags
<1>2. PICK lead \in Seq(Lead), later \in Seq(Later) :
          Len(lead) = before /\ built = (lead \o protos) \o later
  <2>1. Around(built, words)
    BY BuiltTags
  <2> QED BY <2>1 DEF Around
<1>3. Failures!Known \cap Lead = {} /\ Failures!Known \cap Later = {}
  BY KnownAre DEF Rules, Protos, Later, RoleTags, VendorTags
<1>4. tags = Cut(built, MaxTags)
  BY SameLists DEF Failures!Tags
<1> HIDE DEF tags, protos, before, built, Lead
<1>5. p \in Nat
  BY <1>1
<1>6. lead \in Seq(All) /\ protos \in Seq(All) /\ later \in Seq(All)
  BY <1>1, <1>2, SeqWidens
<1> DEFINE total == before + p + Len(later)
<1> HIDE DEF All
<1>7. /\ built \in Seq(All) /\ Len(built) = total /\ Len(later) \in Nat
      /\ \A i \in 1..total :
            built[i] = IF i <= before THEN lead[i]
                       ELSE IF i <= before + p THEN protos[i - before]
                       ELSE later[i - (before + p)]
  <2> DEFINE front == lead \o protos
  <2>1. /\ front \in Seq(All) /\ Len(front) = before + p
        /\ \A i \in 1..(before + p) :
              front[i] = IF i <= before THEN lead[i] ELSE protos[i - before]
    BY <1>1, <1>2, <1>5, <1>6
  <2>2. built = front \o later
    BY <1>2
  <2> HIDE DEF front, p
  <2>3. /\ built \in Seq(All) /\ Len(built) = total /\ Len(later) \in Nat
        /\ \A i \in 1..total :
              built[i] = IF i <= before + p THEN front[i] ELSE later[i - (before + p)]
    <3> HIDE DEF built, total
    <3>1. /\ front \o later \in Seq(All) /\ Len(later) \in Nat
          /\ Len(front \o later) = Len(front) + Len(later)
          /\ \A i \in 1..(Len(front) + Len(later)) :
                (front \o later)[i] = IF i <= Len(front) THEN front[i]
                                      ELSE later[i - Len(front)]
      BY <1>6, <2>1, TwoJoined
    <3>2. total = Len(front) + Len(later)
      BY <2>1 DEF total
    <3> QED BY <2>1, <2>2, <3>1, <3>2
  <2> QED BY <1>1, <1>5, <2>1, <2>3
<1>8. \A i \in 1..total :
          /\ i <= before => built[i] \notin Failures!Known
          /\ i > before + p => built[i] \notin Failures!Known
          /\ i \in (before + 1)..(before + p) => built[i] = protos[i - before]
  <2> HIDE DEF p
  <2> SUFFICES ASSUME NEW i \in 1..total
               PROVE  /\ i <= before => built[i] \notin Failures!Known
                      /\ i > before + p => built[i] \notin Failures!Known
                      /\ i \in (before + 1)..(before + p) => built[i] = protos[i - before]
    OBVIOUS
  <2>1. i <= before => lead[i] \in Lead
    BY <1>1, <1>2
  <2>2. i > before + p => later[i - (before + p)] \in Later
    BY <1>1, <1>2, <1>5, <1>7
  <2> QED BY <1>1, <1>3, <1>5, <1>7, <2>1, <2>2
<1> HIDE DEF p, total
<1>9. total \in Nat /\ total >= before + p
  BY <1>1, <1>5, <1>7 DEF total
<1>10. MaxTags \in Nat
  BY LimitsAssumption
<1> DEFINE n == Len(tags)
<1>11. /\ tags \in Seq(All) /\ n = IF total < MaxTags THEN total ELSE MaxTags
       /\ \A i \in 1..n : i \in 1..total /\ tags[i] = built[i]
  BY <1>4, <1>7, <1>10, CutIs
<1>12. n \in Nat /\ n <= MaxTags /\ n <= total /\ DOMAIN tags = 1..n
  BY <1>9, <1>10, <1>11
<1>13. \A i \in 1..n :
          tags[i] \in Failures!Known => i \in (before + 1)..(before + p) /\ tags[i] = protos[i - before]
  BY <1>1, <1>5, <1>8, <1>9, <1>11, <1>12
<1>14. \A i \in (before + 1)..(before + p) : i <= MaxTags => i \in 1..n /\ tags[i] = protos[i - before]
  BY <1>1, <1>5, <1>8, <1>9, <1>10, <1>11
<1>15. \A i \in Int :
          i \in DOMAIN tags /\ tags[i] \in Failures!Known <=>
              /\ i \in (before + 1)..(before + p) /\ i <= MaxTags
              /\ protos[i - before] \in Failures!Known
  <2> TAKE i \in Int
  <2>1. ASSUME i \in DOMAIN tags, tags[i] \in Failures!Known
        PROVE  /\ i \in (before + 1)..(before + p) /\ i <= MaxTags
               /\ protos[i - before] \in Failures!Known
    <3>1. i \in 1..n /\ i <= n
      BY <1>12, <2>1
    <3>2. i \in (before + 1)..(before + p) /\ tags[i] = protos[i - before]
      BY <1>13, <2>1, <3>1
    <3> HIDE DEF n
    <3>3. i <= MaxTags
      BY <1>10, <1>12, <3>1
    <3> QED BY <2>1, <3>2, <3>3
  <2>2. ASSUME i \in (before + 1)..(before + p), i <= MaxTags,
               protos[i - before] \in Failures!Known
        PROVE  i \in DOMAIN tags /\ tags[i] \in Failures!Known
    BY <1>12, <1>14, <2>2
  <2> QED BY <2>1, <2>2
<1> QED BY <1>12, <1>13, <1>15 DEF tags, protos, before, p

\* The protocol of the tags is that of the words.
LEMMA ProtocolOfTheWords ==
    ASSUME NEW words, NEW p1, NEW p2, NEW r1, NEW r2,
           NEW f1 \in {"uvm", "cocotb"}, NEW f2 \in {"uvm", "cocotb"}
    PROVE  Failures!Protocol(Failures!Tags(words, p1, r1, f1))
             = Failures!Protocol(Failures!Tags(words, p2, r2, f2))
<1> DEFINE t1 == Failures!Tags(words, p1, r1, f1)
           t2 == Failures!Tags(words, p2, r2, f2)
           KnownIn(t) == {i \in DOMAIN t : t[i] \in Failures!Known}
           protos == ProtocolsOf(words)
           before == Before(words)
           There(i) == /\ i \in (before + 1)..(before + Len(protos)) /\ i <= MaxTags
                       /\ protos[i - before] \in Failures!Known
<1>1. /\ Len(t1) \in Nat /\ DOMAIN t1 = 1..Len(t1)
      /\ \A i \in Int : i \in DOMAIN t1 /\ t1[i] \in Failures!Known <=> There(i)
      /\ \A i \in DOMAIN t1 : t1[i] \in Failures!Known => t1[i] = protos[i - before]
  BY ProtocolPlaces
<1>2. /\ Len(t2) \in Nat /\ DOMAIN t2 = 1..Len(t2)
      /\ \A i \in Int : i \in DOMAIN t2 /\ t2[i] \in Failures!Known <=> There(i)
      /\ \A i \in DOMAIN t2 : t2[i] \in Failures!Known => t2[i] = protos[i - before]
  BY ProtocolPlaces
<1> DEFINE K == KnownIn(t1)
<1> HIDE DEF t1, t2, protos, before, There
<1>3. K = KnownIn(t2) /\ K \subseteq Nat
  BY <1>1, <1>2
<1>4. K # {} => Min(K) \in K
  <2> SUFFICES ASSUME K # {} PROVE Min(K) \in K
    OBVIOUS
  <2> HIDE DEF K
  <2>1. \E x \in K : \A y \in K : x <= y
    BY <1>3, LeastNatural
  <2> QED BY <2>1 DEF Min
<1>5. K # {} => t1[Min(K)] = t2[Min(K)]
  <2> SUFFICES ASSUME K # {} PROVE t1[Min(K)] = t2[Min(K)]
    OBVIOUS
  <2> DEFINE m == Min(K)
  <2>1. m \in KnownIn(t1) /\ m \in KnownIn(t2)
    BY <1>3, <1>4
  <2> HIDE DEF m, K
  <2>2. t1[m] = protos[m - before] /\ t2[m] = protos[m - before]
    BY <1>1, <1>2, <2>1
  <2> QED BY <2>2 DEF m
<1>6. /\ Failures!Protocol(t1) = IF K = {} THEN "none" ELSE t1[Min(K)]
      /\ Failures!Protocol(t2) = IF KnownIn(t2) = {} THEN "none" ELSE t2[Min(KnownIn(t2))]
  BY SameLists DEF Failures!Protocol
<1> HIDE DEF K
<1>7. Failures!Protocol(t1) = Failures!Protocol(t2)
  BY <1>3, <1>5, <1>6
<1> QED BY <1>7 DEF t1, t2

(***************************************************************************)
(* Reports: which rows of a report its metrics are drawn from.             *)
(***************************************************************************)
DrawnFrom(metrics, rows) ==
    /\ metrics \in Seq(Metrics)
    /\ \A m \in Range(metrics) : \E row \in rows : m.covered = row.covered /\ m.name = row.name
    /\ metrics = << >> <=> rows = {}

LEMMA KeyTyped == \A m \in Metrics : SortKey(m) \in Int
<1> SUFFICES ASSUME NEW m \in Metrics PROVE SortKey(m) \in Int
  OBVIOUS
<1>2. Position(Scopes, m.scope) \in Int
  <2>1. m.scope \in Range(Scopes)
    BY DEF Metrics
  <2>2. PICK i \in DOMAIN Scopes : Scopes[i] = m.scope
    BY <2>1 DEF Range
  <2>3. Position(Scopes, m.scope) \in DOMAIN Scopes
    BY <2>2 DEF Position
  <2> QED BY <2>3, NamesAssumption
<1>3. Position(KindNames, m.name) \in Int
  <2>1. m.name \in Range(KindNames)
    BY DEF Metrics
  <2>2. PICK i \in DOMAIN KindNames : KindNames[i] = m.name
    BY <2>1 DEF Range
  <2>3. Position(KindNames, m.name) \in DOMAIN KindNames
    BY <2>2 DEF Position
  <2> QED BY <2>3, NamesAssumption
<1>4. Len(KindNames) \in Int
  BY NamesAssumption
<1> QED BY <1>2, <1>3, <1>4 DEF SortKey

LEMMA EmptySeqIs ==
    ASSUME NEW V, NEW s \in Seq(V)
    PROVE  /\ Range(s) \subseteq V
           /\ s = << >> <=> Range(s) = {}
           /\ s = << >> <=> Len(s) = 0
<1>1. Range(s) \subseteq V
  BY DEF Range
<1>2. s = << >> <=> Len(s) = 0
  OBVIOUS
<1>3. Len(s) = 0 => Range(s) = {}
  BY DEF Range
<1>4. Len(s) # 0 => s[1] \in Range(s)
  BY DEF Range
<1> QED BY <1>1, <1>2, <1>3, <1>4

LEMMA BoundIs ==
    ASSUME NEW metrics \in Seq(Metrics)
    PROVE  /\ BoundMetrics(metrics) \in Seq(Metrics)
           /\ Len(BoundMetrics(metrics)) <= MaxMetrics
           /\ Range(BoundMetrics(metrics)) \subseteq Range(metrics)
           /\ BoundMetrics(metrics) = << >> <=> metrics = << >>
<1> DEFINE key == [m \in Range(metrics) |-> SortKey(m)]
           sorted == SortMetrics(metrics)
<1>1. \A m \in Range(metrics) : key[m] \in Int
  BY KeyTyped, EmptySeqIs
<1>2. sorted = SortedBy(metrics, key)
  BY DEF SortMetrics
<1> HIDE DEF key, sorted
<1>3. /\ sorted \in Seq(Metrics) /\ Len(sorted) = Len(metrics) /\ Range(sorted) = Range(metrics)
  BY <1>1, <1>2, SortedIs
<1>4. MaxMetrics \in Nat /\ MaxMetrics # 0
  BY MaxMetricsAssumption
<1>5. BoundMetrics(metrics) = Cut(sorted, MaxMetrics)
  BY DEF BoundMetrics, sorted
<1> DEFINE cut == Cut(sorted, MaxMetrics)
<1>6. /\ cut \in Seq(Metrics) /\ Len(cut) = IF Len(sorted) < MaxMetrics THEN Len(sorted) ELSE MaxMetrics
      /\ Range(cut) \subseteq Range(sorted)
  BY <1>3, <1>4, CutIs
<1> HIDE DEF cut
<1>7. Len(metrics) \in Nat
  OBVIOUS
<1>8. Len(cut) <= MaxMetrics /\ (Len(cut) = 0 <=> Len(metrics) = 0)
  BY <1>3, <1>4, <1>6, <1>7
<1>9. cut = << >> <=> metrics = << >>
  BY <1>6, <1>8, EmptySeqIs
<1> QED BY <1>3, <1>5, <1>6, <1>8, <1>9 DEF cut

LEMMA BoundDrawn ==
    ASSUME NEW metrics, NEW rows, DrawnFrom(metrics, rows)
    PROVE  DrawnFrom(BoundMetrics(metrics), rows) /\ Len(BoundMetrics(metrics)) <= MaxMetrics
<1>1. metrics \in Seq(Metrics)
  BY DEF DrawnFrom
<1> QED BY <1>1, BoundIs DEF DrawnFrom

LEMMA OrElseDrawn ==
    ASSUME NEW a, NEW b, NEW S, NEW T, DrawnFrom(a, S), DrawnFrom(b, T)
    PROVE  /\ S # {} => DrawnFrom(OrElse(a, b), S)
           /\ S = {} => DrawnFrom(OrElse(a, b), T)
BY DEF DrawnFrom, OrElse

LEMMA MappedSeq ==
    ASSUME NEW V, NEW W, NEW s \in Seq(V), NEW t, DOMAIN t = DOMAIN s,
           \A i \in DOMAIN s : t[i] \in W, t = [i \in DOMAIN s |-> t[i]]
    PROVE  t \in Seq(W) /\ (t = << >> <=> s = << >>)
<1> DEFINE n == Len(s)
<1>1. n \in Nat /\ DOMAIN s = 1..n
  OBVIOUS
<1> HIDE DEF n
<1>2. t \in Seq(W)
  BY <1>1
<1>3. t = << >> <=> n = 0
  BY <1>1, <1>2
<1>4. s = << >> <=> n = 0
  BY DEF n
<1> QED BY <1>2, <1>3, <1>4

LEMMA MetricsDrawn ==
    ASSUME NEW rows \in Seq(Rows)
    PROVE  DrawnFrom(MetricsOf(rows), Range(rows))
<1> DEFINE t == MetricsOf(rows)
<1>1. DOMAIN t = DOMAIN rows /\ t = [i \in DOMAIN rows |-> t[i]]
  BY DEF MetricsOf
<1>2. \A i \in DOMAIN rows : /\ t[i] \in Metrics
                             /\ t[i].covered = rows[i].covered /\ t[i].name = rows[i].name
  <2> SUFFICES ASSUME NEW i \in DOMAIN rows
               PROVE  /\ t[i] \in Metrics
                      /\ t[i].covered = rows[i].covered /\ t[i].name = rows[i].name
    OBVIOUS
  <2>1. rows[i] \in Rows
    OBVIOUS
  <2>2. t[i] = [name |-> rows[i].name, scope |-> rows[i].scope, covered |-> rows[i].covered]
    BY DEF MetricsOf, Metric
  <2> QED BY <2>1, <2>2 DEF Rows, Metrics
<1> HIDE DEF t
<1>3. t \in Seq(Metrics) /\ (t = << >> <=> rows = << >>)
  BY <1>1, <1>2, MappedSeq
<1>4. \A m \in Range(t) : \E row \in Range(rows) : m.covered = row.covered /\ m.name = row.name
  BY <1>1, <1>2 DEF Range
<1>5. rows = << >> <=> Range(rows) = {}
  BY EmptySeqIs
<1> QED BY <1>3, <1>4, <1>5 DEF DrawnFrom, t

LEMMA CuedRows ==
    ASSUME NEW report, report.rows \in Seq(Rows), NEW cues
    PROVE  /\ ByCue(report, cues) \in Seq(Rows)
           /\ Range(ByCue(report, cues)) = {row \in Range(report.rows) : row.cue \in cues}
<1> DEFINE S == {row \in Range(report.rows) : row.cue \in cues}
<1>1. ByCue(report, cues) = Among(report.rows, S)
  BY DEF ByCue
<1>2. Range(report.rows) \cap S = S
  OBVIOUS
<1> HIDE DEF S
<1>3. Among(report.rows, S) \in Seq(Rows) /\ Range(Among(report.rows, S)) = S
  BY <1>2, AmongIs
<1> QED BY <1>1, <1>3 DEF S

\* Another scope draws from the same rows.
LEMMA RescopedDrawn ==
    ASSUME NEW rows \in Seq(Rows), NEW t, DOMAIN t = DOMAIN rows,
           t = [i \in DOMAIN rows |-> t[i]],
           \A i \in DOMAIN rows : \E scope \in Range(Scopes) :
               t[i] = [rows[i] EXCEPT !.scope = scope]
    PROVE  t \in Seq(Rows) /\ DrawnFrom(MetricsOf(t), Range(rows))
<1>1. \A i \in DOMAIN rows : /\ t[i] \in Rows
                             /\ t[i].covered = rows[i].covered /\ t[i].name = rows[i].name
  <2> SUFFICES ASSUME NEW i \in DOMAIN rows
               PROVE  /\ t[i] \in Rows
                      /\ t[i].covered = rows[i].covered /\ t[i].name = rows[i].name
    OBVIOUS
  <2>1. rows[i] \in Rows
    OBVIOUS
  <2>2. PICK scope \in Range(Scopes) : t[i] = [rows[i] EXCEPT !.scope = scope]
    OBVIOUS
  <2> QED BY <2>1, <2>2 DEF Rows
<1>2. t \in Seq(Rows) /\ (t = << >> <=> rows = << >>)
  BY <1>1, MappedSeq
<1>3. \A row \in Range(t) : \E r \in Range(rows) : row.covered = r.covered /\ row.name = r.name
  BY <1>1 DEF Range
<1>4. Range(t) = {} <=> Range(rows) = {}
  BY <1>2, EmptySeqIs
<1>5. DrawnFrom(MetricsOf(t), Range(t))
  BY <1>2, MetricsDrawn
<1>6. \A m \in Range(MetricsOf(t)) : \E r \in Range(rows) : m.covered = r.covered /\ m.name = r.name
  <2> TAKE m \in Range(MetricsOf(t))
  <2>1. PICK row \in Range(t) : m.covered = row.covered /\ m.name = row.name
    BY <1>5 DEF DrawnFrom
  <2> QED BY <1>3, <2>1
<1> QED BY <1>2, <1>4, <1>5, <1>6 DEF DrawnFrom

LEMMA AtTopDrawn ==
    ASSUME NEW rows \in Seq(Rows)
    PROVE  AtTop(rows) \in Seq(Rows) /\ DrawnFrom(MetricsOf(AtTop(rows)), Range(rows))
<1> DEFINE t == AtTop(rows)
<1>1. DOMAIN t = DOMAIN rows /\ t = [i \in DOMAIN rows |-> t[i]]
  BY DEF AtTop
<1>2. \A i \in DOMAIN rows : t[i] = [rows[i] EXCEPT !.scope = "top"]
  BY DEF AtTop
<1>3. "top" \in Range(Scopes)
  BY NamesAssumption
<1> HIDE DEF t
<1>4. \A i \in DOMAIN rows : \E scope \in Range(Scopes) : t[i] = [rows[i] EXCEPT !.scope = scope]
  BY <1>2, <1>3
<1> QED BY <1>1, <1>4, RescopedDrawn DEF t

LEMMA PlanDrawn ==
    ASSUME NEW rows \in Seq(Rows)
    PROVE  PlanScope(rows) \in Seq(Rows) /\ DrawnFrom(MetricsOf(PlanScope(rows)), Range(rows))
<1> DEFINE t == PlanScope(rows)
<1>1. DOMAIN t = DOMAIN rows /\ t = [i \in DOMAIN rows |-> t[i]]
  BY DEF PlanScope
<1>2. \A i \in DOMAIN rows : \/ t[i] = [rows[i] EXCEPT !.scope = "top"]
                            \/ t[i] = [rows[i] EXCEPT !.scope = "verification_plan"]
  BY DEF PlanScope
<1>3. "top" \in Range(Scopes) /\ "verification_plan" \in Range(Scopes)
  BY NamesAssumption
<1> HIDE DEF t
<1>4. \A i \in DOMAIN rows : \E scope \in Range(Scopes) : t[i] = [rows[i] EXCEPT !.scope = scope]
  BY <1>2, <1>3
<1> QED BY <1>1, <1>4, RescopedDrawn DEF t

\* The rows found before the entry that stops a Questa report.
LEMMA RowsBeforeBroken ==
    ASSUME NEW rows \in Seq(Rows), NEW S,
           \A row \in Range(rows) : row.cue = "broken" => row \in S
    PROVE  /\ BeforeBroken(rows) \in Seq(Rows)
           /\ BeforeBroken(Among(rows, S)) \in Seq(Rows)
           /\ Range(BeforeBroken(Among(rows, S))) = Range(BeforeBroken(rows)) \cap S
<1> DEFINE P == {i \in DOMAIN rows : rows[i] \in S}
           n == Len(rows)
           some == Among(rows, S)
           m == Cardinality(P)
           Clear(s) == {i \in DOMAIN s : \A j \in {k \in DOMAIN s : s[k].cue = "broken"} : i < j}
<1>1. n \in Nat /\ DOMAIN rows = 1..n /\ P \subseteq 1..n
  OBVIOUS
<1>2. some = SelectInOrder(rows, P)
  BY DEF Among
<1>3. \A s : BeforeBroken(s) = SelectInOrder(s, Clear(s))
  BY DEF BeforeBroken
<1>4. some \in Seq(Rows)
  BY AmongIs
<1>5. \A s \in Seq(Rows) : /\ BeforeBroken(s) \in Seq(Rows)
                           /\ Range(BeforeBroken(s)) = {s[i] : i \in Clear(s)}
  <2> TAKE s \in Seq(Rows)
  <2>1. Clear(s) \subseteq DOMAIN s
    OBVIOUS
  <2> HIDE DEF Clear
  <2> QED BY <1>3, <2>1, SelectedSeq
<1> HIDE DEF P, some, n
<1>6. PICK at \in [1..m -> P] : /\ SelectInOrder(rows, P) = [k \in 1..m |-> rows[at[k]]]
                                /\ \A i \in P : \E k \in 1..m : at[k] = i
                                /\ \A k, l \in 1..m : k < l => at[k] < at[l]
  BY <1>1, Selected
<1>7. m \in Nat
  BY <1>1, Selected
<1> HIDE DEF m
<1>8. DOMAIN some = 1..m /\ \A k \in 1..m : some[k] = rows[at[k]] /\ at[k] \in P /\ at[k] \in 1..n
  BY <1>1, <1>2, <1>6
<1>9. \A j \in 1..n : rows[j].cue = "broken" => j \in P
  BY <1>1 DEF P, Range
<1>10. \A k \in 1..m : k \in Clear(some) <=> at[k] \in Clear(rows)
  <2> SUFFICES ASSUME NEW k \in 1..m PROVE k \in Clear(some) <=> at[k] \in Clear(rows)
    OBVIOUS
  <2>1. ASSUME k \in Clear(some), NEW j \in 1..n, rows[j].cue = "broken" PROVE at[k] < j
    <3>1. PICK l \in 1..m : at[l] = j
      BY <1>6, <1>9, <2>1
    <3>2. k < l
      BY <1>8, <2>1, <3>1
    <3> QED BY <1>6, <3>1, <3>2
  <2>2. ASSUME at[k] \in Clear(rows), NEW l \in 1..m, some[l].cue = "broken" PROVE k < l
    <3>1. at[k] < at[l]
      BY <1>1, <1>8, <2>2
    <3>2. l < k => at[l] < at[k]
      BY <1>6
    <3>3. at[k] \in Int /\ at[l] \in Int
      BY <1>8
    <3> QED BY <3>1, <3>2, <3>3
  <2> QED BY <1>1, <1>8, <2>1, <2>2
<1>11. {some[k] : k \in Clear(some)} = {rows[i] : i \in Clear(rows)} \cap S
  <2>1. \A k \in Clear(some) : some[k] \in {rows[i] : i \in Clear(rows)} /\ some[k] \in S
    BY <1>1, <1>8, <1>10 DEF P
  <2>2. \A i \in Clear(rows) : rows[i] \in S => \E k \in Clear(some) : some[k] = rows[i]
    <3> TAKE i \in Clear(rows)
    <3> HAVE rows[i] \in S
    <3>1. i \in P
      BY <1>1 DEF P
    <3>2. PICK k \in 1..m : at[k] = i
      BY <1>6, <3>1
    <3> QED BY <1>8, <1>10, <3>2
  <2> HIDE DEF Clear
  <2> QED BY <2>1, <2>2
<1> HIDE DEF Clear
<1> QED BY <1>4, <1>5, <1>11 DEF some

\* What is assumed of a report that is read.
GoodReport(report) ==
    /\ report.format \in Formats /\ report.run \in Int /\ report.rows \in Seq(Rows)
    /\ \A row \in Range(report.rows) :
          /\ row.covered >= 0 \/ (report.format = "questa" /\ row.covered = -1)
          /\ row.cue = "plan" => report.format \in {"urg", "questa"}

LooseRows(report) == {row \in Range(report.rows) : row.cue = "loose"}

\* What MetricsAreRead says of the metrics of one report.
ReadFrom(metrics, report) ==
    IF LaidOut(report) # {}
    THEN \A m \in Range(metrics) : \E row \in LaidOut(report) :
            m.covered = row.covered /\ m.name \in {row.name, XceliumKind(row.name)}
    ELSE \/ \A m \in Range(metrics) : \E row \in LooseRows(report) :
               m.covered = row.covered /\ m.name = row.name
         \/ Len(metrics) = 1 /\ metrics[1].covered = 0

ParsedWell(metrics, report) ==
    /\ metrics \in Seq(Metrics) /\ Len(metrics) <= MaxMetrics
    /\ \A m \in Range(metrics) : m.covered >= 0
    /\ ReadFrom(metrics, report)

LEMMA PlaceholderIs ==
    ASSUME NEW name \in {"line", "code", "functional"}
    PROVE  LET metrics == Placeholder(name) IN
           /\ metrics \in Seq(Metrics) /\ Len(metrics) = 1 /\ metrics[1].covered = 0
           /\ \A m \in Range(metrics) : m.covered = 0
<1> DEFINE m == [name |-> name, scope |-> "top", covered |-> 0]
<1>1. m \in Metrics
  BY NamesAssumption DEF Metrics
<1>2. m.covered = 0
  OBVIOUS
<1>3. Placeholder(name) = << m >>
  BY DEF Placeholder
<1> HIDE DEF m
<1> QED BY <1>1, <1>2, <1>3 DEF Range

\* Metrics drawn from what is laid out, or else from loose rows, or else the placeholder.
LEMMA ParsedWellIf ==
    ASSUME NEW report, GoodReport(report),
           NEW metrics, NEW rows, rows \in {LaidOut(report), LooseRows(report)},
           LaidOut(report) # {} \/ report.format = "questa" => rows = LaidOut(report),
           DrawnFrom(metrics, rows), Len(metrics) <= MaxMetrics,
           NEW name \in {"line", "code", "functional"}
    PROVE  ParsedWell(OrElse(metrics, Placeholder(name)), report)
<1>1. CASE rows # {}
  <2>1. metrics # << >> /\ metrics \in Seq(Metrics)
    BY <1>1 DEF DrawnFrom
  <2>2. OrElse(metrics, Placeholder(name)) = metrics
    BY <2>1 DEF OrElse
  <2>3. report.format # "questa" => \A row \in Range(report.rows) : row.covered >= 0
    BY DEF GoodReport
  <2>4. \A row \in LaidOut(report) : row.covered >= 0
    BY DEF LaidOut
  <2>5. ReadFrom(metrics, report)
    BY <1>1 DEF ReadFrom, DrawnFrom
  <2>6. \A row \in rows : row.covered >= 0
    <3>1. CASE rows = LaidOut(report)
      BY <2>4, <3>1
    <3>2. CASE rows = LooseRows(report) /\ report.format # "questa"
      BY <2>3, <3>2 DEF LooseRows
    <3> QED BY <3>1, <3>2
  <2>7. \A m \in Range(metrics) : m.covered >= 0
    BY <2>6 DEF DrawnFrom
  <2> QED BY <2>1, <2>2, <2>5, <2>7 DEF ParsedWell
<1>2. CASE rows = {}
  <2>1. OrElse(metrics, Placeholder(name)) = Placeholder(name)
    BY <1>2 DEF DrawnFrom, OrElse
  <2>2. LaidOut(report) = {}
    BY <1>2
  <2>3. 1 <= MaxMetrics
    BY MaxMetricsAssumption
  <2> DEFINE nothing == Placeholder(name)
  <2>4. /\ nothing \in Seq(Metrics) /\ Len(nothing) = 1 /\ nothing[1].covered = 0
        /\ \A m \in Range(nothing) : m.covered = 0
    BY PlaceholderIs
  <2> HIDE DEF nothing
  <2>5. ReadFrom(nothing, report)
    BY <2>2, <2>4 DEF ReadFrom
  <2>6. ParsedWell(nothing, report)
    BY <2>3, <2>4, <2>5 DEF ParsedWell
  <2> QED BY <1>2, <2>1, <2>6 DEF nothing
<1> QED BY <1>1, <1>2

Cued(report, cues) == {row \in Range(report.rows) : row.cue \in cues}

LEMMA LaidOutIs ==
    ASSUME NEW report, GoodReport(report)
    PROVE  /\ report.format = "urg" => LaidOut(report) = Cued(report, {"row", "plan"})
           /\ report.format \in {"json", "text", "xcelium"} => LaidOut(report) = Cued(report, {"row"})
           /\ report.format = "xml"
                 => LaidOut(report) = {row \in Cued(report, {"row"}) : row.name = "line"}
           /\ report.format = "questa"
                 => LaidOut(report) = {row \in Range(BeforeBroken(report.rows)) :
                                          row.cue \in {"row", "plan"} /\ row.covered >= 0}
           /\ LooseRows(report) = Cued(report, {"loose"})
<1>1. report.format # "questa"
        => LaidOut(report) = {row \in Range(report.rows) :
                                 /\ row.cue \in {"row", "plan"} /\ row.covered >= 0
                                 /\ report.format = "xml" => row.name = "line"}
  BY DEF LaidOut
<1>2. report.format # "questa" => \A row \in Range(report.rows) : row.covered >= 0
  BY DEF GoodReport
<1>3. report.format \notin {"urg", "questa"} => \A row \in Range(report.rows) : row.cue # "plan"
  BY DEF GoodReport
<1>4. CASE report.format = "urg"
  BY <1>1, <1>2, <1>4 DEF Cued, LooseRows
<1>5. CASE report.format \in {"json", "text", "xcelium"}
  BY <1>1, <1>2, <1>3, <1>5 DEF Cued, LooseRows
<1>6. CASE report.format = "xml"
  BY <1>1, <1>2, <1>3, <1>6 DEF Cued, LooseRows
<1>7. CASE report.format = "questa"
  BY <1>7 DEF LaidOut, LooseRows, Cued
<1> QED BY <1>4, <1>5, <1>6, <1>7 DEF GoodReport, Formats

LEMMA RangeJoined ==
    ASSUME NEW V, NEW s \in Seq(V), NEW t \in Seq(V)
    PROVE  (s \o t) \in Seq(V) /\ Range(s \o t) = Range(s) \cup Range(t)
<1> DEFINE u == s \o t
<1>1. /\ u \in Seq(V) /\ DOMAIN u = 1..(Len(s) + Len(t))
      /\ DOMAIN s = 1..Len(s) /\ DOMAIN t = 1..Len(t) /\ Len(s) \in Nat /\ Len(t) \in Nat
      /\ \A i \in DOMAIN u : u[i] = IF i <= Len(s) THEN s[i] ELSE t[i - Len(s)]
  OBVIOUS
<1> HIDE DEF u
<1>2. \A i \in DOMAIN u : u[i] \in Range(s) \/ u[i] \in Range(t)
  <2> TAKE i \in DOMAIN u
  <2>1. CASE i <= Len(s)
    BY <1>1, <2>1 DEF Range
  <2>2. CASE ~(i <= Len(s))
    <3>1. i - Len(s) \in DOMAIN t
      BY <1>1, <2>2
    <3> QED BY <1>1, <2>2, <3>1 DEF Range
  <2> QED BY <2>1, <2>2
<1>3. \A i \in DOMAIN s : s[i] = u[i] /\ i \in DOMAIN u
  BY <1>1
<1>4. \A i \in DOMAIN t : t[i] = u[i + Len(s)] /\ i + Len(s) \in DOMAIN u
  <2> TAKE i \in DOMAIN t
  <2>1. i + Len(s) \in DOMAIN u /\ ~(i + Len(s) <= Len(s)) /\ (i + Len(s)) - Len(s) = i
    BY <1>1
  <2> QED BY <1>1, <2>1
<1>5. Range(u) = Range(s) \cup Range(t)
  <2>1. \A x \in Range(u) : x \in Range(s) \/ x \in Range(t)
    BY <1>2 DEF Range
  <2>2. \A x \in Range(s) : x \in Range(u)
    BY <1>3 DEF Range
  <2>3. \A x \in Range(t) : x \in Range(u)
    BY <1>4 DEF Range
  <2> QED BY <2>1, <2>2, <2>3
<1> QED BY <1>1, <1>5 DEF u

LEMMA JsonRead ==
    ASSUME NEW report, GoodReport(report), report.format = "json"
    PROVE  ParsedWell(ParseJson(report), report)
<1> DEFINE rows == ByCue(report, {"row"})
           metrics == ParseJson(report)
<1>1. rows \in Seq(Rows) /\ Range(rows) = Cued(report, {"row"})
  BY CuedRows DEF GoodReport, Cued
<1>2. LaidOut(report) = Cued(report, {"row"})
  BY LaidOutIs
<1> HIDE DEF rows
<1>3. DrawnFrom(MetricsOf(rows), LaidOut(report))
  BY <1>1, <1>2, MetricsDrawn
<1>4. metrics = BoundMetrics(MetricsOf(rows))
  BY DEF ParseJson, rows
<1> HIDE DEF metrics
<1>5. DrawnFrom(metrics, LaidOut(report)) /\ Len(metrics) <= MaxMetrics
  BY <1>3, <1>4, BoundDrawn
<1>6. CASE LaidOut(report) # {}
  <2>1. ParsedWell(OrElse(metrics, Placeholder("line")), report)
    BY <1>5, ParsedWellIf
  <2>2. OrElse(metrics, Placeholder("line")) = metrics
    BY <1>5, <1>6 DEF DrawnFrom, OrElse
  <2> QED BY <2>1, <2>2 DEF metrics
<1>7. CASE LaidOut(report) = {}
  <2>1. metrics \in Seq(Metrics) /\ Range(metrics) = {}
    BY <1>5, <1>7, EmptySeqIs DEF DrawnFrom
  <2>2. ReadFrom(metrics, report)
    BY <1>7, <2>1 DEF ReadFrom
  <2>3. ParsedWell(metrics, report)
    BY <1>5, <2>1, <2>2 DEF ParsedWell
  <2> QED BY <2>3 DEF metrics
<1> QED BY <1>6, <1>7

LEMMA XmlRead ==
    ASSUME NEW report, GoodReport(report), report.format = "xml"
    PROVE  ParsedWell(ParseXml(report), report)
<1> DEFINE cued == ByCue(report, {"row"})
           lines == {row \in Range(report.rows) : row.name = "line"}
           rows == Among(cued, lines)
           metrics == BoundMetrics(MetricsOf(rows))
<1>1. cued \in Seq(Rows) /\ Range(cued) = Cued(report, {"row"})
  BY CuedRows DEF GoodReport, Cued
<1>2. LaidOut(report) = {row \in Cued(report, {"row"}) : row.name = "line"}
  BY LaidOutIs
<1> HIDE DEF cued
<1>3. LaidOut(report) = Range(cued) \cap lines
  BY <1>1, <1>2 DEF Cued
<1> HIDE DEF lines
<1>4. rows \in Seq(Rows) /\ Range(rows) = LaidOut(report)
  BY <1>1, <1>3, AmongIs
<1>5. ParseXml(report) = OrElse(metrics, Placeholder("line"))
  BY DEF ParseXml, lines, cued
<1> HIDE DEF rows
<1>6. DrawnFrom(MetricsOf(rows), LaidOut(report))
  BY <1>4, MetricsDrawn
<1>7. DrawnFrom(metrics, LaidOut(report)) /\ Len(metrics) <= MaxMetrics
  BY <1>6, BoundDrawn
<1> HIDE DEF metrics
<1> QED BY <1>5, <1>7, ParsedWellIf

LEMMA TextRead ==
    ASSUME NEW report, GoodReport(report), report.format = "text"
    PROVE  ParsedWell(ParseText(report), report)
<1> DEFINE cued == ByCue(report, {"row"})
           away == ByCue(report, {"loose"})
           loose == IF report.says_line THEN MetricsOf(AtTop(away)) ELSE << >>
           T == IF report.says_line THEN LooseRows(report) ELSE {}
           metrics == BoundMetrics(OrElse(MetricsOf(cued), loose))
<1>1. cued \in Seq(Rows) /\ Range(cued) = Cued(report, {"row"})
  BY CuedRows DEF GoodReport, Cued
<1>2. away \in Seq(Rows) /\ Range(away) = Cued(report, {"loose"})
  BY CuedRows DEF GoodReport, Cued
<1>3. LaidOut(report) = Cued(report, {"row"}) /\ LooseRows(report) = Cued(report, {"loose"})
  BY LaidOutIs
<1>4. ParseText(report) = OrElse(metrics, Placeholder("line"))
  BY DEF ParseText
<1> HIDE DEF cued, away
<1>5. DrawnFrom(MetricsOf(cued), LaidOut(report))
  BY <1>1, <1>3, MetricsDrawn
<1>6. DrawnFrom(MetricsOf(AtTop(away)), LooseRows(report))
  BY <1>2, <1>3, AtTopDrawn
<1>7. DrawnFrom(<< >>, {})
  BY DEF DrawnFrom, Range
<1>8. DrawnFrom(loose, T)
  BY <1>6, <1>7
<1> DEFINE found == OrElse(MetricsOf(cued), loose)
<1> HIDE DEF loose
<1>9. /\ LaidOut(report) # {} => DrawnFrom(found, LaidOut(report))
      /\ LaidOut(report) = {} => DrawnFrom(found, T)
  BY <1>5, <1>8, OrElseDrawn
<1> HIDE DEF found
<1>10. CASE LaidOut(report) # {}
  <2>1. DrawnFrom(metrics, LaidOut(report)) /\ Len(metrics) <= MaxMetrics
    BY <1>9, <1>10, BoundDrawn DEF found
  <2> HIDE DEF metrics
  <2> QED BY <1>4, <2>1, ParsedWellIf
<1>11. CASE LaidOut(report) = {}
  <2>1. DrawnFrom(metrics, T) /\ Len(metrics) <= MaxMetrics
    BY <1>9, <1>11, BoundDrawn DEF found
  <2>2. T \in {LaidOut(report), LooseRows(report)}
    BY <1>11
  <2> HIDE DEF metrics, T
  <2> QED BY <1>4, <1>11, <2>1, <2>2, ParsedWellIf
<1> QED BY <1>10, <1>11

LEMMA UrgRead ==
    ASSUME NEW report, GoodReport(report), report.format = "urg"
    PROVE  ParsedWell(ParseUrgHtml(report), report)
<1> DEFINE rows == ByCue(report, {"row"})
           plan == ByCue(report, {"plan"})
           both == rows \o plan
           away == ByCue(report, {"loose"})
           found == OrElse(MetricsOf(PlanScope(both)), MetricsOf(AtTop(away)))
           metrics == BoundMetrics(found)
<1>1. rows \in Seq(Rows) /\ Range(rows) = Cued(report, {"row"})
  BY CuedRows DEF GoodReport, Cued
<1>2. plan \in Seq(Rows) /\ Range(plan) = Cued(report, {"plan"})
  BY CuedRows DEF GoodReport, Cued
<1>3. away \in Seq(Rows) /\ Range(away) = Cued(report, {"loose"})
  BY CuedRows DEF GoodReport, Cued
<1>4. LaidOut(report) = Cued(report, {"row", "plan"}) /\ LooseRows(report) = Cued(report, {"loose"})
  BY LaidOutIs
<1>5. ParseUrgHtml(report) = OrElse(metrics, Placeholder("code"))
  BY DEF ParseUrgHtml
<1> HIDE DEF rows, plan, away
<1>6. both \in Seq(Rows) /\ Range(both) = Range(rows) \cup Range(plan)
  BY <1>1, <1>2, RangeJoined
<1>7. Range(both) = LaidOut(report)
  BY <1>1, <1>2, <1>4, <1>6 DEF Cued
<1> HIDE DEF both
<1>8. DrawnFrom(MetricsOf(PlanScope(both)), LaidOut(report))
  BY <1>6, <1>7, PlanDrawn
<1>9. DrawnFrom(MetricsOf(AtTop(away)), LooseRows(report))
  BY <1>3, <1>4, AtTopDrawn
<1>10. /\ LaidOut(report) # {} => DrawnFrom(found, LaidOut(report))
       /\ LaidOut(report) = {} => DrawnFrom(found, LooseRows(report))
  BY <1>8, <1>9, OrElseDrawn
<1> HIDE DEF found
<1> DEFINE S == IF LaidOut(report) # {} THEN LaidOut(report) ELSE LooseRows(report)
<1>11. DrawnFrom(metrics, S) /\ Len(metrics) <= MaxMetrics
  BY <1>10, BoundDrawn
<1> HIDE DEF metrics
<1> QED BY <1>5, <1>11, ParsedWellIf

LEMMA QuestaRead ==
    ASSUME NEW report, GoodReport(report), report.format = "questa"
    PROVE  ParsedWell(ParseQuestaOverall(report), report)
<1> DEFINE S == {row \in Range(report.rows) : row.cue \in {"row", "broken", "plan"}}
           rows == BeforeBroken(Among(report.rows, S))
           applicable == Among(rows, {row \in Range(rows) : row.covered >= 0})
           metrics == BoundMetrics(MetricsOf(AtTop(applicable)))
<1>1. report.rows \in Seq(Rows)
  BY DEF GoodReport
<1>2. \A row \in Range(report.rows) : row.cue = "broken" => row \in S
  OBVIOUS
<1>3. ParseQuestaOverall(report) = OrElse(metrics, Placeholder("functional"))
  BY DEF ParseQuestaOverall, ByCue
<1> HIDE DEF S
<1>4. rows \in Seq(Rows) /\ Range(rows) = Range(BeforeBroken(report.rows)) \cap S
      /\ BeforeBroken(report.rows) \in Seq(Rows)
  BY <1>1, <1>2, RowsBeforeBroken
<1>5. Range(BeforeBroken(report.rows)) \subseteq Range(report.rows)
  <2> DEFINE P == {i \in DOMAIN report.rows :
                     \A j \in {k \in DOMAIN report.rows : report.rows[k].cue = "broken"} : i < j}
  <2>1. BeforeBroken(report.rows) = SelectInOrder(report.rows, P) /\ P \subseteq DOMAIN report.rows
    BY DEF BeforeBroken
  <2> HIDE DEF P
  <2>2. Range(BeforeBroken(report.rows)) = {report.rows[i] : i \in P}
    BY <1>1, <2>1, SelectedSeq
  <2> QED BY <2>1, <2>2 DEF Range
<1>6. \A row \in Range(BeforeBroken(report.rows)) : row.cue # "broken"
  <2> DEFINE P == {i \in DOMAIN report.rows :
                     \A j \in {k \in DOMAIN report.rows : report.rows[k].cue = "broken"} : i < j}
  <2>1. BeforeBroken(report.rows) = SelectInOrder(report.rows, P) /\ P \subseteq DOMAIN report.rows
    BY DEF BeforeBroken
  <2>2. \A i \in P : report.rows[i].cue # "broken"
    BY <1>1
  <2> HIDE DEF P
  <2>3. Range(BeforeBroken(report.rows)) = {report.rows[i] : i \in P}
    BY <1>1, <2>1, SelectedSeq
  <2> QED BY <2>2, <2>3
<1>7. LaidOut(report) = {row \in Range(BeforeBroken(report.rows)) :
                            row.cue \in {"row", "plan"} /\ row.covered >= 0}
  BY LaidOutIs
<1>8. LaidOut(report) = {row \in Range(rows) : row.covered >= 0}
  BY <1>4, <1>5, <1>6, <1>7 DEF S
<1> HIDE DEF rows
<1>9. applicable \in Seq(Rows) /\ Range(applicable) = LaidOut(report)
  <2> DEFINE A == {row \in Range(rows) : row.covered >= 0}
  <2>1. Range(rows) \cap A = A /\ A = LaidOut(report)
    BY <1>8
  <2> HIDE DEF A
  <2>2. Among(rows, A) \in Seq(Rows) /\ Range(Among(rows, A)) = A
    BY <1>4, <2>1, AmongIs
  <2> QED BY <2>1, <2>2 DEF A
<1> HIDE DEF applicable
<1>10. DrawnFrom(MetricsOf(AtTop(applicable)), LaidOut(report))
  BY <1>9, AtTopDrawn
<1>11. DrawnFrom(metrics, LaidOut(report)) /\ Len(metrics) <= MaxMetrics
  BY <1>10, BoundDrawn
<1> HIDE DEF metrics
<1> QED BY <1>3, <1>11, ParsedWellIf

LEMMA XceliumRead ==
    ASSUME NEW report, GoodReport(report), report.format = "xcelium"
    PROVE  ParsedWell(ParseXceliumHtml(report), report)
<1> DEFINE cued == ByCue(report, {"row"})
           renamed == Renamed(cued)
           top == AtTop(renamed)
           first == FirstOfKind(top)
           away == ByCue(report, {"loose"})
           found == OrElse(MetricsOf(first), MetricsOf(AtTop(away)))
           metrics == BoundMetrics(found)
<1>1. cued \in Seq(Rows) /\ Range(cued) = Cued(report, {"row"})
  BY CuedRows DEF GoodReport, Cued
<1>2. away \in Seq(Rows) /\ Range(away) = Cued(report, {"loose"})
  BY CuedRows DEF GoodReport, Cued
<1>3. LaidOut(report) = Cued(report, {"row"}) /\ LooseRows(report) = Cued(report, {"loose"})
  BY LaidOutIs
<1>4. ParseXceliumHtml(report) = OrElse(metrics, Placeholder("line"))
  BY DEF ParseXceliumHtml
<1> HIDE DEF cued, away
<1>5. /\ renamed \in Seq(Rows) /\ (renamed = << >> <=> cued = << >>)
      /\ DOMAIN renamed = DOMAIN cued
      /\ \A i \in DOMAIN cued : /\ renamed[i].covered = cued[i].covered
                                 /\ renamed[i].name = XceliumKind(cued[i].name)
  <2>1. DOMAIN renamed = DOMAIN cued /\ renamed = [i \in DOMAIN cued |-> renamed[i]]
    BY DEF Renamed
  <2>2. \A i \in DOMAIN cued : /\ renamed[i] \in Rows
                               /\ renamed[i].covered = cued[i].covered
                               /\ renamed[i].name = XceliumKind(cued[i].name)
    <3> SUFFICES ASSUME NEW i \in DOMAIN cued
                 PROVE  /\ renamed[i] \in Rows
                        /\ renamed[i].covered = cued[i].covered
                        /\ renamed[i].name = XceliumKind(cued[i].name)
      OBVIOUS
    <3>1. cued[i] \in Rows
      BY <1>1
    <3>2. renamed[i] = [cued[i] EXCEPT !.name = XceliumKind(cued[i].name)]
      BY DEF Renamed
    <3>3. XceliumKind(cued[i].name) \in Range(KindNames)
      BY <3>1, NamesAssumption DEF XceliumKind, Rows
    <3> QED BY <3>1, <3>2, <3>3 DEF Rows
  <2> HIDE DEF renamed
  <2> QED BY <1>1, <2>1, <2>2, MappedSeq
<1>6. \A row \in Range(renamed) : \E r \in LaidOut(report) :
          row.covered = r.covered /\ row.name = XceliumKind(r.name)
  BY <1>1, <1>3, <1>5 DEF Range
<1>7. Range(renamed) = {} <=> LaidOut(report) = {}
  BY <1>1, <1>3, <1>5, EmptySeqIs
<1> HIDE DEF renamed
<1>8. top \in Seq(Rows) /\ DrawnFrom(MetricsOf(top), Range(renamed))
  BY <1>5, AtTopDrawn
<1>9. \A row \in Range(top) : \E r \in Range(renamed) : row.covered = r.covered /\ row.name = r.name
  <2>1. \A i \in DOMAIN top : /\ i \in DOMAIN renamed
                              /\ top[i] = [renamed[i] EXCEPT !.scope = "top"]
                              /\ renamed[i] \in Rows
    BY <1>5 DEF AtTop
  <2>2. \A i \in DOMAIN top : top[i].covered = renamed[i].covered /\ top[i].name = renamed[i].name
    BY <2>1 DEF Rows
  <2> HIDE DEF top
  <2> QED BY <2>1, <2>2 DEF Range
<1>10. DOMAIN top = DOMAIN renamed
  BY DEF AtTop
<1> HIDE DEF top
<1> DEFINE P == {i \in DOMAIN top : \A j \in DOMAIN top : top[j].name = top[i].name => i <= j}
<1>11. first = SelectInOrder(top, P) /\ P \subseteq DOMAIN top
  BY DEF FirstOfKind
<1>12. P = {} <=> Range(renamed) = {}
  <2>1. Range(renamed) = {} <=> Len(renamed) = 0
    BY <1>5, EmptySeqIs
  <2>2. DOMAIN top = 1..Len(renamed) /\ Len(renamed) \in Nat
    BY <1>5, <1>10
  <2>3. Len(renamed) # 0 => 1 \in P
    BY <2>2
  <2>4. Len(renamed) = 0 => P = {}
    BY <2>2
  <2> QED BY <2>1, <2>3, <2>4
<1> HIDE DEF P, first
<1>13. /\ first \in Seq(Rows) /\ Range(first) = {top[i] : i \in P}
       /\ first = << >> <=> P = {}
  BY <1>8, <1>11, SelectedSeq
<1>14. Range(first) \subseteq Range(top)
  BY <1>11, <1>13 DEF Range
<1>15. DrawnFrom(MetricsOf(first), Range(first))
  BY <1>13, MetricsDrawn
<1>16. DrawnFrom(MetricsOf(AtTop(away)), LooseRows(report))
  BY <1>2, <1>3, AtTopDrawn
<1>17. Range(first) = {} <=> LaidOut(report) = {}
  BY <1>7, <1>12, <1>13, EmptySeqIs
<1>18. /\ Range(first) # {} => DrawnFrom(found, Range(first))
       /\ Range(first) = {} => DrawnFrom(found, LooseRows(report))
  BY <1>15, <1>16, OrElseDrawn
<1> HIDE DEF found
<1>19. CASE LaidOut(report) = {}
  <2>1. DrawnFrom(metrics, LooseRows(report)) /\ Len(metrics) <= MaxMetrics
    BY <1>17, <1>18, <1>19, BoundDrawn
  <2> HIDE DEF metrics
  <2> QED BY <1>4, <1>19, <2>1, ParsedWellIf
<1>20. CASE LaidOut(report) # {}
  <2>1. DrawnFrom(metrics, Range(first)) /\ Len(metrics) <= MaxMetrics
    BY <1>17, <1>18, <1>20, BoundDrawn
  <2> HIDE DEF metrics
  <2>2. OrElse(metrics, Placeholder("line")) = metrics /\ metrics \in Seq(Metrics)
    BY <1>17, <1>20, <2>1 DEF DrawnFrom, OrElse
  <2>3. \A m \in Range(metrics) : \E r \in LaidOut(report) :
            m.covered = r.covered /\ m.name = XceliumKind(r.name)
    <3> TAKE m \in Range(metrics)
    <3>1. PICK a \in Range(first) : m.covered = a.covered /\ m.name = a.name
      BY <2>1 DEF DrawnFrom
    <3>2. PICK b \in Range(renamed) : a.covered = b.covered /\ a.name = b.name
      BY <1>9, <1>14
    <3> QED BY <1>6, <3>1, <3>2
  <2>4. \A row \in LaidOut(report) : row.covered >= 0
    BY DEF LaidOut
  <2>5. ReadFrom(metrics, report)
    BY <1>20, <2>3 DEF ReadFrom
  <2>6. \A m \in Range(metrics) : m.covered >= 0
    BY <2>3, <2>4
  <2> QED BY <1>4, <2>1, <2>2, <2>5, <2>6 DEF ParsedWell
<1> QED BY <1>19, <1>20

LEMMA ReportRead ==
    ASSUME NEW report, GoodReport(report)
    PROVE  ParsedWell(ParseMetrics(report), report)
<1>1. report.format \in Formats
  BY DEF GoodReport
<1>2. CASE report.format = "json"
  BY <1>2, JsonRead DEF ParseMetrics
<1>3. CASE report.format = "xml"
  BY <1>3, XmlRead DEF ParseMetrics
<1>4. CASE report.format = "text"
  BY <1>4, TextRead DEF ParseMetrics
<1>5. CASE report.format = "urg"
  BY <1>5, UrgRead DEF ParseMetrics
<1>6. CASE report.format = "questa"
  BY <1>6, QuestaRead DEF ParseMetrics
<1>7. CASE report.format = "xcelium"
  BY <1>7, XceliumRead DEF ParseMetrics
<1> QED BY <1>1, <1>2, <1>3, <1>4, <1>5, <1>6, <1>7 DEF Formats

(***************************************************************************)
(* Joining lists: the function that joins them is the one there is.        *)
(***************************************************************************)
IsJoin(f, lists, n, V) ==
    /\ f \in [1..n -> Seq(V)]
    /\ \A i \in 1..n : f[i] = IF i = 1 THEN lists[i] ELSE f[i - 1] \o lists[i]

LEMMA JoinExists ==
    ASSUME NEW V, NEW lists \in Seq(Seq(V))
    PROVE  \A n \in 0..Len(lists) : \E f : IsJoin(f, lists, n, V)
<1> DEFINE Joins(f, n) == /\ f \in [1..n -> Seq(V)]
                          /\ \A i \in 1..n : f[i] = IF i = 1 THEN lists[i] ELSE f[i - 1] \o lists[i]
           Without == {n \in 0..Len(lists) : ~\E f : Joins(f, n)}
<1> SUFFICES Without = {}
  BY DEF IsJoin
<1> SUFFICES ASSUME Without # {} PROVE FALSE
  OBVIOUS
<1>1. PICK n \in Without : \A m \in Without : n <= m
  <2>1. Without \subseteq Nat
    OBVIOUS
  <2> HIDE DEF Without
  <2> QED BY <2>1, LeastNatural
<1>2. n # 0
  <2>1. Joins([i \in 1..0 |-> << >>], 0)
    OBVIOUS
  <2> HIDE DEF Joins
  <2> QED BY <1>1, <2>1
<1>3. n - 1 \in 0..Len(lists) /\ n \in 1..Len(lists)
  BY <1>1, <1>2
<1>4. n - 1 \notin Without
  <2>1. n - 1 < n
    BY <1>3
  <2> HIDE DEF Without
  <2> QED BY <1>1, <1>3, <2>1
<1>5. PICK f : Joins(f, n - 1)
  BY <1>3, <1>4
<1> DEFINE g == [i \in 1..n |-> IF i < n THEN f[i]
                                ELSE IF n = 1 THEN lists[n] ELSE f[n - 1] \o lists[n]]
<1>6. lists[n] \in Seq(V)
  BY <1>3
<1>7. \A i \in 1..n : g[i] \in Seq(V)
  <2> TAKE i \in 1..n
  <2>1. CASE i < n
    BY <1>3, <1>5, <2>1
  <2>2. CASE i = n /\ n # 1
    <3>1. f[n - 1] \in Seq(V)
      BY <1>3, <1>5, <2>2
    <3>2. f[n - 1] \o lists[n] \in Seq(V)
      BY <1>6, <3>1
    <3> QED BY <2>2, <3>2
  <2>3. CASE i = n /\ n = 1
    BY <1>6, <2>3
  <2> QED BY <1>3, <2>1, <2>2, <2>3
<1>8. \A i \in 1..n : g[i] = IF i = 1 THEN lists[i] ELSE g[i - 1] \o lists[i]
  <2> TAKE i \in 1..n
  <2>1. CASE i < n
    <3>1. i \in 1..(n - 1) /\ (i # 1 => i - 1 \in 1..n /\ i - 1 < n)
      BY <1>3, <2>1
    <3>2. f[i] = IF i = 1 THEN lists[i] ELSE f[i - 1] \o lists[i]
      BY <1>5, <3>1
    <3>3. g[i] = f[i] /\ (i # 1 => g[i - 1] = f[i - 1])
      BY <2>1, <3>1
    <3> HIDE DEF g, Joins
    <3> QED BY <3>2, <3>3
  <2>2. CASE i = n
    <3>1. n # 1 => n - 1 \in 1..n /\ n - 1 < n
      BY <1>3
    <3> QED BY <1>3, <2>2, <3>1
  <2> QED BY <1>3, <2>1, <2>2
<1>9. g \in [1..n -> Seq(V)]
  BY <1>7
<1>10. Joins(g, n)
  BY <1>8, <1>9
<1> HIDE DEF Joins, g
<1> QED BY <1>1, <1>10

LEMMA Joined ==
    ASSUME NEW V, NEW lists \in Seq(Seq(V))
    PROVE  FlattenSeq(lists) \in Seq(V)
<1> DEFINE n == Len(lists)
           Joins(f) == f = [i \in 1..n |-> IF i = 1 THEN lists[i] ELSE f[i - 1] \o lists[i]]
           join == CHOOSE f : Joins(f)
<1>1. CASE n = 0
  <2>1. lists = << >> /\ FlattenSeq(lists) = lists
    BY <1>1 DEF FlattenSeq
  <2>2. << >> \in Seq(V)
    OBVIOUS
  <2> QED BY <2>1, <2>2
<1>2. CASE n # 0
  <2>1. n \in 1..n /\ n \in Nat /\ n \in 0..n
    BY <1>2
  <2>2. FlattenSeq(lists) = join[n]
    BY <1>2 DEF FlattenSeq
  <2> HIDE DEF n
  <2>3. PICK f : IsJoin(f, lists, n, V)
    BY <2>1, JoinExists DEF n
  <2>4. Joins(f)
    BY <2>3 DEF IsJoin
  <2>5. Joins(join)
    BY <2>4
  <2> DEFINE Typed(k) == join[k] \in Seq(V)
             Bad == {k \in 1..n : ~Typed(k)}
  <2>6. \A i \in 1..n : join[i] = IF i = 1 THEN lists[i] ELSE join[i - 1] \o lists[i]
    BY <2>5
  <2> HIDE DEF join, Joins
  <2>7. Bad = {}
    <3> SUFFICES ASSUME Bad # {} PROVE FALSE
      OBVIOUS
    <3>1. PICK k \in Bad : \A j \in Bad : k <= j
      <4>1. Bad \subseteq Nat
        OBVIOUS
      <4> HIDE DEF Bad
      <4> QED BY <4>1, LeastNatural
    <3>2. k \in 1..n /\ lists[k] \in Seq(V)
      BY <2>1 DEF n
    <3>3. CASE k = 1
      BY <2>6, <3>2, <3>3
    <3>4. CASE k # 1
      <4>1. k - 1 \in 1..n /\ k - 1 < k
        BY <2>1, <3>2, <3>4
      <4>2. join[k - 1] \in Seq(V)
        BY <3>1, <4>1
      <4>3. join[k - 1] \o lists[k] \in Seq(V)
        BY <3>2, <4>2
      <4> QED BY <2>6, <3>2, <3>4, <4>3
    <3> QED BY <3>3, <3>4
  <2> QED BY <2>1, <2>2, <2>7
<1> QED BY <1>1, <1>2

(***************************************************************************)
(* Advice.                                                                 *)
(***************************************************************************)
Coverages == {m \in Metrics : m.covered >= 0}
GapsThere == {m \in Coverages : m.covered < 100}

MostUrgentFirst(gaps) ==
    \A k, l \in DOMAIN gaps : k < l => Urgency(gaps[k]) <= Urgency(gaps[l])

LEMMA KeyOfTwo ==
    ASSUME NEW p \in {1, 2, 3}, NEW q \in {1, 2, 3}, NEW c \in 0..99, NEW d \in 0..99
    PROVE  /\ p * 101 + c <= q * 101 + d => p < q \/ (p = q /\ c <= d)
           /\ p <= q /\ c < d => p * 101 + c < q * 101 + d
<1>1. c \in Int /\ d \in Int /\ 0 <= c /\ c <= 99 /\ 0 <= d /\ d <= 99
  OBVIOUS
<1>2. CASE p = 1
  BY <1>1, <1>2
<1>3. CASE p = 2
  BY <1>1, <1>3
<1>4. CASE p = 3
  BY <1>1, <1>4
<1> QED BY <1>2, <1>3, <1>4

LEMMA UrgencyIs ==
    /\ \A m \in Metrics : Priority(m) \in {1, 2, 3} /\ Urgency(m) \in Int
    /\ \A g, h \in GapsThere :
          Urgency(g) <= Urgency(h)
            => Priority(g) < Priority(h) \/ (Priority(g) = Priority(h) /\ g.covered <= h.covered)
    /\ \A g, h \in GapsThere :
          g.name = h.name /\ g.covered < h.covered
            => Priority(g) <= Priority(h) /\ Urgency(g) < Urgency(h)
<1>1. \A m \in Metrics : m.covered \in Int
  BY DEF Metrics
<1>2. \A m \in Metrics : Priority(m) \in {1, 2, 3}
  BY <1>1 DEF Priority
<1>3. \A m \in Metrics : Urgency(m) \in Int
  BY <1>1, <1>2 DEF Urgency
<1>4. \A g \in GapsThere : g \in Metrics /\ g.covered \in 0..99 /\ Priority(g) \in {1, 2, 3}
  BY <1>1, <1>2 DEF GapsThere, Coverages
<1>5. \A g \in GapsThere : Urgency(g) = Priority(g) * 101 + g.covered
  BY DEF Urgency
<1>6. ASSUME NEW g \in GapsThere, NEW h \in GapsThere, Urgency(g) <= Urgency(h)
      PROVE  Priority(g) < Priority(h) \/ (Priority(g) = Priority(h) /\ g.covered <= h.covered)
  <2> DEFINE p == Priority(g)
             q == Priority(h)
             c == g.covered
             d == h.covered
  <2>1. p \in {1, 2, 3} /\ q \in {1, 2, 3} /\ c \in 0..99 /\ d \in 0..99
    BY <1>4
  <2>2. Urgency(g) = p * 101 + c /\ Urgency(h) = q * 101 + d
    BY <1>5
  <2> HIDE DEF p, q, c, d
  <2>3. p < q \/ (p = q /\ c <= d)
    BY <1>6, <2>1, <2>2, KeyOfTwo
  <2> QED BY <2>3 DEF p, q, c, d
<1>7. ASSUME NEW g \in GapsThere, NEW h \in GapsThere, g.name = h.name, g.covered < h.covered
      PROVE  Priority(g) <= Priority(h) /\ Urgency(g) < Urgency(h)
  <2> DEFINE p == Priority(g)
             q == Priority(h)
             c == g.covered
             d == h.covered
  <2>1. p \in {1, 2, 3} /\ q \in {1, 2, 3} /\ c \in 0..99 /\ d \in 0..99
    BY <1>4
  <2>2. Urgency(g) = p * 101 + c /\ Urgency(h) = q * 101 + d
    BY <1>5
  <2>3. p <= q
    BY <1>4, <1>7 DEF Priority
  <2>4. c < d
    BY <1>7
  <2> HIDE DEF p, q, c, d
  <2>5. Urgency(g) < Urgency(h)
    BY <2>1, <2>2, <2>3, <2>4, KeyOfTwo
  <2> QED BY <2>3, <2>5 DEF p, q
<1> QED BY <1>2, <1>3, <1>6, <1>7

LEMMA AmongKeepsOrder ==
    ASSUME NEW V, NEW gaps \in Seq(V), MostUrgentFirst(gaps), NEW S
    PROVE  MostUrgentFirst(Among(gaps, S))
<1> DEFINE P == {i \in DOMAIN gaps : gaps[i] \in S}
           n == Len(gaps)
           m == Cardinality(P)
<1>1. n \in Nat /\ DOMAIN gaps = 1..n /\ P \subseteq 1..n
  OBVIOUS
<1>2. Among(gaps, S) = SelectInOrder(gaps, P)
  BY DEF Among
<1> HIDE DEF P, n
<1>3. PICK at \in [1..m -> P] : /\ SelectInOrder(gaps, P) = [k \in 1..m |-> gaps[at[k]]]
                                /\ \A i \in P : \E k \in 1..m : at[k] = i
                                /\ \A k, l \in 1..m : k < l => at[k] < at[l]
  BY <1>1, Selected
<1> HIDE DEF m
<1>4. \A k, l \in 1..m : k < l => Urgency(gaps[at[k]]) <= Urgency(gaps[at[l]])
  <2> SUFFICES ASSUME NEW k \in 1..m, NEW l \in 1..m, k < l
               PROVE  Urgency(gaps[at[k]]) <= Urgency(gaps[at[l]])
    OBVIOUS
  <2>1. at[k] < at[l] /\ at[k] \in DOMAIN gaps /\ at[l] \in DOMAIN gaps
    BY <1>1, <1>3
  <2> QED BY <2>1 DEF MostUrgentFirst
<1> QED BY <1>2, <1>3, <1>4 DEF MostUrgentFirst

LEMMA CutLeavesLessUrgent ==
    ASSUME NEW gaps \in Seq(GapsThere), MostUrgentFirst(gaps), NEW n \in Nat
    PROVE  /\ Cut(gaps, n) \in Seq(GapsThere) /\ Range(Cut(gaps, n)) \subseteq Range(gaps)
           /\ MostUrgentFirst(Cut(gaps, n))
           /\ \A g \in Range(gaps) : \/ g \in Range(Cut(gaps, n))
                                     \/ \A h \in Range(Cut(gaps, n)) : Urgency(h) <= Urgency(g)
<1> DEFINE cut == Cut(gaps, n)
           c == Len(cut)
<1>1. /\ cut \in Seq(GapsThere) /\ c = IF Len(gaps) < n THEN Len(gaps) ELSE n
      /\ \A i \in 1..c : i \in 1..Len(gaps) /\ cut[i] = gaps[i]
      /\ Range(cut) \subseteq Range(gaps)
  BY CutIs
<1>2. DOMAIN gaps = 1..Len(gaps) /\ Len(gaps) \in Nat
  OBVIOUS
<1> HIDE DEF cut
<1>3. DOMAIN cut = 1..c /\ c \in Nat
  BY <1>1
<1> HIDE DEF c
<1>4. MostUrgentFirst(cut)
  BY <1>1, <1>2, <1>3 DEF MostUrgentFirst
<1>5. \A g \in Range(gaps) : \/ g \in Range(cut)
                            \/ \A h \in Range(cut) : Urgency(h) <= Urgency(g)
  <2> SUFFICES ASSUME NEW i \in 1..Len(gaps)
               PROVE  \/ gaps[i] \in Range(cut)
                      \/ \A h \in Range(cut) : Urgency(h) <= Urgency(gaps[i])
    BY <1>2 DEF Range
  <2>1. CASE i <= c
    <3>1. i \in 1..c
      BY <1>2, <1>3, <2>1
    <3>2. cut[i] = gaps[i]
      BY <1>1, <3>1 DEF c
    <3> QED BY <1>3, <3>1, <3>2 DEF Range
  <2>2. CASE ~(i <= c)
    <3>1. \A j \in 1..c : Urgency(cut[j]) <= Urgency(gaps[i])
      <4> TAKE j \in 1..c
      <4>1. j < i
        BY <1>2, <1>3, <2>2
      <4>2. j \in DOMAIN gaps /\ i \in DOMAIN gaps /\ cut[j] = gaps[j]
        BY <1>1, <1>2 DEF c
      <4> QED BY <4>1, <4>2 DEF MostUrgentFirst
    <3> QED BY <1>3, <3>1 DEF Range
  <2> QED BY <2>1, <2>2
<1> QED BY <1>1, <1>4, <1>5 DEF cut

LEMMA DistinctIs ==
    ASSUME NEW V, NEW gaps \in Seq(V)
    PROVE  /\ Distinct(gaps) \in Seq(V)
           /\ \A i, j \in DOMAIN Distinct(gaps) : Same(Distinct(gaps)[i], Distinct(gaps)[j]) => i = j
           /\ \A i \in DOMAIN Distinct(gaps) : \E k \in DOMAIN gaps :
                 /\ Distinct(gaps)[i] = gaps[k]
                 /\ \A j \in DOMAIN gaps : Same(gaps[k], gaps[j]) => k <= j
           /\ \A k \in DOMAIN gaps : \E i \in DOMAIN Distinct(gaps) : Same(Distinct(gaps)[i], gaps[k])
<1> DEFINE First(i) == \A j \in DOMAIN gaps : Same(gaps[i], gaps[j]) => i <= j
           P == {i \in DOMAIN gaps : First(i)}
           n == Len(gaps)
           m == Cardinality(P)
           some == Distinct(gaps)
<1>1. n \in Nat /\ DOMAIN gaps = 1..n /\ P \subseteq 1..n
  OBVIOUS
<1>2. some = SelectInOrder(gaps, P)
  BY DEF Distinct
<1>3. \A i \in P : i \in DOMAIN gaps /\ First(i)
  OBVIOUS
<1>4. some \in Seq(V)
  <2>1. P \subseteq DOMAIN gaps
    OBVIOUS
  <2> HIDE DEF P, some
  <2> QED BY <1>2, <2>1, SelectedSeq
<1>5. \A k \in DOMAIN gaps : \E i \in P : Same(gaps[i], gaps[k])
  <2> TAKE k \in DOMAIN gaps
  <2> DEFINE T == {i \in DOMAIN gaps : Same(gaps[i], gaps[k])}
  <2>1. T \subseteq Nat /\ k \in T
    BY <1>1 DEF Same
  <2>2. PICK i \in T : \A j \in T : i <= j
    <3> HIDE DEF T
    <3> QED BY <2>1, LeastNatural
  <2>3. First(i)
    <3> TAKE j \in DOMAIN gaps
    <3> HAVE Same(gaps[i], gaps[j])
    <3>1. j \in T
      BY <2>2 DEF Same
    <3> QED BY <2>2, <3>1
  <2> QED BY <2>2, <2>3
<1> HIDE DEF P, n, some
<1>6. PICK at \in [1..m -> P] : /\ SelectInOrder(gaps, P) = [k \in 1..m |-> gaps[at[k]]]
                                /\ \A i \in P : \E k \in 1..m : at[k] = i
                                /\ \A k, l \in 1..m : k < l => at[k] < at[l]
  BY <1>1, Selected
<1>7. m \in Nat
  BY <1>1, Selected
<1> HIDE DEF m
<1>8. /\ DOMAIN some = 1..m
      /\ \A i \in 1..m : some[i] = gaps[at[i]] /\ at[i] \in P /\ at[i] \in DOMAIN gaps
                          /\ at[i] \in Int /\ First(at[i])
  <2>1. DOMAIN some = 1..m /\ \A i \in 1..m : some[i] = gaps[at[i]] /\ at[i] \in P
    BY <1>2, <1>6
  <2>2. \A i \in P : i \in Int
    BY <1>1
  <2> HIDE DEF First
  <2> QED BY <1>3, <2>1, <2>2
<1>9. \A i, j \in 1..m : Same(some[i], some[j]) => i = j
  <2> SUFFICES ASSUME NEW i \in 1..m, NEW j \in 1..m, Same(some[i], some[j])
               PROVE  i = j
    OBVIOUS
  <2>1. Same(gaps[at[i]], gaps[at[j]]) /\ Same(gaps[at[j]], gaps[at[i]])
    BY <1>8 DEF Same
  <2>2. at[i] = at[j]
    BY <1>8, <2>1
  <2>3. ~(i < j) /\ ~(j < i)
    BY <1>6, <1>8, <2>2
  <2> QED BY <2>3
<1>10. \A k \in DOMAIN gaps : \E i \in 1..m : Same(some[i], gaps[k])
  <2> TAKE k \in DOMAIN gaps
  <2>1. PICK p \in P : Same(gaps[p], gaps[k])
    BY <1>5
  <2>2. PICK i \in 1..m : at[i] = p
    BY <1>6
  <2> QED BY <1>8, <2>1, <2>2
<1>11. \A i \in 1..m : \E k \in DOMAIN gaps : some[i] = gaps[k] /\ First(k)
  BY <1>8
<1> QED BY <1>4, <1>8, <1>9, <1>10, <1>11 DEF some

\* The gaps of some metrics, sorted and cut, and what is not among them.
LEMMA RecommendIs ==
    ASSUME NEW metrics \in Seq(Coverages)
    PROVE  LET gaps == Recommend(metrics)
               there == {m \in Range(metrics) : m.covered < 100}
           IN  /\ gaps \in Seq(GapsThere) /\ MostUrgentFirst(gaps)
               /\ Range(gaps) \subseteq there /\ there \subseteq GapsThere
               /\ \A g \in there : \/ g \in Range(gaps)
                                   \/ \A h \in Range(gaps) : Urgency(h) <= Urgency(g)
<1> DEFINE there == {m \in Range(metrics) : m.covered < 100}
           open == Gaps(metrics)
           key == [m \in Range(open) |-> Urgency(m)]
           sorted == ByUrgency(open)
<1>1. there \subseteq GapsThere /\ Range(metrics) \cap there = there
  BY EmptySeqIs DEF GapsThere
<1>2. open = Among(metrics, there)
  BY DEF Gaps
<1> HIDE DEF there, open
<1>3. open \in Seq(Coverages) /\ Range(open) = there
  BY <1>1, <1>2, AmongIs
<1>4. open \in Seq(GapsThere)
  <2>1. \A i \in 1..Len(open) : open[i] \in GapsThere
    BY <1>1, <1>3 DEF Range
  <2> QED BY <1>3, <2>1
<1>5. \A m \in Range(open) : key[m] \in Int
  BY <1>1, <1>3, UrgencyIs DEF GapsThere, Coverages
<1>6. sorted = SortedBy(open, key)
  BY DEF ByUrgency
<1>7. \A m \in Range(open) : key[m] = Urgency(m)
  OBVIOUS
<1> HIDE DEF key, sorted
<1>8. /\ sorted \in Seq(GapsThere) /\ Range(sorted) = there
      /\ \A k, l \in DOMAIN sorted : k < l => key[sorted[k]] <= key[sorted[l]]
  BY <1>3, <1>4, <1>5, <1>6, SortedIs
<1>9. MostUrgentFirst(sorted)
  <2>1. \A k \in DOMAIN sorted : key[sorted[k]] = Urgency(sorted[k])
    BY <1>3, <1>7, <1>8 DEF Range
  <2> QED BY <1>8, <2>1 DEF MostUrgentFirst
<1>10. Recommend(metrics) = Cut(sorted, MaxGaps)
  BY DEF Recommend, sorted, open
<1>11. MaxGaps \in Nat
  BY MaxGapsAssumption
<1> QED BY <1>1, <1>8, <1>9, <1>10, <1>11, CutLeavesLessUrgent DEF there

\* What WorstIsAdvised says of the advisories of one query.
LEMMA AdviceIs ==
    ASSUME NEW table, NEW run, NEW name, NEW protocol, NEW limit \in Nat,
           QueryMetrics(table, run) \in Seq(Coverages)
    PROVE  LET given == Advisories(table, run, name, protocol, limit)
               stored == Range(QueryMetrics(table, run))
               selectable == {m \in stored : /\ name \in {AnyName, m.name} /\ m.covered < 100
                                             /\ name # AnyName \/ Priority(m) = 1}
           IN  /\ \A i, j \in DOMAIN given : Same(given[i], given[j]) => i = j
               /\ \A a \in Range(given), m \in stored : Same(a, m) => a.covered <= m.covered
               /\ \A m \in selectable, a \in Range(given) :
                     \/ \E b \in Range(given) : Same(b, m)
                     \/ Priority(a) < Priority(m)
                     \/ Priority(a) = Priority(m) /\ a.covered <= m.covered
<1> DEFINE all == QueryMetrics(table, run)
           stored == Range(all)
           asked == {m \in stored : name \in {AnyName, m.name}}
           metrics == Among(all, asked)
           gaps == Recommend(metrics)
           chosen == {g \in Range(gaps) : name # AnyName \/ Priority(g) = 1}
           selected == Among(gaps, chosen)
           cut == Cut(selected, limit)
           distinct == Distinct(cut)
           given == Advisories(table, run, name, protocol, limit)
           selectable == {m \in stored : /\ name \in {AnyName, m.name} /\ m.covered < 100
                                         /\ name # AnyName \/ Priority(m) = 1}
           there == {m \in asked : m.covered < 100}
<1>1. given = [i \in DOMAIN distinct |-> Advisory(distinct[i], protocol)]
  BY DEF Advisories, SelectedGaps
<1>2. all \in Seq(Coverages) /\ Range(all) \cap asked = asked
  OBVIOUS
<1>3. \A m \in stored : m.name = m.name /\ m \in Coverages
  BY <1>2, EmptySeqIs
<1> HIDE DEF all, given
<1> DEFINE Asked(m) == name \in {AnyName, m.name}
<1>4. \A m : m \in asked <=> m \in stored /\ Asked(m)
  OBVIOUS
<1>5. \A m : m \in selectable <=> m \in there /\ (name # AnyName \/ Priority(m) = 1)
  OBVIOUS
<1>6. \A m : m \in there <=> m \in asked /\ m.covered < 100
  OBVIOUS
<1> HIDE DEF asked, selectable, there
<1>7. metrics \in Seq(Coverages) /\ Range(metrics) = asked
  BY <1>2, AmongIs
<1> HIDE DEF metrics
<1>8. {m \in Range(metrics) : m.covered < 100} = there
  BY <1>6, <1>7
<1>9. /\ gaps \in Seq(GapsThere) /\ MostUrgentFirst(gaps)
      /\ Range(gaps) \subseteq there /\ there \subseteq GapsThere
      /\ \A g \in there : \/ g \in Range(gaps)
                          \/ \A h \in Range(gaps) : Urgency(h) <= Urgency(g)
  BY <1>7, <1>8, RecommendIs
<1> HIDE DEF gaps
<1>10. Range(gaps) \cap chosen = chosen /\ chosen \subseteq Range(gaps)
  OBVIOUS
<1>11. \A g : g \in chosen <=> g \in Range(gaps) /\ (name # AnyName \/ Priority(g) = 1)
  OBVIOUS
<1> HIDE DEF chosen
<1>12. selected \in Seq(GapsThere) /\ Range(selected) = chosen /\ MostUrgentFirst(selected)
  BY <1>9, <1>10, AmongIs, AmongKeepsOrder
<1> HIDE DEF selected
<1>13. /\ cut \in Seq(GapsThere) /\ Range(cut) \subseteq chosen
       /\ MostUrgentFirst(cut)
       /\ \A g \in chosen : \/ g \in Range(cut)
                            \/ \A h \in Range(cut) : Urgency(h) <= Urgency(g)
  BY <1>12, CutLeavesLessUrgent
<1> HIDE DEF cut
<1>14. /\ distinct \in Seq(GapsThere)
       /\ \A i, j \in DOMAIN distinct : Same(distinct[i], distinct[j]) => i = j
       /\ \A i \in DOMAIN distinct : \E k \in DOMAIN cut :
             /\ distinct[i] = cut[k]
             /\ \A j \in DOMAIN cut : Same(cut[k], cut[j]) => k <= j
       /\ \A k \in DOMAIN cut : \E i \in DOMAIN distinct : Same(distinct[i], cut[k])
  BY <1>13, DistinctIs
<1> HIDE DEF distinct
<1>15. /\ DOMAIN given = DOMAIN distinct
       /\ \A i \in DOMAIN distinct :
             /\ given[i].name = distinct[i].name /\ given[i].scope = distinct[i].scope
             /\ given[i].covered = distinct[i].covered
  BY <1>1 DEF Advisory
<1>16. \A i \in DOMAIN distinct : Priority(given[i]) = Priority(distinct[i])
  BY <1>15 DEF Priority
<1>17. \A i, j \in DOMAIN given : Same(given[i], given[j]) => i = j
  BY <1>14, <1>15 DEF Same
<1>18. \A g \in chosen : g \in GapsThere /\ g \in there
  BY <1>9, <1>10
\* What is selectable is advised on, or everything advised on is at least as urgent.
<1>19. \A m \in selectable : m \in Range(cut) \/ \A h \in Range(cut) : Urgency(h) <= Urgency(m)
  <2> TAKE m \in selectable
  <2>1. m \in there
    BY <1>5
  <2>2. CASE m \in Range(gaps)
    BY <1>5, <1>11, <1>13, <2>2
  <2>3. CASE m \notin Range(gaps)
    BY <1>9, <1>10, <1>13, <2>1, <2>3
  <2> QED BY <2>2, <2>3
<1>20. ASSUME NEW i \in DOMAIN given, NEW m \in stored, Same(given[i], m)
       PROVE  given[i].covered <= m.covered
  <2> SUFFICES ASSUME ~(given[i].covered <= m.covered) PROVE FALSE
    OBVIOUS
  <2>1. PICK k \in DOMAIN cut : /\ distinct[i] = cut[k]
                                /\ \A j \in DOMAIN cut : Same(cut[k], cut[j]) => k <= j
    BY <1>14, <1>15
  <2> DEFINE g == cut[k]
  <2>2. g \in chosen /\ g \in there /\ g \in GapsThere /\ g \in Range(cut)
    BY <1>13, <1>18 DEF Range
  <2>3. g.name = m.name /\ g.scope = m.scope /\ given[i].covered = g.covered
    BY <1>15, <1>20, <2>1 DEF Same
  <2>4. m.covered \in Int /\ g.covered \in Int /\ g.covered < 100
    BY <1>3, <2>2 DEF GapsThere, Coverages, Metrics
  <2>5. m.covered < g.covered /\ m.covered < 100
    BY <2>3, <2>4
  <2>6. m \in there
    <3>1. Asked(g)
      BY <1>4, <1>6, <2>2
    <3>2. Asked(m)
      BY <2>3, <3>1
    <3> QED BY <1>4, <1>6, <2>5, <3>2
  <2>7. m \in GapsThere
    BY <1>9, <2>6
  <2>8. Priority(m) <= Priority(g) /\ Urgency(m) < Urgency(g)
    BY <2>2, <2>3, <2>5, <2>7, UrgencyIs
  <2>9. m \in Metrics /\ g \in Metrics
    BY <2>2, <2>7 DEF GapsThere, Coverages
  <2>10. /\ Priority(m) \in {1, 2, 3} /\ Priority(g) \in {1, 2, 3}
         /\ Urgency(m) \in Int /\ Urgency(g) \in Int
    BY <2>9, UrgencyIs
  <2>11. m \in selectable
    <3>1. name # AnyName \/ Priority(g) = 1
      BY <1>11, <2>2
    <3>2. Priority(g) = 1 => Priority(m) = 1
      BY <2>8, <2>10
    <3> QED BY <1>5, <2>6, <3>1, <3>2
  <2>12. m \in Range(cut)
    BY <1>19, <2>2, <2>8, <2>10, <2>11
  <2>13. PICK j \in DOMAIN cut : cut[j] = m
    BY <2>12 DEF Range
  <2>14. k <= j
    BY <2>1, <2>3, <2>13 DEF Same
  <2>15. k # j
    BY <2>5, <2>4, <2>13
  <2>16. k \in Int /\ j \in Int
    BY <1>13
  <2>17. Urgency(g) <= Urgency(m)
    BY <1>13, <2>13, <2>14, <2>15, <2>16 DEF MostUrgentFirst
  <2> HIDE DEF g
  <2> QED BY <2>8, <2>10, <2>17
<1>21. ASSUME NEW m \in selectable, NEW i \in DOMAIN given
       PROVE  \/ \E b \in Range(given) : Same(b, m)
              \/ Priority(given[i]) < Priority(m)
              \/ Priority(given[i]) = Priority(m) /\ given[i].covered <= m.covered
  <2>1. CASE m \in Range(cut)
    <3>1. PICK k \in DOMAIN cut : cut[k] = m
      BY <2>1 DEF Range
    <3>2. PICK j \in DOMAIN distinct : Same(distinct[j], m)
      BY <1>14, <3>1
    <3>3. Same(given[j], m) /\ given[j] \in Range(given)
      BY <1>15, <3>2 DEF Same, Range
    <3> QED BY <3>3
  <2>2. CASE m \notin Range(cut)
    <3>1. PICK k \in DOMAIN cut : distinct[i] = cut[k]
      BY <1>14, <1>15
    <3>2. cut[k] \in Range(cut)
      BY DEF Range
    <3>3. distinct[i] \in Range(cut) /\ distinct[i] \in GapsThere
      BY <1>13, <1>18, <3>1, <3>2
    <3>4. Urgency(distinct[i]) <= Urgency(m)
      BY <1>19, <2>2, <3>3
    <3>5. m \in GapsThere
      BY <1>5, <1>9
    <3>6. \/ Priority(distinct[i]) < Priority(m)
          \/ Priority(distinct[i]) = Priority(m) /\ distinct[i].covered <= m.covered
      BY <3>3, <3>4, <3>5, UrgencyIs
    <3> QED BY <1>15, <1>16, <3>6
  <2> QED BY <2>1, <2>2
<1>22. \A a \in Range(given), m \in stored : Same(a, m) => a.covered <= m.covered
  BY <1>20 DEF Range
<1>23. \A m \in selectable, a \in Range(given) :
           \/ \E b \in Range(given) : Same(b, m)
           \/ Priority(a) < Priority(m)
           \/ Priority(a) = Priority(m) /\ a.covered <= m.covered
  <2> SUFFICES ASSUME NEW m \in selectable, NEW i \in DOMAIN given
               PROVE  \/ \E b \in Range(given) : Same(b, m)
                      \/ Priority(given[i]) < Priority(m)
                      \/ Priority(given[i]) = Priority(m) /\ given[i].covered <= m.covered
    BY DEF Range
  <2> QED BY <1>21
<1> QED BY <1>17, <1>22, <1>23 DEF given, all, selectable

(***************************************************************************)
(* The invariant.                                                          *)
(***************************************************************************)
\* What is kept of the logs read so far is what their lines say.
LogsKept ==
    /\ pos \in Nat
    /\ \A e \in events : e.file \in Nat /\ e.file < pos
    /\ \A t \in tests :
          LET log == ParseLog(LinesOf(t)) IN
          /\ t.file \in Nat /\ t.file < pos
          /\ t.parsed = log.status
          /\ t.status = IF log.failures # {} THEN "fail" ELSE "pass"
          /\ EventsOf(t.file) = LogEvents(t.file, log.failures)

Right(pointer, path, source) == RightBy(index, work.tree, pointer, path, source)

\* The pointers resolved so far, of the file being read and of those before it.
PathsRight ==
    /\ work \in Works /\ BuiltFrom(index, work.tree)
    /\ resolved \in Seq(Range(resolved))
    /\ resolved # << >> => /\ pos \in DOMAIN work.files /\ File.kind = "junit"
                           /\ Len(resolved) <= Len(File.pointers)
    /\ \A i \in DOMAIN resolved : Right(File.pointers[i].to, resolved[i], File)
    /\ \A e \in evidence : Right(e.pointer, e.path, work.files[e.file])

\* The pass is at a file or behind the last one, and has stored tests that have a name.
Placed ==
    /\ mode \in {"reading", "done", "stopped"}
    /\ pos \in 1..(Len(work.files) + 1)
    /\ \A t \in tests : t.name # None

\* The tags of a failure are those of the words of its message, with those of some phase, component
\* and framework.
Classified(e) ==
    /\ e.severity \in {"error", "fatal"}
    /\ \E framework \in {"uvm", "cocotb"} : \E phase, roles :
          e.tags = Failures!Tags(Failures!Words(e.message), phase, roles, framework)
    /\ e.signature = Failures!Signature(e.message, e.tags)
EventsRead == \A e \in events : Classified(e)

\* A summary is what the parser of its report makes of it.
SummaryOf(s, report) ==
    GoodReport(report) /\ s.run = report.run /\ s.metrics = ParseMetrics(report)
SummariesRead ==
    /\ summaries \in Seq(Range(summaries))
    /\ \A s \in Range(summaries) :
          s.file \in Nat /\ s.file < pos /\ SummaryOf(s, work.files[s.file])

IInv == LogsKept /\ PathsRight /\ Placed /\ EventsRead /\ SummariesRead

LEMMA InitInv == Init => IInv
<1> SUFFICES ASSUME Init PROVE IInv
  OBVIOUS
<1>1. LogsKept
  BY DEF Init, LogsKept
<1>2. PathsRight
  <2>1. << >> \in Seq(Range(<< >>))
    OBVIOUS
  <2> QED BY <2>1 DEF Init, PathsRight, BuiltFrom
<1>3. Placed
  <2>1. work.files \in Seq(Range(work.files))
    BY ReportsAssumption DEF Init
  <2>2. Len(work.files) \in Nat
    BY <2>1
  <2>3. 1 \in 1..(Len(work.files) + 1)
    BY <2>2
  <2> QED BY <2>3 DEF Init, Placed
<1>4. EventsRead
  BY DEF Init, EventsRead
<1>5. SummariesRead
  <2>1. << >> \in Seq(Range(<< >>)) /\ Range(<< >>) = {}
    BY DEF Range
  <2> QED BY <2>1 DEF Init, SummariesRead
<1> QED BY <1>1, <1>2, <1>3, <1>4, <1>5 DEF IInv

\* A log is read once, and nothing read later is taken for it.
LEMMA LogsStep ==
    ASSUME LogsKept, [Next]_vars
    PROVE  LogsKept'
<1>1. CASE IndexUvmLog
  <2> DEFINE log == ParseLog(File.lines)
             new == [file |-> pos, name |-> log.name, parsed |-> log.status,
                     status |-> IF log.failures # {} THEN "fail" ELSE "pass"]
  <2>1. /\ tests' = tests \cup {new} /\ events' = events \cup LogEvents(pos, log.failures)
        /\ pos' = pos + 1 /\ work' = work
    BY <1>1 DEF IndexUvmLog, NextFile
  <2>2. \A e \in LogEvents(pos, log.failures) : e.file = pos
    BY DEF LogEvents, Event
  <2>3. pos' \in Nat /\ \A e \in events' : e.file \in Nat /\ e.file < pos'
    BY <2>1, <2>2 DEF LogsKept
  <2>4. \A n \in Nat : n < pos => EventsOf(n)' = EventsOf(n)
    BY <2>1, <2>2 DEF EventsOf, LogsKept
  <2>5. \A n : n = pos => EventsOf(n)' = LogEvents(n, log.failures)
    BY <2>1, <2>2 DEF EventsOf, LogsKept
  <2>6. \A t : LinesOf(t)' = LinesOf(t)
    BY <2>1 DEF LinesOf
  <2>7. LinesOf(new) = File.lines /\ new.file = pos
    BY DEF LinesOf, File
  <2>8. \A f, m : LogEvents(f, m)' = LogEvents(f, m)
    BY DEF LogEvents
  <2> DEFINE Kept_(t) == LET read == ParseLog(LinesOf(t)) IN
                /\ t.file \in Nat /\ t.file < pos + 1
                /\ t.parsed = read.status
                /\ t.status = IF read.failures # {} THEN "fail" ELSE "pass"
                /\ EventsOf(t.file)' = LogEvents(t.file, read.failures)
  <2>9. \A t : t = new => Kept_(t)
    BY <2>5, <2>7 DEF LogsKept
  <2>10. \A t \in tests : Kept_(t)
    BY <2>4 DEF LogsKept
  <2> HIDE DEF new, log
  <2> QED BY <2>1, <2>3, <2>6, <2>9, <2>10 DEF LogsKept
<1>2. CASE IndexCocotbXml
  <2>1. /\ tests' = tests /\ events' = events \cup JUnitEvents(pos, File.failures)
        /\ pos' = pos + 1 /\ work' = work
    BY <1>2 DEF IndexCocotbXml, NextFile
  <2>2. \A e \in JUnitEvents(pos, File.failures) : e.file = pos
    BY DEF JUnitEvents, Event
  <2>3. pos' \in Nat /\ \A e \in events' : e.file \in Nat /\ e.file < pos'
    BY <2>1, <2>2 DEF LogsKept
  <2>4. \A n \in Nat : n < pos => EventsOf(n)' = EventsOf(n)
    BY <2>1, <2>2 DEF EventsOf, LogsKept
  <2>5. \A t : LinesOf(t)' = LinesOf(t)
    BY <2>1 DEF LinesOf
  <2> QED BY <2>1, <2>3, <2>4, <2>5 DEF LogsKept
<1>3. CASE \/ UNCHANGED vars \/ SkipLog \/ ResolveEvidencePath
           \/ SkipReport \/ AbortOnReport \/ IndexCoverageArtifact \/ Finish
  <2>1. UNCHANGED <<work, tests, events>> /\ pos' \in {pos, pos + 1}
    BY <1>3 DEF vars, SkipLog, ResolveEvidencePath, SkipReport, AbortOnReport,
                IndexCoverageArtifact, Finish, NextFile
  <2>2. /\ \A n : EventsOf(n)' = EventsOf(n)
        /\ \A t : LinesOf(t)' = LinesOf(t)
    BY <2>1 DEF EventsOf, LinesOf
  <2> QED BY <2>1, <2>2 DEF LogsKept
<1> QED BY <1>1, <1>2, <1>3 DEF Next


(***************************************************************************)
(* The paths.  Once it is built, the index stays.                          *)
(***************************************************************************)
LEMMA RightStays ==
    ASSUME UNCHANGED work, index # NoIndex => index' = index
    PROVE  \A pointer, path, source :
               Right(pointer, path, source) => Right(pointer, path, source)'
<1> SUFFICES ASSUME NEW pointer, NEW path, NEW source, Right(pointer, path, source)
             PROVE  Right(pointer, path, source)'
  OBVIOUS
<1> QED BY DEF Right, RightBy

\* One pointer is resolved with the index, which is built if there is none.
LEMMA ResolveStep ==
    ASSUME PathsRight, ResolveEvidencePath
    PROVE  PathsRight'
<1> DEFINE n == Len(resolved) + 1
           pointer == File.pointers[n].to
<1>1. /\ mode = "reading" /\ pos \in DOMAIN work.files /\ File.kind = "junit"
      /\ Len(resolved) < Len(File.pointers)
      /\ index' = IF pointer.form = "absolute"
                  THEN IndexAfter(index, work.tree, pointer.name) ELSE index
      /\ UNCHANGED <<work, pos, evidence>>
  BY DEF ResolveEvidencePath, Reading
<1>2. PICK path \in Resolve(pointer, work.tree, File, index') : resolved' = Append(resolved, path)
  BY DEF ResolveEvidencePath
<1>3. File' = File
  BY <1>1 DEF File
<1>4. work \in Works /\ IsFiniteSet(Parts(File)) /\ File.pointers \in Seq(Range(File.pointers))
      /\ \A p \in Range(File.pointers) : p.to.form = "absolute" => p.to.name \in DOMAIN Glob
  BY <1>1, WorksAssumption DEF PathsRight, File
<1>5. /\ resolved \in Seq(Range(resolved) \cup {path})
      /\ Len(resolved) \in Nat /\ Len(File.pointers) \in Nat
  BY <1>4 DEF PathsRight
<1>6. n \in DOMAIN File.pointers /\ File.pointers[n] \in Range(File.pointers)
  BY <1>1, <1>4, <1>5 DEF Range
<1>7. /\ resolved' \in Seq(Range(resolved) \cup {path})
      /\ Len(resolved') = n /\ DOMAIN resolved' = 1..n
      /\ resolved'[n] = path /\ \A i \in DOMAIN resolved : resolved'[i] = resolved[i]
      /\ DOMAIN resolved = 1..Len(resolved)
  BY <1>2, <1>5
<1>8. resolved' \in Seq(Range(resolved'))
  <2>1. \A i \in 1..n : resolved'[i] \in Range(resolved')
    BY <1>7 DEF Range
  <2> QED BY <1>5, <1>7, <2>1
<1>9. index # NoIndex => index' = index
  BY <1>1 DEF IndexAfter
<1>10. BuiltFrom(index', work.tree) /\ (pointer.form = "absolute" => index' # NoIndex)
  <2>1. CASE index # NoIndex \/ pointer.form # "absolute"
    BY <1>1, <1>9, <2>1 DEF PathsRight, BuiltFrom
  <2>2. CASE index = NoIndex /\ pointer.form = "absolute"
    <3>1. index' = BuildIndex(work.tree, pointer.name)
      BY <1>1, <2>2 DEF IndexAfter
    <3>2. BuildIndex(work.tree, pointer.name).name = pointer.name
      BY DEF BuildIndex
    <3>3. index' # NoIndex
      BY <1>4, <1>6, <2>2, <3>1, NoIndexAssumption
    <3> QED BY <3>1, <3>2, <3>3 DEF BuiltFrom
  <2> QED BY <2>1, <2>2
<1>11. RightBy(index', work.tree, pointer, path, File)
  <2>1. CASE pointer.form # "absolute"
    BY <2>1 DEF RightBy
  <2>2. CASE pointer.form = "absolute"
    BY <1>2, <1>4, <1>10, <2>2, LookupIsRight
  <2> QED BY <2>1, <2>2
<1>12. \A p, q, f : Right(p, q, f) => Right(p, q, f)'
  BY <1>1, <1>9, RightStays
<1>13. \A i \in DOMAIN resolved' : RightBy(index', work'.tree, File'.pointers[i].to, resolved'[i], File')
  <2> SUFFICES ASSUME NEW i \in 1..n
               PROVE  RightBy(index', work.tree, File.pointers[i].to, resolved'[i], File)
    BY <1>1, <1>3, <1>7
  <2>1. CASE i = n
    BY <1>7, <1>11, <2>1
  <2>2. CASE i \in DOMAIN resolved
    <3>1. \A p, q, f : p = File.pointers[i].to /\ q = resolved[i] /\ f = File => Right(p, q, f)
      BY <2>2 DEF PathsRight
    <3>2. \A p, q, f : p = File.pointers[i].to /\ q = resolved[i] /\ f = File
                          => RightBy(index', work'.tree, p, q, f)
      BY <1>12, <3>1 DEF Right
    <3> QED BY <1>1, <1>7, <2>2, <3>2
  <2> QED BY <1>5, <1>7, <2>1, <2>2
<1>14. \A e \in evidence' : RightBy(index', work'.tree, e.pointer, e.path, work'.files[e.file])
  <2> SUFFICES ASSUME NEW e \in evidence
               PROVE  RightBy(index', work'.tree, e.pointer, e.path, work.files[e.file])
    BY <1>1
  <2>1. \A p, q, f : p = e.pointer /\ q = e.path /\ f = work.files[e.file] => Right(p, q, f)
    BY DEF PathsRight
  <2>2. \A p, q, f : p = e.pointer /\ q = e.path /\ f = work.files[e.file]
                        => RightBy(index', work'.tree, p, q, f)
    BY <1>12, <2>1 DEF Right
  <2> QED BY <2>2
<1>15. /\ work' \in Works /\ BuiltFrom(index', work'.tree)
       /\ pos' \in DOMAIN work'.files /\ File'.kind = "junit"
       /\ Len(resolved') <= Len(File'.pointers)
  BY <1>1, <1>3, <1>4, <1>5, <1>7, <1>10
<1> QED BY <1>8, <1>13, <1>14, <1>15 DEF PathsRight, Right

\* Every other step keeps the index, and starts the next file with nothing resolved.
LEMMA PathsStep ==
    ASSUME PathsRight, [Next]_vars
    PROVE  PathsRight'
<1>1. CASE ResolveEvidencePath
  BY <1>1, ResolveStep
<1>2. CASE ~ResolveEvidencePath
  <2>1. index' = index /\ work' = work
    BY <1>2 DEF Next, vars, SkipLog, IndexUvmLog, IndexCocotbXml, SkipReport, AbortOnReport,
                IndexCoverageArtifact, Finish, NextFile
  <2>2. \/ resolved' = << >>
        \/ resolved' = resolved /\ pos' = pos
    BY <1>2 DEF Next, vars, SkipLog, IndexUvmLog, IndexCocotbXml, SkipReport, AbortOnReport,
                IndexCoverageArtifact, Finish, NextFile
  <2>3. /\ resolved' \in Seq(Range(resolved'))
        /\ resolved' # << >> => /\ pos' \in DOMAIN work'.files /\ File'.kind = "junit"
                                /\ Len(resolved') <= Len(File'.pointers)
        /\ \A i \in DOMAIN resolved' :
               RightBy(index', work'.tree, File'.pointers[i].to, resolved'[i], File')
    <3>1. CASE resolved' = << >>
      <4>1. << >> \in Seq(Range(<< >>)) /\ DOMAIN << >> = {}
        OBVIOUS
      <4> QED BY <3>1, <4>1
    <3>2. CASE resolved' = resolved /\ pos' = pos
      BY <2>1, <3>2 DEF PathsRight, File, Right
    <3> QED BY <2>2, <3>1, <3>2
  <2>4. \A e \in evidence' : RightBy(index, work.tree, e.pointer, e.path, work.files[e.file])
    <3>1. \A e \in evidence : RightBy(index, work.tree, e.pointer, e.path, work.files[e.file])
      BY DEF PathsRight, Right
    <3>2. CASE IndexUvmLog
      <4>1. \A e \in evidence' : e \in evidence \/ e.pointer.form = "own"
        BY <3>2 DEF IndexUvmLog
      <4> QED BY <3>1, <4>1 DEF RightBy
    <3>3. CASE IndexCocotbXml
      <4>1. /\ Reading("junit") /\ Len(resolved) = Len(File.pointers)
            /\ evidence' = evidence \cup
                 {[file |-> pos, nth |-> File.pointers[i].of, pointer |-> File.pointers[i].to,
                   path |-> resolved[i]] : i \in KeptPointers}
        BY <3>3 DEF IndexCocotbXml
      <4>2. File.pointers \in Seq(Range(File.pointers))
        BY <4>1, WorksAssumption DEF PathsRight, Reading, File
      <4>3. \A i \in KeptPointers : i \in DOMAIN resolved
        <5>1. resolved \in Seq(Range(resolved))
          BY DEF PathsRight
        <5>2. DOMAIN resolved = DOMAIN File.pointers
          BY <4>1, <4>2, <5>1
        <5> QED BY <5>2 DEF KeptPointers
      <4>4. \A i \in KeptPointers :
               RightBy(index, work.tree, File.pointers[i].to, resolved[i], work.files[pos])
        BY <4>3 DEF PathsRight, Right, File
      <4> QED BY <3>1, <4>1, <4>4
    <3>4. CASE ~IndexUvmLog /\ ~IndexCocotbXml
      <4>1. evidence' = evidence
        BY <1>2, <3>4 DEF Next, vars, SkipLog, SkipReport, AbortOnReport, IndexCoverageArtifact,
                          Finish
      <4> QED BY <3>1, <4>1
    <3> QED BY <3>2, <3>3, <3>4
  <2> QED BY <2>1, <2>3, <2>4 DEF PathsRight, Right
<1> QED BY <1>1, <1>2

LEMMA PlacedStep ==
    ASSUME Placed, work \in Works, [Next]_vars
    PROVE  Placed'
<1> DEFINE n == Len(work.files)
<1>1. n \in Nat /\ DOMAIN work.files = 1..n
  <2>1. work.files \in Seq(Range(work.files))
    BY ReportsAssumption
  <2> QED BY <2>1
<1>2. pos \in 1..(n + 1) /\ mode \in {"reading", "done", "stopped"} /\ \A t \in tests : t.name # None
  BY DEF Placed
<1>3. work' = work
  BY DEF Next, vars, SkipLog, IndexUvmLog, ResolveEvidencePath, IndexCocotbXml, SkipReport,
         AbortOnReport, IndexCoverageArtifact, Finish, NextFile
<1>4. mode' \in {"reading", "done", "stopped"}
  BY <1>2 DEF Next, vars, SkipLog, IndexUvmLog, ResolveEvidencePath, IndexCocotbXml, SkipReport,
              AbortOnReport, IndexCoverageArtifact, Finish, NextFile
<1>5. pos' = pos \/ (pos' = pos + 1 /\ pos \in DOMAIN work.files)
  BY DEF Next, vars, SkipLog, IndexUvmLog, ResolveEvidencePath, IndexCocotbXml, SkipReport,
         AbortOnReport, IndexCoverageArtifact, Finish, NextFile, Reading
<1>6. \A t \in tests' : t.name # None
  <2>1. CASE IndexUvmLog
    <3>1. ParseLog(File.lines).name # None
      BY <2>1 DEF IndexUvmLog
    <3>2. \A t \in tests' : t \in tests \/ t.name = ParseLog(File.lines).name
      BY <2>1 DEF IndexUvmLog
    <3> QED BY <1>2, <3>1, <3>2
  <2>2. CASE ~IndexUvmLog
    <3>1. tests' = tests
      BY <2>2 DEF Next, vars, SkipLog, ResolveEvidencePath, IndexCocotbXml, SkipReport,
                  AbortOnReport, IndexCoverageArtifact, Finish
    <3> QED BY <1>2, <3>1
  <2> QED BY <2>1, <2>2
<1> HIDE DEF n
<1>7. pos' \in 1..(n + 1)
  BY <1>1, <1>2, <1>5
<1>8. n = Len(work'.files)
  BY <1>3 DEF n
<1> QED BY <1>4, <1>6, <1>7, <1>8 DEF Placed

\* Both handlers classify what they store.
LEMMA EventClassified ==
    ASSUME NEW file, NEW nth, NEW raw, NEW message, NEW time, NEW phase, NEW roles,
           NEW framework \in {"uvm", "cocotb"}
    PROVE  Classified(Event(file, nth, raw, message, time, phase, roles, framework))
<1> DEFINE words == Failures!Words(message)
           tags == Failures!Tags(words, phase, roles, framework)
           e == Event(file, nth, raw, message, time, phase, roles, framework)
<1>1. /\ e.message = message /\ e.tags = tags
      /\ e.signature = Failures!Signature(message, tags)
      /\ e.severity = Failures!NormalizeSeverity(raw)
  BY DEF Event
<1>2. Failures!NormalizeSeverity(raw) \in {"error", "fatal"}
  BY DEF Failures!NormalizeSeverity
<1>3. e.tags = Failures!Tags(Failures!Words(e.message), phase, roles, framework)
  BY <1>1
<1>4. e.signature = Failures!Signature(e.message, e.tags)
  BY <1>1
<1> HIDE DEF e, tags, words
<1>5. \E f \in {"uvm", "cocotb"} : \E p, r :
          e.tags = Failures!Tags(Failures!Words(e.message), p, r, f)
  BY <1>3
<1> QED BY <1>1, <1>2, <1>4, <1>5 DEF Classified, e

LEMMA EventsStep ==
    ASSUME EventsRead, [Next]_vars
    PROVE  EventsRead'
<1>1. \A e \in events' : e \in events \/ Classified(e)
  <2>1. CASE IndexUvmLog
    <3> DEFINE found == LogEvents(pos, ParseLog(File.lines).failures)
    <3>1. events' = events \cup found
      BY <2>1 DEF IndexUvmLog
    <3>2. \A e \in found : Classified(e)
      BY EventClassified DEF LogEvents
    <3> HIDE DEF found
    <3> QED BY <3>1, <3>2
  <2>2. CASE IndexCocotbXml
    <3> DEFINE found == JUnitEvents(pos, File.failures)
    <3>1. events' = events \cup found
      BY <2>2 DEF IndexCocotbXml
    <3>2. \A e \in found : Classified(e)
      BY EventClassified DEF JUnitEvents, Framework
    <3> HIDE DEF found
    <3> QED BY <3>1, <3>2
  <2>3. CASE ~IndexUvmLog /\ ~IndexCocotbXml
    <3>1. events' = events
      BY <2>3 DEF Next, vars, SkipLog, ResolveEvidencePath, SkipReport, AbortOnReport,
                  IndexCoverageArtifact, Finish
    <3> QED BY <3>1
  <2> QED BY <2>1, <2>2, <2>3
<1> QED BY <1>1 DEF EventsRead

LEMMA AppendedIs ==
    ASSUME NEW V, NEW s \in Seq(V), NEW x
    PROVE  /\ Append(s, x) \in Seq(Range(Append(s, x)))
           /\ \A y \in Range(Append(s, x)) : y \in Range(s) \/ y = x
<1> DEFINE t == Append(s, x)
           n == Len(s)
<1>1. n \in Nat /\ DOMAIN s = 1..n /\ DOMAIN t = 1..(n + 1) /\ t \in Seq(V \cup {x})
  OBVIOUS
<1>2. \A i \in 1..(n + 1) : (t[i] = s[i] /\ i \in 1..n) \/ t[i] = x
  OBVIOUS
<1> HIDE DEF t, n
<1>3. \A i \in 1..(n + 1) : t[i] \in Range(t)
  BY <1>1 DEF Range
<1>4. t \in Seq(Range(t))
  BY <1>1, <1>2, <1>3
<1>5. \A y \in Range(t) : y \in Range(s) \/ y = x
  BY <1>1, <1>2 DEF Range
<1> QED BY <1>4, <1>5 DEF t

LEMMA SummariesStep ==
    ASSUME SummariesRead, work \in Works, pos \in Nat, [Next]_vars
    PROVE  SummariesRead'
<1>1. work' = work /\ pos' \in {pos, pos + 1}
  BY DEF Next, vars, SkipLog, IndexUvmLog, ResolveEvidencePath, IndexCocotbXml, SkipReport,
         AbortOnReport, IndexCoverageArtifact, Finish, NextFile
<1>2. /\ summaries \in Seq(Range(summaries))
      /\ \A s \in Range(summaries) :
            s.file \in Nat /\ s.file < pos /\ SummaryOf(s, work.files[s.file])
  BY DEF SummariesRead
<1>3. CASE IndexCoverageArtifact
  <2> DEFINE new == [file |-> pos, run |-> File.run, kind |-> KindOf(File),
                     metrics |-> ParseMetrics(File)]
  <2>1. summaries' = Append(summaries, new) /\ pos' = pos + 1
    BY <1>3 DEF IndexCoverageArtifact, NextFile
  <2>2. GoodReport(File)
    <3>1. pos \in DOMAIN work.files /\ File.kind = "report" /\ File.body = "ok"
      BY <1>3 DEF IndexCoverageArtifact, Reading
    <3> QED BY <3>1, ReportsAssumption DEF File, GoodReport
  <2>3. new.file = pos /\ SummaryOf(new, work.files[pos])
    BY <2>2 DEF SummaryOf, File
  <2> HIDE DEF new
  <2>4. /\ summaries' \in Seq(Range(summaries'))
        /\ \A s \in Range(summaries') : s \in Range(summaries) \/ s = new
    BY <1>2, <2>1, AppendedIs
  <2>5. \A s \in Range(summaries') :
            s.file \in Nat /\ s.file < pos + 1 /\ SummaryOf(s, work.files[s.file])
    BY <1>2, <2>3, <2>4
  <2> QED BY <1>1, <2>1, <2>4, <2>5 DEF SummariesRead
<1>4. CASE ~IndexCoverageArtifact
  <2>1. summaries' = summaries
    BY <1>4 DEF Next, vars, SkipLog, IndexUvmLog, ResolveEvidencePath, IndexCocotbXml,
                SkipReport, AbortOnReport, Finish
  <2>2. \A s \in Range(summaries) : s.file < pos'
    BY <1>1, <1>2
  <2> QED BY <1>1, <1>2, <2>1, <2>2 DEF SummariesRead
<1> QED BY <1>3, <1>4

\* The metrics a query joins are all of some report.
LEMMA QueryTyped ==
    ASSUME SummariesRead, NEW run
    PROVE  QueryMetrics(summaries, run) \in Seq(Coverages)
<1> DEFINE V == Range(summaries)
           S == {s \in Range(summaries) : run \in {AnyRun, s.run}}
           asked == Among(summaries, S)
           key == [s \in Range(asked) |-> -s.run]
           newest == SortedBy(asked, key)
           lists == [i \in DOMAIN asked |-> newest[i].metrics]
<1>1. \A s \in V : s.run \in Int /\ s.metrics \in Seq(Coverages)
  <2> TAKE s \in V
  <2> DEFINE report == work.files[s.file]
  <2>1. GoodReport(report) /\ s.run = report.run /\ s.metrics = ParseMetrics(report)
    BY DEF SummariesRead, SummaryOf
  <2> HIDE DEF report
  <2>2. ParsedWell(s.metrics, report)
    BY <2>1, ReportRead
  <2>3. s.metrics \in Seq(Metrics) /\ \A m \in Range(s.metrics) : m.covered >= 0
    BY <2>2 DEF ParsedWell
  <2>4. \A i \in 1..Len(s.metrics) : s.metrics[i] \in Coverages
    BY <2>3 DEF Coverages, Range
  <2>5. s.metrics \in Seq(Coverages)
    BY <2>3, <2>4
  <2>6. s.run \in Int
    BY <2>1 DEF GoodReport
  <2> QED BY <2>5, <2>6
<1>2. QueryMetrics(summaries, run) = FlattenSeq(lists)
  BY DEF QueryMetrics
<1>3. summaries \in Seq(V)
  BY DEF SummariesRead
<1> HIDE DEF V, S
<1>4. asked \in Seq(V) /\ Range(asked) \subseteq V
  BY <1>3, AmongIs, EmptySeqIs
<1> HIDE DEF asked
<1>5. \A s \in Range(asked) : key[s] \in Int
  BY <1>1, <1>4
<1> HIDE DEF key
<1>6. newest \in Seq(V) /\ Len(newest) = Len(asked)
  BY <1>4, <1>5, SortedIs
<1> HIDE DEF newest
<1>7. DOMAIN asked = 1..Len(asked) /\ Len(asked) \in Nat
  BY <1>4
<1>8. \A i \in DOMAIN asked : newest[i] \in V
  BY <1>6, <1>7
<1>9. \A i \in DOMAIN asked : newest[i].metrics \in Seq(Coverages)
  BY <1>1, <1>8
<1>10. lists \in Seq(Seq(Coverages))
  BY <1>7, <1>9
<1> HIDE DEF lists
<1> QED BY <1>2, <1>10, Joined

(***************************************************************************)
(* The theorems.                                                           *)
(***************************************************************************)
\* What is kept of each file read so far is what the file alone and the index say.
THEOREM IntakeInductive == Spec => []IInv
<1>1. IInv /\ [Next]_vars => IInv'
  <2> SUFFICES ASSUME IInv, [Next]_vars PROVE IInv'
    OBVIOUS
  <2>1. work \in Works /\ pos \in Nat
    BY DEF IInv, PathsRight, LogsKept
  <2> QED BY <2>1, LogsStep, PathsStep, PlacedStep, EventsStep, SummariesStep DEF IInv
<1> QED BY InitInv, <1>1, PTL DEF Spec

\* Each report of an error or a fatal is one failure of its log, with its severity, however the
\* line is laid out (adapters/uvm_log.py:267).
THEOREM ReportsAreKept == Spec => []EachReportOnce
<1>1. LogsKept => EachReportOnce
  <2> SUFFICES ASSUME LogsKept, NEW t \in tests
               PROVE  LET failing == FailingLines(LinesOf(t)) IN
                      /\ {e.nth : e \in EventsOf(t.file)} = failing
                      /\ \A e, f \in EventsOf(t.file) : e.nth = f.nth => e = f
                      /\ \A e \in EventsOf(t.file) :
                            e.severity = "fatal"
                                <=> LinesOf(t)[e.nth].report.severity = "UVM_FATAL"
    BY DEF EachReportOnce, FailingLines
  <2> DEFINE lines == LinesOf(t)
             EventAt(n) == LET m == MessageOf(lines, n) IN
                 Event(t.file, m.line, m.severity, m.message, m.time_ns,
                       WordPhases[Failures!Words(m.message)], RolesOf(m.component), "uvm")
  <2>1. EventsOf(t.file) = {EventAt(n) : n \in FailingLines(lines)}
    <3>1. EventsOf(t.file) = LogEvents(t.file, FailureMessages(lines))
      BY DEF LogsKept, ParseLog
    <3>2. FailureMessages(lines) = {MessageOf(lines, n) : n \in FailingLines(lines)}
      BY FailureMessagesAre
    <3> QED BY <3>1, <3>2 DEF LogEvents
  <2>2. \A n : /\ EventAt(n).nth = n
               /\ EventAt(n).severity = Failures!NormalizeSeverity(lines[n].report.severity)
    BY DEF Event, MessageOf
  <2>3. \A n \in FailingLines(lines) :
            EventAt(n).severity = "fatal" <=> lines[n].report.severity = "UVM_FATAL"
    BY <2>2 DEF FailingLines, Failing, Failures!NormalizeSeverity
  <2> HIDE DEF lines, EventAt
  <2>4. {e.nth : e \in EventsOf(t.file)} = FailingLines(lines)
    BY <2>1, <2>2
  <2>5. \A e \in EventsOf(t.file) : e = EventAt(e.nth) /\ e.nth \in FailingLines(lines)
    BY <2>1, <2>2
  <2> QED BY <2>3, <2>4, <2>5 DEF lines
<1> QED BY <1>1, IntakeInductive, PTL DEF IInv

\* The status of a log's test and its failures contradict each other only where a line of the
\* log fails it without an error (adapters/uvm_log.py:447).
THEOREM StatusesAgree == Spec => []StatusAgreesWithFailures
<1>1. LogsKept => StatusAgreesWithFailures
  <2> SUFFICES ASSUME LogsKept, NEW t \in tests
               PROVE  LET Says(mark) == Marked(LinesOf(t), mark) IN
                      /\ t.status = "fail" => t.parsed = "fail"
                      /\ t.parsed = "fail" => EventsOf(t.file) # {} \/ Says("failed")
                      /\ t.parsed = "aborted" => ~\E mark \in Marks : Says(mark)
                      /\ t.parsed = "pass" => /\ EventsOf(t.file) = {} /\ ~Says("failed")
                                              /\ \E mark \in {"passed", "complete"} : Says(mark)
    BY DEF StatusAgreesWithFailures
  <2> DEFINE lines == LinesOf(t)
  <2>1. /\ t.parsed = TestStatus(lines)
        /\ t.status = IF FailureMessages(lines) # {} THEN "fail" ELSE "pass"
        /\ EventsOf(t.file) = LogEvents(t.file, FailureMessages(lines))
    BY DEF LogsKept, ParseLog
  <2>2. EventsOf(t.file) # {} <=> FailureMessages(lines) # {}
    BY <2>1 DEF LogEvents
  <2> QED BY <2>1, <2>2, StatusRules DEF Marks
<1> QED BY <1>1, IntakeInductive, PTL DEF IInv

\* A pointer to another machine names an artifact of its name, the nearest; or it is external
\* for want of one, or for an index built for another name (indexing/indexer.py:825).
THEOREM PointersAreFound == Spec => []FoundUnlessIndexedForAnother
<1>1. PathsRight => FoundUnlessIndexedForAnother
  BY DEF PathsRight, Right, RightBy, FoundUnlessIndexedForAnother, Pointing, Artifacts, Called
<1> QED BY <1>1, IntakeInductive, PTL DEF IInv

\* A failure that recurs at another time, in another captured instance, with another severity,
\* has the signature it had: a protocol is not pushed out of the tags by those of a component, and
\* a time left in the message is no part of its summary (taxonomy_engine.py:311,
\* indexing/indexer.py:402, ids.py:360).
THEOREM SignaturesAgree == Spec => []SignatureOfTheReport
<1>1. ASSUME EventsRead, NEW e \in events, NEW f \in events, SameBut("time", e.message, f.message)
      PROVE  e.signature = f.signature
  <2>1. Classified(e) /\ Classified(f)
    BY <1>1 DEF EventsRead
  <2>2. Failures!Words(e.message) = Failures!Words(f.message)
    BY <1>1 DEF SameBut, Failures!Words
  <2>3. Failures!Summary(e.message) = Failures!Summary(f.message)
    BY <1>1 DEF SameBut, Failures!Summary
  <2>4. Failures!Protocol(e.tags) = Failures!Protocol(f.tags)
    <3> DEFINE words == Failures!Words(e.message)
    <3>1. PICK f1 \in {"uvm", "cocotb"} : \E p, r : e.tags = Failures!Tags(words, p, r, f1)
      BY <2>1 DEF Classified
    <3>2. PICK p1, r1 : e.tags = Failures!Tags(words, p1, r1, f1)
      BY <3>1
    <3>3. PICK f2 \in {"uvm", "cocotb"} : \E p, r : f.tags = Failures!Tags(words, p, r, f2)
      BY <2>1, <2>2 DEF Classified
    <3>4. PICK p2, r2 : f.tags = Failures!Tags(words, p2, r2, f2)
      BY <3>3
    <3> QED BY <3>2, <3>4, ProtocolOfTheWords
  <2>5. /\ e.signature = Failures!Signature(e.message, e.tags)
        /\ f.signature = Failures!Signature(f.message, f.tags)
    BY <2>1 DEF Classified
  <2> QED BY <2>2, <2>3, <2>4, <2>5 DEF Failures!Signature
<1>2. ASSUME LogsKept, NEW t \in tests, NEW e \in EventsOf(t.file)
      PROVE  e \in events /\ e.message = Message(LinesOf(t)[e.nth].report)
  <2>1. e \in LogEvents(t.file, FailureMessages(LinesOf(t)))
    BY <1>2 DEF LogsKept, ParseLog
  <2>2. PICK m \in FailureMessages(LinesOf(t)) : e.nth = m.line /\ e.message = m.message
    BY <2>1 DEF LogEvents, Event
  <2>3. PICK n \in FailingLines(LinesOf(t)) : m = MessageOf(LinesOf(t), n)
    BY FailureMessagesAre
  <2>4. m.line = n /\ m.message = Message(LinesOf(t)[n].report)
    BY <2>3 DEF MessageOf
  <2> QED BY <2>2, <2>4 DEF EventsOf
<1>3. EventsRead /\ LogsKept => SignatureOfTheReport
  <2> SUFFICES ASSUME EventsRead, LogsKept PROVE SignatureOfTheReport
    OBVIOUS
  <2>1. \A e, f \in events : SameBut("time", e.message, f.message) => e.signature = f.signature
    BY <1>1
  <2>2. ASSUME NEW t \in tests, NEW u \in tests, NEW e \in EventsOf(t.file),
               NEW f \in EventsOf(u.file),
               PrintedAlike(LinesOf(t)[e.nth].report, LinesOf(u)[f.nth].report)
        PROVE  e.signature = f.signature
    <3>1. SameBut("time", e.message, f.message)
      BY <1>2, <2>2, MessagesAlike
    <3> QED BY <1>2, <2>1, <3>1
  <2> QED BY <2>1, <2>2 DEF SignatureOfTheReport
<1> QED BY <1>3, IntakeInductive, PTL DEF IInv

\* A stored metric is a row of its report, in the layout of its format if there is any, and is
\* never a total that is not applicable (adapters/coverage_reports.py:332).
THEOREM MetricsOfTheReport == Spec => []MetricsAreRead
<1>1. SummariesRead => MetricsAreRead
  <2> SUFFICES ASSUME SummariesRead, NEW s \in Range(summaries)
               PROVE  ReadFrom(s.metrics, work.files[s.file])
    BY DEF MetricsAreRead, ReadFrom, LooseRows
  <2> DEFINE report == work.files[s.file]
  <2>1. GoodReport(report) /\ s.metrics = ParseMetrics(report)
    BY DEF SummariesRead, SummaryOf
  <2> HIDE DEF report
  <2>2. ReadFrom(s.metrics, report)
    BY <2>1, ReportRead DEF ParsedWell
  <2> QED BY <2>2 DEF report
<1> QED BY <1>1, IntakeInductive, PTL DEF IInv

\* An advisory shows the least coverage stored for its scope and name, there is one for each,
\* and what a limit leaves out is no more urgent (normalization/coverage_hints.py:189,
\* normalization/coverage_advisor.py:251).
THEOREM WorstFirst == Spec => []WorstIsAdvised
<1>1. SummariesRead => WorstIsAdvised
  <2> SUFFICES ASSUME SummariesRead, NEW run, NEW name, NEW limit \in Limits
               PROVE  LET given == Advisories(summaries, run, name, AnyProtocol, limit)
                          stored == Range(QueryMetrics(summaries, run))
                          selectable == {m \in stored : /\ name \in {AnyName, m.name} /\ m.covered < 100
                                                        /\ name # AnyName \/ Priority(m) = 1}
                      IN  /\ \A i, j \in DOMAIN given : Same(given[i], given[j]) => i = j
                          /\ \A a \in Range(given), m \in stored : Same(a, m) => a.covered <= m.covered
                          /\ \A m \in selectable, a \in Range(given) :
                                \/ \E b \in Range(given) : Same(b, m)
                                \/ Priority(a) < Priority(m)
                                \/ Priority(a) = Priority(m) /\ a.covered <= m.covered
    BY DEF WorstIsAdvised
  <2>1. limit \in Nat
    BY DEF Limits
  <2>2. QueryMetrics(summaries, run) \in Seq(Coverages)
    BY QueryTyped
  <2> QED BY <2>1, <2>2, AdviceIs
<1> QED BY <1>1, IntakeInductive, PTL DEF IInv

\* The variables hold what the handlers pass on: tags and metrics within their limits, statuses
\* and severities the store knows (indexing/indexer.py:402, adapters/coverage_reports.py:487).
THEOREM IntakeTyped == Spec => []TypeOK
<1>1. IInv => TypeOK
  <2> SUFFICES ASSUME IInv PROVE TypeOK
    OBVIOUS
  <2>1. mode \in {"reading", "done", "stopped"} /\ pos \in 1..(Len(work.files) + 1)
    BY DEF IInv, Placed
  <2>2. pos \in DOMAIN work.files => File.kind = "junit" \/ resolved = << >>
    BY DEF IInv, PathsRight
  <2>3. index = NoIndex \/ index.found \subseteq work.tree
    BY DEF IInv, PathsRight, BuiltFrom, BuildIndex
  <2>4. \A t \in tests : /\ t.file < pos /\ t.name # None /\ t.status \in {"pass", "fail"}
                         /\ t.parsed \in {"pass", "fail", "aborted"}
    <3> TAKE t \in tests
    <3> DEFINE lines == LinesOf(t)
    <3>1. /\ t.file < pos /\ t.parsed = TestStatus(lines)
          /\ t.status = IF FailureMessages(lines) # {} THEN "fail" ELSE "pass"
      BY DEF IInv, LogsKept, ParseLog
    <3>2. TestStatus(lines) \in {"pass", "fail", "aborted"}
      BY StatusRules
    <3> QED BY <3>1, <3>2 DEF IInv, Placed
  <2>5. \A e \in events : e.file < pos /\ e.severity \in {"error", "fatal"} /\ Len(e.tags) <= MaxTags
    <3> TAKE e \in events
    <3>1. Classified(e) /\ e.file < pos
      BY DEF IInv, EventsRead, LogsKept
    <3> DEFINE words == Failures!Words(e.message)
    <3>2. PICK framework \in {"uvm", "cocotb"} : \E phase, roles :
              e.tags = Failures!Tags(words, phase, roles, framework)
      BY <3>1 DEF Classified
    <3>3. PICK phase, roles : e.tags = Failures!Tags(words, phase, roles, framework)
      BY <3>2
    <3>4. Len(Failures!Tags(words, phase, roles, framework)) <= MaxTags
      BY ProtocolPlaces
    <3> QED BY <3>1, <3>3, <3>4 DEF Classified
  <2>6. \A s \in Range(summaries) : s.file < pos /\ Len(s.metrics) <= MaxMetrics
    <3> TAKE s \in Range(summaries)
    <3> DEFINE report == work.files[s.file]
    <3>1. GoodReport(report) /\ s.metrics = ParseMetrics(report) /\ s.file < pos
      BY DEF IInv, SummariesRead, SummaryOf
    <3> HIDE DEF report
    <3> QED BY <3>1, ReportRead DEF ParsedWell
  <2> QED BY <2>1, <2>2, <2>3, <2>4, <2>5, <2>6 DEF TypeOK
<1> QED BY <1>1, IntakeInductive, PTL
=============================================================================
