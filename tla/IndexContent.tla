---------------------------- MODULE IndexContent ----------------------------
(***************************************************************************)
(* The vocabulary of the index: what the adapters hand the indexer for     *)
(* each artifact (a corpus), the identities it derives (ids.py), and, as a *)
(* reference definition, the runs, tests and failures a corpus means.      *)
(*                                                                         *)
(* Text is abstracted to what the identities tell apart: a name, a         *)
(* summary, a message, a path or a CI build is a member of a set, and a    *)
(* generated id is the record of the fields it hashes.                     *)
(***************************************************************************)
EXTENDS Naturals, Sequences, FiniteSets

CONSTANTS
    Paths,       \* artifact paths relative to their root
    Builds,      \* Jenkins (job, build) pairs an artifact path can name
    None,        \* no CI build, no resolved test, an empty column
    Names,       \* normalized test names
    Seeds,       \* simulation seeds (with a member for "none")
    Summaries,   \* (severity, category, summary) triples of a failure
    Refs,        \* normalized evidence references
    Defs,        \* assertion definitions: (name, scope, file, line)
    DefName,     \* the assertion name of each definition
    AssertNames, \* names an assertion failure or an SVA entry can carry
    Messages,    \* assertion failure messages
    Rank,        \* Rank[q, n]: 0 n = q, 1 n ends in ".q", 2 n contains q, 3 neither
    Adapters,    \* the adapters the configuration enables
    Corpora      \* the artifact sets the roots can hold

Frameworks == {"uvm", "cocotb"}
AnyFramework == "any"
Statuses == {"pass", "fail"}

(***************************************************************************)
(* Artifacts, as parsed. `body` says how the file reads: "ok", "oversize"  *)
(* (over max_artifact_bytes, or stat fails), "empty" (nothing to index),   *)
(* "malformed" (its parser raises what the handler catches) or "uncaught"  *)
(* (what it does not catch). Lists are in the order of the file, and a     *)
(* corpus lists its files in sorted path order, as the scans do.           *)
(***************************************************************************)
Bodies == {"ok", "oversize", "empty", "malformed", "uncaught"}

Testcases == [name : Names, status : Statuses, seed : Seeds]
Occurrences == [name : Names, summary : Summaries, occ : Nat, refs : Seq(Refs)]
AssertionEvents == [name : AssertNames, message : Messages]

ResultFiles ==
    [kind     : Frameworks,
     path     : Paths,
     build    : Builds \cup {None},
     body     : Bodies,
     verdict  : {"pass", "fail", "aborted"},   \* the UVM parser's own test status
     topology : BOOLEAN,
     cases    : Seq(Testcases),
     fails    : Seq(Occurrences),
     asserts  : Seq(AssertionEvents)]

WaveFiles == [path : Paths, body : Bodies \ {"uncaught"}, test : Names,
              framework : Frameworks \cup {AnyFramework}]

AssertFiles == [path : Paths, body : Bodies, test : Names,
                defs : Seq(Defs), fails : Seq(AssertionEvents)]

CoverageFiles == [path : Paths, body : Bodies, test : Names,
                  build : Builds \cup {None}]

SvaEntries == [name : AssertNames, ok : BOOLEAN]
SvaFiles == [path : Paths, body : Bodies, test : Names,
             entries : Seq(SvaEntries)]

CorpusType ==
    [results : Seq(ResultFiles), waves : Seq(WaveFiles), asserts : Seq(AssertFiles),
     coverage : Seq(CoverageFiles), sva : Seq(SvaFiles)]

ASSUME CorporaTyped == Corpora \subseteq CorpusType

\* What the parsers guarantee of a results file. A UVM log is one test, and its
\* failures are that test's. A JUnit file has a failure for each failing testcase and
\* for no other, under the testcase's name.
ASSUME CorporaParsed ==
    \A c \in Corpora : \A p \in DOMAIN c.results :
        LET f == c.results[p] IN
        f.body = "ok" =>
            /\ f.cases # << >>
            /\ \A k \in DOMAIN f.fails :
                   \E i \in DOMAIN f.cases :
                       /\ f.cases[i].name = f.fails[k].name
                       /\ f.kind = "cocotb" => f.cases[i].status = "fail"
            /\ f.kind = "cocotb" =>
                   \A i \in DOMAIN f.cases : f.cases[i].status = "fail" =>
                       \E k \in DOMAIN f.fails : f.fails[k].name = f.cases[i].name

ASSUME RankAssumption ==
    /\ DefName \in [Defs -> AssertNames]
    /\ Rank \in [Names \X Names -> 0..3]
    /\ \A q, n \in Names : Rank[q, n] = 0 <=> q = n

(***************************************************************************)
(* Identities.                                                             *)
(***************************************************************************)
RunIds == [by : {"manifest"}, key : Paths] \cup [by : {"ci"}, key : Builds]

\* A CI build names the run when the caller passes CI metadata; otherwise the artifact's
\* own (path, hash) manifest does.
RunIdOf(path, build) ==
    IF build = None THEN [by |-> "manifest", key |-> path]
                       ELSE [by |-> "ci", key |-> build]

\* The UVM handler passes only the manifest, whatever CI build the path names.
RunOf(f) == RunIdOf(f.path, IF f.kind = "uvm" THEN None ELSE f.build)

\* The indexer passes (run, framework, name) and neither seed nor simulator.
TestIds == [run : RunIds, framework : Frameworks, name : Names]
ASSUME NoneAssumption == None \notin TestIds
TestIdOf(f, i) == [run |-> RunOf(f), framework |-> f.kind, name |-> f.cases[i].name]

\* The indexer passes (test, severity, category, summary) and no component, phase, time
\* or evidence.
FailureIds == [test : TestIds, summary : Summaries]
FailureIdOf(t, e) == [test |-> t, summary |-> e.summary]

\* A correlated assertion is its definition; an uncorrelated one is synthesized from the
\* test and the message.
AssertionIds == [def : Defs] \cup [test : TestIds, message : Messages]

(***************************************************************************)
(* Classification of a results file.                                       *)
(***************************************************************************)
Indexed(f) == f.kind \in Adapters /\ f.body = "ok"

RunFailsByVerdict(f) == \* mutant: the parser's verdict instead of its failures
    IF f.kind = "uvm" THEN f.verdict # "pass"
                      ELSE \E i \in DOMAIN f.cases : f.cases[i].status = "fail"
RunFailsByLast(f) == \* mutant: the status of the last testcase
    IF f.kind = "uvm" THEN f.fails # << >> ELSE f.cases[Len(f.cases)].status = "fail"

\* A UVM log's run and test fail when the log has failures, whatever the parser's own
\* verdict; a JUnit file's run fails when one of its testcases does.
RunFails(f) ==
    IF f.kind = "uvm" THEN f.fails # << >>
                      ELSE \E i \in DOMAIN f.cases : f.cases[i].status = "fail"

FileStatusByVerdict(f) == IF f.kind = "uvm" THEN f.verdict ELSE "pass" \* mutant
FileStatus(f) == IF RunFails(f) THEN "fail" ELSE "pass"
CaseStatus(f, i) == IF f.kind = "uvm" THEN FileStatus(f) ELSE f.cases[i].status

\* failures_by_test: every failure of the file under the testcase's name.
FailuresOf(f, i) == {k \in DOMAIN f.fails : f.fails[k].name = f.cases[i].name}

(***************************************************************************)
(* The reference: what a corpus means, stated without the pass. A test row *)
(* is the last testcase of its id, a failure row the last occurrence of    *)
(* its id, and a run fails when any file of it does.                       *)
(***************************************************************************)
Before(x, y) == \* lexicographic order on tuples of equal length
    \E d \in DOMAIN x : x[d] < y[d] /\ \A e \in 1..(d - 1) : x[e] = y[e]

LastOf(S) == CHOOSE x \in S : \A y \in S \ {x} : Before(y, x)

CasesOf(c) ==
    UNION {{<<p, i>> : i \in DOMAIN c.results[p].cases} :
              p \in {q \in DOMAIN c.results : Indexed(c.results[q])}}

OccurrencesOf(c) ==
    UNION {{<<x[1], x[2], k>> : k \in FailuresOf(c.results[x[1]], x[2])} : x \in CasesOf(c)}

TestAt(c, x) == TestIdOf(c.results[x[1]], x[2])
FailureAt(c, x) == FailureIdOf(TestAt(c, x), c.results[x[1]].fails[x[3]])

ExpectedTests(c) ==
    LET row(t) == LET x == LastOf({y \in CasesOf(c) : TestAt(c, y) = t})
                  IN  [id |-> t, status |-> CaseStatus(c.results[x[1]], x[2]),
                       seed |-> c.results[x[1]].cases[x[2]].seed, at |-> x[1]]
    IN  {row(t) : t \in {TestAt(c, x) : x \in CasesOf(c)}}

ExpectedFailures(c) ==
    LET row(g) == LET x == LastOf({y \in OccurrencesOf(c) : FailureAt(c, y) = g})
                  IN  [id |-> g, run |-> g.test.run, occ |-> c.results[x[1]].fails[x[3]].occ]
    IN  {row(g) : g \in {FailureAt(c, x) : x \in OccurrencesOf(c)}}

\* A coverage file whose test name matches no indexed test has a run of its own.
OrphanCoverage(c) ==
    {v \in DOMAIN c.coverage :
        /\ "coverage" \in Adapters
        /\ c.coverage[v].body = "ok"
        /\ \A t \in ExpectedTests(c) : Rank[c.coverage[v].test, t.id.name] = 3}

ExpectedRuns(c) ==
    LET files == {p \in DOMAIN c.results : Indexed(c.results[p])}
        failing == {RunOf(c.results[p]) : p \in {q \in files : RunFails(c.results[q])}}
        ids == {RunOf(c.results[p]) : p \in files}
                 \cup {RunIdOf(c.coverage[v].path, c.coverage[v].build) : v \in OrphanCoverage(c)}
    IN  {[id |-> r, status |-> IF r \in failing THEN "fail" ELSE "pass"] : r \in ids}

Content(c) == [runs |-> ExpectedRuns(c), tests |-> ExpectedTests(c),
               failures |-> ExpectedFailures(c)]

=============================================================================
