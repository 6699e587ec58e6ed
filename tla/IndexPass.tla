----------------------------- MODULE IndexPass -----------------------------
(***************************************************************************)
(* ArtifactIndexer.index_all over an autocommitting IndexStore.            *)
(*                                                                         *)
(* One action per store statement: the connection is opened without a      *)
(* transaction, so every statement is durable by itself and a process that *)
(* stops, stops between two of them. A pass walks its phases in order and  *)
(* the files of each phase in path order; `phase`, `pos`, `stage`, `item`, *)
(* `left` and `ref` are the loops' positions, `target` the test a          *)
(* correlating handler resolved.                                           *)
(*                                                                         *)
(* Tables are sets of rows, or sequences when the row id comes from a      *)
(* sequence. `whole` is a history variable: the artifacts of the pass that *)
(* filled this database to its end, or None.                               *)
(***************************************************************************)
EXTENDS IndexContent

VARIABLES
    corpus,      \* the artifacts on disk
    scan,        \* the artifacts the current (or last) pass found
    phase, pos, stage, item, left, ref, target,
    db,          \* the database file: "absent" or "present"
    whole,       \* what the database is the complete index of, or None
    runs, tests, topologies, failures, evidence,
    assertions, assertion_failures, waveforms, coverage, sva

cursor == <<phase, pos, stage, item, left, ref, target>>
results == <<runs, tests, topologies, failures>>
correlated == <<assertions, assertion_failures, waveforms, coverage, sva>>
tables == <<results, evidence, correlated>>
vars == <<corpus, scan, cursor, db, whole, tables>>

Phases == {"results", "waves", "assertions", "log_assertions", "coverage", "sva"}
PhaseAfter == [results |-> "waves", waves |-> "assertions", assertions |-> "log_assertions",
               log_assertions |-> "coverage", coverage |-> "sva", sva |-> "close"]

\* The worklist of a phase, empty when the configuration disables it.
Work(ph) ==
    LET enabled(names, list) == IF names \subseteq Adapters THEN list ELSE << >> IN
    CASE ph = "results" -> scan.results
      [] ph = "waves" -> enabled({"waveform_summary"}, scan.waves)
      [] ph = "assertions" -> enabled({"assertions"}, scan.asserts)
      [] ph = "log_assertions" -> enabled({"assertions", "uvm"}, scan.results)
      [] ph = "coverage" -> enabled({"coverage"}, scan.coverage)
      [] ph = "sva" -> scan.sva

Running == phase # "idle"
Opening(ph) == phase = ph /\ stage = "open" /\ pos \in DOMAIN Work(ph)
At(ph, st) == phase = ph /\ stage = st
File == Work(phase)[pos]

(***************************************************************************)
(* The store's statements.                                                 *)
(***************************************************************************)
RowsWith(table, id) == {r \in table : r.id = id}

\* INSERT ... ON CONFLICT (id) DO UPDATE, and INSERT OR REPLACE
Upsert(table, row) == {r \in table : r.id # row.id} \cup {row}

UpsertRunBlind(id, status) == \* mutant: the newest status wins
    runs' = Upsert(runs, [id |-> id, status |-> status])

\* _upsert_run followed, for a new run, by insert_run: one run row either way, and a run
\* that has failed stays failed.
UpsertRun(id, status) ==
    runs' = Upsert(runs, [id |-> id,
                          status |-> IF \E r \in RowsWith(runs, id) : r.status = "fail"
                                     THEN "fail" ELSE status])

AddEvidence(owner, e) == evidence' = evidence \cup {[owner |-> owner, ref |-> e]}

FailureOwner(id) == [kind |-> "failure", id |-> id]
RowOwner(kind, n) == [kind |-> kind, id |-> n]

\* find_test_by_name: the best-ranked match, then the latest indexed; a tie is broken by
\* the smallest hash, an arbitrary but fixed choice.
Matches(q, framework) ==
    {t \in tests : Rank[q, t.id.name] < 3 /\ framework \in {AnyFramework, t.id.framework}}

LatestMatches(q, framework) == \* mutant: ORDER BY created_at alone
    {t \in Matches(q, framework) : \A u \in Matches(q, framework) : t.at >= u.at}

BestMatches(q, framework) ==
    {t \in Matches(q, framework) : \A u \in Matches(q, framework) :
        \/ Rank[q, t.id.name] < Rank[q, u.id.name]
        \/ Rank[q, t.id.name] = Rank[q, u.id.name] /\ t.at >= u.at}

FindTestByName(q, framework) ==
    IF BestMatches(q, framework) = {} THEN None
    ELSE (CHOOSE t \in BestMatches(q, framework) : TRUE).id

FindTestHinted(q, framework) == FindTestByName(q, framework) \* mutant: no second lookup

\* The framework's tests first, then any test.
FindTest(q, framework) ==
    LET hinted == FindTestByName(q, framework)
    IN  IF hinted = None THEN FindTestByName(q, AnyFramework) ELSE hinted

\* _resolve_test_context: a test whose run is missing resolves to nothing.
ResolveTest(q, framework) ==
    LET t == FindTest(q, framework)
    IN  IF t # None /\ RowsWith(runs, t.run) # {} THEN t ELSE None

(***************************************************************************)
(* Moving the cursor.                                                      *)
(***************************************************************************)
Goto(ph, p, st, i, l) ==
    /\ phase' = ph /\ pos' = p /\ stage' = st /\ item' = i /\ left' = l
    /\ ref' = 1

Open(ph, p) == Goto(ph, p, "open", 1, {}) /\ target' = None
NextFile == Open(phase, pos + 1)
Stay(st, i, l) == Goto(phase, pos, st, i, l) /\ UNCHANGED target
Least(S) == {x \in S : \A y \in S : x <= y}
Greatest(S) == {x \in S : \A y \in S : x >= y}

(***************************************************************************)
(* A pass: scan, drop the old database, open a new one, the phases, close. *)
(***************************************************************************)
Init ==
    /\ corpus \in Corpora
    /\ scan = corpus
    /\ phase = "idle" /\ pos = 1 /\ stage = "open" /\ item = 1 /\ left = {} /\ ref = 1
    /\ target = None
    /\ db = "absent"
    /\ whole = None
    /\ runs = {} /\ tests = {} /\ topologies = {} /\ failures = {} /\ evidence = {}
    /\ assertions = {} /\ waveforms = {}
    /\ assertion_failures = << >> /\ coverage = << >> /\ sva = << >>

\* Simulations export a different artifact set. (A file rewritten under a running pass
\* is not modelled: the pass reads what the scan saw.)
Export ==
    /\ phase = "idle"
    /\ corpus' \in Corpora
    /\ UNCHANGED <<scan, cursor, db, whole, tables>>

Scan ==
    /\ phase = "idle"
    /\ scan' = corpus
    /\ Open("unlink", 1)
    /\ UNCHANGED <<corpus, db, whole, tables>>

UnlinkNothing == \* mutant: the rebuild starts from the old database
    /\ phase = "unlink"
    /\ db' = "absent" /\ whole' = None
    /\ Open("connect", 1)
    /\ UNCHANGED <<corpus, scan, tables>>

\* The old database goes before anything is known of the new one.
Unlink ==
    /\ phase = "unlink"
    /\ db' = "absent"
    /\ whole' = None
    /\ runs' = {} /\ tests' = {} /\ topologies' = {} /\ failures' = {} /\ evidence' = {}
    /\ assertions' = {} /\ waveforms' = {}
    /\ assertion_failures' = << >> /\ coverage' = << >> /\ sva' = << >>
    /\ Open("connect", 1)
    /\ UNCHANGED <<corpus, scan>>

\* Creates the file, its schema and meta.schema_version.
Connect ==
    /\ phase = "connect"
    /\ db' = "present"
    /\ Open("results", 1)
    /\ UNCHANGED <<corpus, scan, whole, tables>>

NextPhase ==
    /\ phase \in Phases /\ stage = "open" /\ pos \notin DOMAIN Work(phase)
    /\ Open(PhaseAfter[phase], 1)
    /\ UNCHANGED <<corpus, scan, db, whole, tables>>

\* The counters are read back from the tables, and the connection closes.
Close ==
    /\ phase = "close"
    /\ whole' = scan
    /\ Open("idle", 1)
    /\ UNCHANGED <<corpus, scan, db, tables>>

\* What was committed stays; nothing says the database is incomplete.
Stop ==
    /\ Open("idle", 1)
    /\ UNCHANGED <<corpus, scan, db, whole, tables>>

Crash == Running /\ Stop

(***************************************************************************)
(* Files a handler returns from, and files that end the pass.              *)
(***************************************************************************)
Raises ==
    /\ phase \in {"results", "assertions", "coverage", "sva"} /\ File.body = "uncaught"
    /\ phase = "results" => File.kind \in Adapters

Handled ==
    CASE phase = "results" -> File.kind \in Adapters /\ File.body = "ok"
      [] phase = "waves" -> File.body = "ok" /\ FindTest(File.test, File.framework) # None
      [] phase = "assertions" -> File.body = "ok" /\ ResolveTest(File.test, "cocotb") # None
      [] phase = "log_assertions" ->
            /\ File.kind = "uvm" /\ File.body = "ok" /\ File.asserts # << >>
            /\ ResolveTest(File.cases[1].name, "uvm") # None
      [] phase \in {"coverage", "sva"} -> File.body = "ok"

SkipFileEnds == \* mutant: a skipped file ends the pass
    /\ phase \in Phases /\ Opening(phase)
    /\ ~Handled /\ ~Raises
    /\ Stop

SkipFile ==
    /\ phase \in Phases /\ Opening(phase)
    /\ ~Handled /\ ~Raises
    /\ NextFile
    /\ UNCHANGED <<corpus, scan, db, whole, tables>>

\* What parse_junit_xml and parse_log raise no handler catches. What the parsers of assertion
\* and coverage reports and of SVA statuses raise is caught, if it is not that an XML does not
\* parse or that a JSON is made of other things than expected. The pass ends.
AbortOnFile ==
    /\ phase \in Phases /\ Opening(phase)
    /\ Raises
    /\ Stop

(***************************************************************************)
(* Phase "results": UVM logs and JUnit files.                              *)
(***************************************************************************)
OpenResults(kind) ==
    /\ Opening("results")
    /\ File.kind = kind /\ Indexed(File)
    /\ UpsertRun(RunOf(File), FileStatus(File))
    /\ Stay("test", 1, {})
    /\ UNCHANGED <<corpus, scan, db, whole, tests, topologies, failures, evidence, correlated>>

IndexUvmLog == OpenResults("uvm")
IndexCocotbXml == OpenResults("cocotb")

\* created_at is sampled once a file, so it orders tests by the position of their file.
InsertTest ==
    /\ At("results", "test")
    /\ tests' = Upsert(tests, [id |-> TestIdOf(File, item), status |-> CaseStatus(File, item),
                               seed |-> File.cases[item].seed, at |-> pos])
    /\ Stay(IF File.kind = "uvm" /\ File.topology THEN "topology" ELSE "failure",
            item, FailuresOf(File, item))
    /\ UNCHANGED <<corpus, scan, db, whole, runs, topologies, failures, evidence, correlated>>

InsertTopology ==
    /\ At("results", "topology")
    /\ topologies' = topologies \cup {TestIdOf(File, item)}
    /\ Stay("failure", item, left)
    /\ UNCHANGED <<corpus, scan, db, whole, runs, tests, failures, evidence, correlated>>

\* The failure row, then its evidence: three kinds of statement.
FailureIdAt(k) == FailureIdOf(TestIdOf(File, item), File.fails[k])

InsertFailure ==
    /\ At("results", "failure")
    /\ \E k \in Least(left) :
          failures' = Upsert(failures, [id |-> FailureIdAt(k), run |-> RunOf(File),
                                        occ |-> File.fails[k].occ])
    /\ Stay("purge", item, left)
    /\ UNCHANGED <<corpus, scan, db, whole, runs, tests, topologies, evidence, correlated>>

DeleteNoEvidence == \* mutant: the replaced occurrence's evidence stays
    /\ At("results", "purge")
    /\ Stay("evidence", item, left)
    /\ UNCHANGED <<corpus, scan, db, whole, tables>>

DeleteEvidence ==
    /\ At("results", "purge")
    /\ \E k \in Least(left) :
          evidence' = {e \in evidence : e.owner # FailureOwner(FailureIdAt(k))}
    /\ Stay("evidence", item, left)
    /\ UNCHANGED <<corpus, scan, db, whole, results, correlated>>

InsertEvidence ==
    /\ At("results", "evidence")
    /\ \E k \in Least(left) :
          /\ ref \in DOMAIN File.fails[k].refs
          /\ AddEvidence(FailureOwner(FailureIdAt(k)), File.fails[k].refs[ref])
    /\ ref' = ref + 1
    /\ UNCHANGED <<corpus, scan, phase, pos, stage, item, left, target, db, whole,
                   results, correlated>>

EndFailure ==
    /\ At("results", "evidence")
    /\ \E k \in Least(left) :
          /\ ref \notin DOMAIN File.fails[k].refs
          /\ Stay("failure", item, left \ {k})
    /\ UNCHANGED <<corpus, scan, db, whole, tables>>

EndTest ==
    /\ At("results", "failure") /\ left = {}
    /\ IF item < Len(File.cases) THEN Stay("test", item + 1, {}) ELSE NextFile
    /\ UNCHANGED <<corpus, scan, db, whole, tables>>

(***************************************************************************)
(* Phase "waves": one row a test, the last file wins.                      *)
(***************************************************************************)
IndexWaveformSummary ==
    /\ Opening("waves")
    /\ File.body = "ok"
    /\ LET t == FindTest(File.test, File.framework) IN
          /\ t # None
          /\ waveforms' = Upsert(waveforms, [id |-> t, src |-> File.path])
    /\ NextFile
    /\ UNCHANGED <<corpus, scan, db, whole, results, evidence, assertions,
                   assertion_failures, coverage, sva>>

(***************************************************************************)
(* Phases "assertions" and "log_assertions": a bundle of definitions and   *)
(* failures is stored for the resolved test. A log carries failures only.  *)
(***************************************************************************)
ResolveBundle(test, framework) ==
    LET t == ResolveTest(test, framework) IN
    /\ t # None
    /\ Goto(phase, pos, "bundle", 1, {}) /\ target' = t
    /\ UNCHANGED <<corpus, scan, db, whole, tables>>

IndexAssertionArtifact ==
    /\ Opening("assertions")
    /\ File.body = "ok"
    /\ ResolveBundle(File.test, "cocotb")

IndexLogAssertions ==
    /\ Opening("log_assertions")
    /\ File.kind = "uvm" /\ File.body = "ok" /\ File.asserts # << >>
    /\ ResolveBundle(File.cases[1].name, "uvm")

BundleDefs == IF phase = "assertions" THEN File.defs ELSE << >>
BundleEvents == IF phase = "assertions" THEN File.fails ELSE File.asserts
Event == item - Len(BundleDefs)   \* the failure `item` stands for, once past the definitions

\* name_to_id at failure k: the last definition of its name, or else the assertion
\* synthesized for the first failure of that name.
DefsNamed(name) == {d \in DOMAIN BundleDefs : DefName[BundleDefs[d]] = name}
Namesakes(k) == {m \in 1..k : BundleEvents[m].name = BundleEvents[k].name}
AssertionOf(k) ==
    IF DefsNamed(BundleEvents[k].name) # {}
    THEN {[def |-> BundleDefs[d]] : d \in Greatest(DefsNamed(BundleEvents[k].name))}
    ELSE {[test |-> target, message |-> BundleEvents[m].message] : m \in Least(Namesakes(k))}

Unmatched(k) == DefsNamed(BundleEvents[k].name) = {} /\ Namesakes(k) = {k}

InsertAssertion ==
    /\ stage = "bundle" /\ item \in DOMAIN BundleDefs
    /\ assertions' = assertions \cup {[def |-> BundleDefs[item]]}
    /\ Stay("bundle", item + 1, {})
    /\ UNCHANGED <<corpus, scan, db, whole, results, evidence, assertion_failures,
                   waveforms, coverage, sva>>

InsertUnknownAssertion ==
    /\ stage = "bundle" /\ Event \in DOMAIN BundleEvents /\ Unmatched(Event)
    /\ assertions' = assertions \cup AssertionOf(Event)
    /\ Stay("event", item, {})
    /\ UNCHANGED <<corpus, scan, db, whole, results, evidence, assertion_failures,
                   waveforms, coverage, sva>>

InsertAssertionFailure ==
    /\ \/ stage = "event"
       \/ stage = "bundle" /\ Event \in DOMAIN BundleEvents /\ ~Unmatched(Event)
    /\ \E a \in AssertionOf(Event) :
          assertion_failures' =
              Append(assertion_failures,
                     [assertion |-> a, test |-> target, run |-> target.run, src |-> File.path,
                      message |-> BundleEvents[Event].message])
    /\ Stay("event_evidence", item, {})
    /\ UNCHANGED <<corpus, scan, db, whole, results, evidence, assertions,
                   waveforms, coverage, sva>>

InsertAssertionEvidence ==
    /\ stage = "event_evidence"
    /\ AddEvidence(RowOwner("assertion_failure", Len(assertion_failures)), File.path)
    /\ Stay("bundle", item + 1, {})
    /\ UNCHANGED <<corpus, scan, db, whole, results, correlated>>

EndBundle ==
    /\ stage = "bundle" /\ item > Len(BundleDefs) + Len(BundleEvents)
    /\ NextFile
    /\ UNCHANGED <<corpus, scan, db, whole, tables>>

(***************************************************************************)
(* Phase "coverage": a summary joins its test's run, or a passing run of   *)
(* its own.                                                                *)
(***************************************************************************)
IndexCoverageRunless == \* mutant: the run of an orphan summary is not written
    /\ Opening("coverage") /\ File.body = "ok"
    /\ Goto(phase, pos, "summary", 1, {}) /\ target' = ResolveTest(File.test, "cocotb")
    /\ UNCHANGED <<corpus, scan, db, whole, tables>>

IndexCoverageArtifact ==
    /\ Opening("coverage")
    /\ File.body = "ok"
    /\ LET t == ResolveTest(File.test, "cocotb") IN
          /\ IF t = None THEN UpsertRun(RunIdOf(File.path, File.build), "pass")
                         ELSE UNCHANGED runs
          /\ Goto(phase, pos, "summary", 1, {}) /\ target' = t
    /\ UNCHANGED <<corpus, scan, db, whole, tests, topologies, failures, evidence, correlated>>

InsertCoverageSummary ==
    /\ At("coverage", "summary")
    /\ coverage' = Append(coverage,
           [run |-> IF target = None THEN RunIdOf(File.path, File.build) ELSE target.run,
            test |-> target, src |-> File.path])
    /\ Stay("summary_evidence", item, {})
    /\ UNCHANGED <<corpus, scan, db, whole, results, evidence, assertions,
                   assertion_failures, waveforms, sva>>

InsertCoverageEvidence ==
    /\ At("coverage", "summary_evidence")
    /\ AddEvidence(RowOwner("coverage", Len(coverage)), File.path)
    /\ NextFile
    /\ UNCHANGED <<corpus, scan, db, whole, results, correlated>>

(***************************************************************************)
(* Phase "sva": a row an entry; the assertion is any one of its name, and  *)
(* is looked up only when the test resolved. A count that is not a number  *)
(* ends the pass.                                                          *)
(***************************************************************************)
IndexSvaStatusArtifact ==
    /\ Opening("sva")
    /\ File.body = "ok"
    /\ Goto(phase, pos, "entry", 1, {})
    /\ target' = ResolveTest(File.test, AnyFramework)
    /\ UNCHANGED <<corpus, scan, db, whole, tables>>

AssertionsNamed(name) ==
    {a \in assertions : a \in [def : Defs] /\ DefName[a.def] = name}

InsertSvaRunStatus ==
    /\ At("sva", "entry") /\ item \in DOMAIN File.entries /\ File.entries[item].ok
    /\ LET named == IF target = None THEN {} ELSE AssertionsNamed(File.entries[item].name) IN
       \E a \in IF named = {} THEN {None} ELSE named :
          sva' = Append(sva, [assertion |-> a, test |-> target,
                              run |-> IF target = None THEN None ELSE target.run,
                              src |-> File.path])
    /\ Stay("entry", item + 1, {})
    /\ UNCHANGED <<corpus, scan, db, whole, results, evidence, assertions,
                   assertion_failures, waveforms, coverage>>

AbortOnSva ==
    /\ At("sva", "entry") /\ item \in DOMAIN File.entries /\ ~File.entries[item].ok
    /\ Stop

EndSva ==
    /\ At("sva", "entry") /\ item \notin DOMAIN File.entries
    /\ NextFile
    /\ UNCHANGED <<corpus, scan, db, whole, tables>>

(***************************************************************************)
(* The specification.                                                      *)
(***************************************************************************)
IndexResults ==
    \/ IndexUvmLog \/ IndexCocotbXml \/ InsertTest \/ InsertTopology
    \/ InsertFailure \/ DeleteEvidence \/ InsertEvidence \/ EndFailure \/ EndTest

Correlate ==
    \/ IndexWaveformSummary
    \/ IndexAssertionArtifact \/ IndexLogAssertions \/ InsertAssertion
    \/ InsertUnknownAssertion \/ InsertAssertionFailure \/ InsertAssertionEvidence \/ EndBundle
    \/ IndexCoverageArtifact \/ InsertCoverageSummary \/ InsertCoverageEvidence
    \/ IndexSvaStatusArtifact \/ InsertSvaRunStatus \/ EndSva

\* What the indexer process does by itself once started.
Proceed ==
    \/ Unlink \/ Connect \/ NextPhase \/ SkipFile \/ Close
    \/ AbortOnFile \/ AbortOnSva
    \/ IndexResults \/ Correlate

Next == Export \/ Scan \/ Crash \/ Proceed

Spec == Init /\ [][Next]_vars

\* The process is scheduled: nothing in a pass waits for anything outside it.
FairSpec == Spec /\ WF_vars(Proceed)

\* Reruns over artifacts that do not change.
SameArtifactsSpec == Init /\ [][Scan \/ Crash \/ Proceed]_vars /\ WF_vars(Proceed)

(***************************************************************************)
(* Properties.                                                             *)
(***************************************************************************)
RunRows == [id : RunIds, status : Statuses]
TestRows == [id : TestIds, status : Statuses, seed : Seeds, at : Nat]
FailureRows == [id : FailureIds, run : RunIds, occ : Nat]
EvidenceRows == [owner : [kind : {"failure"}, id : FailureIds]
                           \cup [kind : {"assertion_failure", "coverage"}, id : Nat],
                 ref : Refs \cup Paths]
AssertionFailureRows == [assertion : AssertionIds, test : TestIds, run : RunIds,
                         src : Paths, message : Messages]
CoverageRows == [run : RunIds, test : TestIds \cup {None}, src : Paths]
SvaRows == [assertion : AssertionIds \cup {None}, test : TestIds \cup {None},
            run : RunIds \cup {None}, src : Paths]

StagesOf(ph) ==
    CASE ph = "results" -> {"open", "test", "topology", "failure", "purge", "evidence"}
      [] ph \in {"assertions", "log_assertions"} -> {"open", "bundle", "event", "event_evidence"}
      [] ph = "coverage" -> {"open", "summary", "summary_evidence"}
      [] ph = "sva" -> {"open", "entry"}
      [] OTHER -> {"open"}

\* The tables hold rows of their schema and the cursor stays inside the program.
TypeOK ==
    /\ corpus \in Corpora /\ scan \in Corpora
    /\ phase \in {"idle", "unlink", "connect", "close"} \cup Phases
    /\ stage \in StagesOf(phase)
    /\ pos \in Nat \ {0} /\ item \in Nat \ {0} /\ ref \in Nat \ {0}
    /\ left \subseteq Nat
    /\ target \in TestIds \cup {None}
    /\ db \in {"absent", "present"} /\ whole \in Corpora \cup {None}
    /\ runs \subseteq RunRows /\ tests \subseteq TestRows
    /\ topologies \subseteq TestIds /\ failures \subseteq FailureRows
    /\ evidence \subseteq EvidenceRows
    /\ assertions \subseteq AssertionIds
    /\ assertion_failures \in Seq(AssertionFailureRows)
    /\ waveforms \subseteq [id : TestIds, src : Paths]
    /\ coverage \in Seq(CoverageRows) /\ sva \in Seq(SvaRows)

Ids(table) == {r.id : r \in table}

\* The schema declares no foreign key, and a pass may stop between any two statements:
\* still, every row a reader can find names rows that are there.
ResultsResolve ==
    /\ \A t \in tests : t.id.run \in Ids(runs)
    /\ topologies \subseteq Ids(tests)
    /\ \A f \in failures : f.id.test \in Ids(tests) /\ f.run = f.id.test.run

CorrelationsResolve ==
    /\ \A w \in waveforms : w.id \in Ids(tests)
    /\ \A n \in DOMAIN assertion_failures :
          LET a == assertion_failures[n] IN
          a.assertion \in assertions /\ a.test \in Ids(tests) /\ a.run = a.test.run
    /\ \A n \in DOMAIN coverage :
          LET v == coverage[n] IN
          /\ v.run \in Ids(runs)
          /\ v.test # None => v.test \in Ids(tests) /\ v.run = v.test.run
    /\ \A n \in DOMAIN sva :
          /\ sva[n].assertion # None => sva[n].assertion \in assertions
          /\ sva[n].test # None => sva[n].test \in Ids(tests)

EvidenceResolves ==
    \A e \in evidence :
        CASE e.owner.kind = "failure" -> e.owner.id \in Ids(failures)
          [] e.owner.kind = "assertion_failure" -> e.owner.id \in DOMAIN assertion_failures
          [] e.owner.kind = "coverage" -> e.owner.id \in DOMAIN coverage

ReferencesResolve == ResultsResolve /\ CorrelationsResolve /\ EvidenceResolves

\* A run is never shown as passing while the index holds a failing test or a failure of
\* it, however its files are merged, ordered or cut short: the run row is written first,
\* and neither a later passing file nor a coverage file of the same build clears it.
FailedRunNeverPasses ==
    \A r \in runs : r.status = "pass" =>
        /\ \A t \in tests : t.id.run = r.id => t.status = "pass"
        /\ \A f \in failures : f.run # r.id

\* Inside a handler the cursor is inside a file of the phase, and what the handler wrote
\* first is there: in a results file, the file's run row, failed if the file fails, and,
\* past its first statement, the row of the testcase.
InResultsFile ==
    /\ Indexed(File) /\ item \in DOMAIN File.cases /\ left \subseteq FailuresOf(File, item)
    /\ \E r \in runs : r.id = RunOf(File) /\ (RunFails(File) => r.status = "fail")
    /\ stage # "test" => TestIdOf(File, item) \in Ids(tests)

HandlerInv ==
    /\ stage # "open" => pos \in DOMAIN Work(phase)
    /\ (phase = "results" /\ stage # "open") => InResultsFile
    /\ stage \in {"bundle", "event", "event_evidence"} => target \in Ids(tests)
    /\ stage = "event" => Event \in DOMAIN BundleEvents
    /\ \A r, s \in runs : r.id = s.id => r = s

\* Within a database a run that failed stays failed and a row is never lost: only Unlink
\* forgets.
FailureIsSticky ==
    [][phase = "unlink" \/
          /\ \A r \in runs : \E s \in runs' : s.id = r.id /\ (r.status = "fail" => s.status = "fail")
          /\ Ids(tests) \subseteq Ids(tests') /\ Ids(failures) \subseteq Ids(failures')]_vars

\* A pass that reached its end holds exactly what its artifacts mean, whatever earlier
\* passes left behind: runs, tests and failures are those of the reference definition.
WholeIsContent ==
    whole # None =>
        [runs |-> runs, tests |-> tests, failures |-> failures] = Content(whole)

\* ... and each failure carries the evidence of the occurrence its row shows, and no
\* evidence of the occurrences that row replaced.
OccurrenceRefs(c, g) ==
    LET x == LastOf({y \in OccurrencesOf(c) : FailureAt(c, y) = g})
        refs == c.results[x[1]].fails[x[3]].refs
    IN  {refs[n] : n \in DOMAIN refs}

EvidenceIsOfTheRow ==
    whole # None => \A f \in failures :
        {e.ref : e \in {x \in evidence : x.owner = FailureOwner(f.id)}} = OccurrenceRefs(whole, f.id)

\* A finished run is failed exactly when the index can show a failure of it.
FailedRunExplained ==
    whole # None => \A r \in runs : (r.status = "fail") <=> (\E f \in failures : f.run = r.id)

\* No other file whose assertion failures may be stored has the path of results file p:
\* a path is relative to its root, and two roots may hold files of one relative path.
OwnPath(c, p) ==
    /\ \A q \in DOMAIN c.results : c.results[q].path = c.results[p].path => q = p
    /\ \A q \in DOMAIN c.asserts : c.asserts[q].body = "ok" => c.asserts[q].path # c.results[p].path

StoresEvents(c, p) ==
    /\ Indexed(c.results[p]) /\ c.results[p].kind = "uvm" /\ "assertions" \in Adapters
    /\ OwnPath(c, p)

\* A log's assertion failures are all stored, once each, under a test of the log's own
\* name: though they are correlated by name in a later phase, the log's own test is then
\* an exact match, which no suffix or substring match of another test may beat.
RowsOf(path) == {n \in DOMAIN assertion_failures : assertion_failures[n].src = path}
LogsTest(t, f) == t.name = f.cases[1].name /\ t.framework = "uvm"

LogEventsKept ==
    whole # None => \A p \in DOMAIN whole.results : StoresEvents(whole, p) =>
        LET f == whole.results[p] IN
        /\ Cardinality(RowsOf(f.path)) = Len(f.asserts)
        /\ \A n \in RowsOf(f.path) : LogsTest(assertion_failures[n].test, f)

\* Nothing a pass handles can keep it from the end of its loops, except a file that aborts
\* it: rebuilds repeated after crashes come back to a whole index. (A crash is told from a
\* pass that stops by itself by what the pass would have done.)
Clean(c) ==
    /\ \A p \in DOMAIN c.results :
          ~(c.results[p].kind \in Adapters /\ c.results[p].body = "uncaught")
    /\ "assertions" \in Adapters => \A p \in DOMAIN c.asserts : c.asserts[p].body # "uncaught"
    /\ "coverage" \in Adapters => \A p \in DOMAIN c.coverage : c.coverage[p].body # "uncaught"
    /\ \A p \in DOMAIN c.sva : c.sva[p].body # "uncaught"
    /\ \A p \in DOMAIN c.sva : \A e \in DOMAIN c.sva[p].entries : c.sva[p].entries[e].ok

RebuildsComplete ==
    []<><<Crash /\ ~Proceed>>_vars \/ []<>(whole = scan \/ ~Clean(scan))

\* The indexer is run again and again (a cron job or a timer).
TimedSpec == FairSpec /\ WF_vars(Scan)

\* The pass implements IndexBuild: cut short anywhere, the index never shows a run, a test,
\* a failure or a failing status that the scanned artifacts do not mean, a rebuild only
\* adds to what it shows, and one that reaches its end shows all of it.
Mode == CASE phase = "idle" -> "idle" [] phase = "unlink" -> "scanned" [] OTHER -> "building"
Shown ==
    {[fact |-> "run", id |-> i] : i \in Ids(runs)}
      \cup {[fact |-> "failed", id |-> i] : i \in Ids({r \in runs : r.status = "fail"})}
      \cup {[fact |-> "test", id |-> i] : i \in Ids(tests)}
      \cup {[fact |-> "failure", id |-> i] : i \in Ids(failures)}

Build == INSTANCE IndexBuild WITH mode <- Mode, shown <- Shown

ImplementsIndexBuild == Build!BuildSpec

=============================================================================
