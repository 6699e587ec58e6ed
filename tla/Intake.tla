------------------------------- MODULE Intake -------------------------------
(***************************************************************************)
(* What a pass makes of the text of its artifacts before it writes rows:   *)
(* the test and the failures of a log, the failures of a JUnit file with   *)
(* the artifacts they point to, the metrics of a coverage report.  The     *)
(* files are read one after the other in the order of the pass; between    *)
(* them the indexer keeps its index of artifacts by basename.              *)
(*                                                                         *)
(* IndexPass has the statements that store what is read, this module what  *)
(* is read.  `events`, `evidence` and `summaries` are what the handlers    *)
(* hand to the store; coverage.advisor reads `summaries` there.            *)
(***************************************************************************)
EXTENDS UvmLog, EvidencePaths, CoverageAdvice

CONSTANTS
    NoPhase, MaxTags, WordCues, WordProtocols, WordVendors,
                \* what Taxonomy finds in the words of a message
    WordPhases,     \* WordPhases[words]: the phase they name, or NoPhase
    ComponentRoles, \* ComponentRoles[name]: what a component of that name is
    MaxRefs,    \* security.max_evidence_refs
    Works       \* the artifact sets a pass can meet

ASSUME LimitsAssumption == MaxTags \in Nat \ {0} /\ MaxRefs \in Nat \ {0}

\* A JUnit file lists its pointers in an order, and its path has finitely many parts.
ASSUME WorksAssumption ==
    \A w \in Works : \A n \in DOMAIN w.files : LET f == w.files[n] IN
        f.kind = "junit" =>
            /\ IsFiniteSet(Parts(f)) /\ f.pointers \in Seq(Range(f.pointers))
            /\ \A p \in Range(f.pointers) :
                  p.to.form = "absolute" => p.to.name \in DOMAIN Glob

\* A pass has a list of files. A report has a list of rows, the layout of a plan is one of URG
\* or Questa, and a percentage is not negative (schemas/coverage.py:23), but for the -1 of
\* Questa. That it is at most 100 is not assumed: no parser looks.
ASSUME ReportsAssumption ==
    \A w \in Works :
        /\ w.files \in Seq(Range(w.files))
        /\ \A n \in DOMAIN w.files : LET f == w.files[n] IN
              f.kind = "report" /\ f.body = "ok" =>
                  /\ f.format \in Formats /\ f.run \in Int /\ f.rows \in Seq(Rows)
                  /\ \A row \in Range(f.rows) :
                        /\ row.covered >= 0 \/ (f.format = "questa" /\ row.covered = -1)
                        /\ row.cue = "plan" => f.format \in {"urg", "questa"}

\* No index that can be built is the one that says there is none.
ASSUME NoIndexAssumption ==
    \A w \in Works : \A name \in DOMAIN Glob : BuildIndex(w.tree, name) # NoIndex

Failures == INSTANCE Taxonomy
    WITH Cues <- WordCues, Protocols <- WordProtocols, Vendors <- WordVendors

VARIABLES
    work,        \* [files, tree]: the files of the pass, and all artifacts under its roots
    mode,        \* "reading", "done", or "stopped" by an exception that no handler catches
    pos,         \* the file being read
    resolved,    \* the paths of the pointers of a JUnit file that are resolved so far
    index,       \* _basename_index, with the name it was built for
    tests,       \* the tests of logs, with the status the parser gives and the one stored
    events,      \* the failures of logs and JUnit files
    evidence,    \* the evidence of the failures
    summaries    \* the coverage summaries, a row each

vars == <<work, mode, pos, resolved, index, tests, events, evidence, summaries>>

File == work.files[pos]
Reading(kind) == mode = "reading" /\ pos \in DOMAIN work.files /\ File.kind = kind

Init ==
    /\ work \in Works
    /\ mode = "reading" /\ pos = 1 /\ resolved = << >>
    /\ index = NoIndex
    /\ tests = {} /\ events = {} /\ evidence = {}
    /\ summaries = << >>

NextFile == pos' = pos + 1 /\ resolved' = << >> /\ UNCHANGED <<work, mode>>

(***************************************************************************)
(* Failures.                                                               *)
(***************************************************************************)
RolesOf(component) == IF component = None THEN {} ELSE ComponentRoles[component]

Event(file, nth, raw, message, time, phase, roles, framework) ==
    LET tags == Failures!Tags(Failures!Words(message), phase, roles, framework) IN
    [file |-> file, nth |-> nth, severity |-> Failures!NormalizeSeverity(raw),
     message |-> message, tags |-> tags, time_ns |-> time,
     signature |-> Failures!Signature(message, tags)]

\* A log's phase is looked for in the message as it is captured (_extract_phase).
LogEvents(file, messages) ==
    {Event(file, m.line, m.severity, m.message, m.time_ns, WordPhases[Failures!Words(m.message)],
           RolesOf(m.component), "uvm") : m \in messages}

\* The message and the details of a failure are classified together; neither phase nor component
\* is known, and a testcase is of the framework its name looks like.
Framework(f) == IF f.like_uvm THEN "uvm" ELSE "cocotb"
JUnitMessage(f) ==
    [part \in {"text"} \cup (IF f.details = None THEN {} ELSE {"details"}) |-> f[part]]
JUnitEvents(file, failures) ==
    {Event(file, k, "error", JUnitMessage(failures[k]), None, NoPhase, {},
           Framework(failures[k])) : k \in DOMAIN failures}

\* Any other log, or report, adds nothing: too large, or without the name of a test.
SkipLog ==
    /\ Reading("log")
    /\ File.oversize \/ ParseLog(File.lines).name = None
    /\ NextFile
    /\ UNCHANGED <<index, tests, events, evidence, summaries>>

\* A log's evidence is called what the log is called, without its directory.
IndexUvmLog ==
    /\ Reading("log") /\ ~File.oversize
    /\ LET log == ParseLog(File.lines) IN
          /\ log.name # None
          /\ tests' = tests \cup
                {[file |-> pos, name |-> log.name, parsed |-> log.status,
                  status |-> IF log.failures # {} THEN "fail" ELSE "pass"]}
          /\ events' = events \cup LogEvents(pos, log.failures)
          /\ evidence' = evidence \cup
                {[file |-> pos, nth |-> m.line, pointer |-> [form |-> "own"],
                  path |-> [dir |-> << >>, name |-> File.name]] : m \in log.failures}
    /\ NextFile
    /\ UNCHANGED <<index, summaries>>

(***************************************************************************)
(* JUnit files: the pointers of all failures are resolved, one after the   *)
(* other, before the first failure is stored.                              *)
(***************************************************************************)
ResolveEvidencePath ==
    /\ Reading("junit") /\ Len(resolved) < Len(File.pointers)
    /\ LET pointer == File.pointers[Len(resolved) + 1].to IN
          /\ index' = IF pointer.form = "absolute"
                      THEN IndexAfter(index, work.tree, pointer.name) ELSE index
          /\ \E path \in Resolve(pointer, work.tree, File, index') :
                resolved' = Append(resolved, path)
    /\ UNCHANGED <<work, mode, pos, tests, events, evidence, summaries>>

\* The pointers of a failure that _normalize_evidence_refs keeps: the first MaxRefs, less those
\* that leave the roots.
PointersOf(k) == {i \in DOMAIN File.pointers : File.pointers[i].of = k}
KeptPointers ==
    {i \in DOMAIN File.pointers :
        /\ Cardinality({j \in PointersOf(File.pointers[i].of) : j <= i}) <= MaxRefs
        /\ Kept(resolved[i])}

IndexCocotbXml ==
    /\ Reading("junit") /\ Len(resolved) = Len(File.pointers)
    /\ events' = events \cup JUnitEvents(pos, File.failures)
    /\ evidence' = evidence \cup
          {[file |-> pos, nth |-> File.pointers[i].of, pointer |-> File.pointers[i].to,
            path |-> resolved[i]] : i \in KeptPointers}
    /\ NextFile
    /\ UNCHANGED <<index, tests, summaries>>

(***************************************************************************)
(* Coverage reports.                                                       *)
(***************************************************************************)
\* Too large, or its parser raises OSError or ValueError.
SkipReport ==
    /\ Reading("report") /\ File.body = "malformed"
    /\ NextFile
    /\ UNCHANGED <<index, tests, events, evidence, summaries>>

\* An XML that does not parse, or a JSON whose root is no object, raises something else.
AbortOnReport ==
    /\ Reading("report") /\ File.body = "uncaught"
    /\ mode' = "stopped"
    /\ UNCHANGED <<work, pos, resolved, index, tests, events, evidence, summaries>>

IndexCoverageArtifact ==
    /\ Reading("report") /\ File.body = "ok"
    /\ summaries' = Append(summaries, [file |-> pos, run |-> File.run, kind |-> KindOf(File),
                                       metrics |-> ParseMetrics(File)])
    /\ NextFile
    /\ UNCHANGED <<index, tests, events, evidence>>

Finish ==
    /\ mode = "reading" /\ pos \notin DOMAIN work.files
    /\ mode' = "done"
    /\ UNCHANGED <<work, pos, resolved, index, tests, events, evidence, summaries>>

Next ==
    \/ SkipLog \/ IndexUvmLog
    \/ ResolveEvidencePath \/ IndexCocotbXml
    \/ SkipReport \/ AbortOnReport \/ IndexCoverageArtifact
    \/ Finish

Spec == Init /\ [][Next]_vars

(***************************************************************************)
(* Properties.                                                             *)
(***************************************************************************)
TypeOK == \* the variables hold what the handlers pass on
    /\ mode \in {"reading", "done", "stopped"}
    /\ pos \in 1..(Len(work.files) + 1)
    /\ pos \in DOMAIN work.files => File.kind = "junit" \/ resolved = << >>
    /\ index = NoIndex \/ index.found \subseteq work.tree
    /\ \A t \in tests : /\ t.file < pos /\ t.name # None /\ t.status \in {"pass", "fail"}
                         /\ t.parsed \in {"pass", "fail", "aborted"}
    /\ \A e \in events : e.file < pos /\ e.severity \in {"error", "fatal"}
                           /\ Len(e.tags) <= MaxTags
    /\ \A s \in Range(summaries) : s.file < pos /\ Len(s.metrics) <= MaxMetrics

EventsOf(file) == {e \in events : e.file = file}
LinesOf(t) == work.files[t.file].lines

\* The two statuses of a log's test, the parser's and the one stored for its failures, differ
\* only where no error was read: stored as passing, the parser has failed it for a line that
\* says so, or has called it aborted, which no line of any kind contradicts
\* (adapters/uvm_log.py:447, whose order of rules is what could be wrong).
StatusAgreesWithFailures ==
    \A t \in tests :
        /\ t.status = "fail" => t.parsed = "fail"
        /\ t.parsed = "fail" => EventsOf(t.file) # {} \/ Marked(LinesOf(t), "failed")
        /\ t.parsed = "aborted" => ~\E mark \in Marks : Marked(LinesOf(t), mark)
        /\ t.parsed = "pass" => /\ EventsOf(t.file) = {} /\ ~Marked(LinesOf(t), "failed")
                                /\ \E mark \in {"passed", "complete"} : Marked(LinesOf(t), mark)

\* Five patterns are tried on each line and one of them takes it: each report of an error or a
\* fatal is one failure with its severity, however it is laid out, and a count of reports is
\* none (adapters/uvm_log.py:267).
EachReportOnce ==
    \A t \in tests :
        /\ {e.nth : e \in EventsOf(t.file)} =
              {n \in DOMAIN LinesOf(t) :
                  LET r == LinesOf(t)[n].report IN
                  r # None /\ r.severity \in Failing /\ ~r.tally}
        /\ \A e, f \in EventsOf(t.file) : e.nth = f.nth => e = f
        /\ \A e \in EventsOf(t.file) :
              e.severity = "fatal" <=> LinesOf(t)[e.nth].report.severity = "UVM_FATAL"

\* Two reports are printed alike when they differ in severity, in the time and, where the pattern
\* captures it, in the component.
PrintedAlike(r, q) ==
    /\ \A part \in {"lead", "file", "unit", "colon", "source", "tag", "text"} : r[part] = q[part]
    /\ r.time = None <=> q.time = None
    /\ "component" \in Left(r) => r.component = q.component

SameBut(part, m, n) ==
    DOMAIN m = DOMAIN n /\ \A p \in DOMAIN m \ {part} : m[p] = n[p]

\* A failure that recurs at another time, in another instance that is captured, with another
\* severity, has the signature it had: so have two messages that differ in a time at most,
\* whichever pattern, format, framework and component they come from. The time stays in some
\* messages; the tags are cut before the protocol is looked for in them, and those of a component
\* must not push it out (taxonomy_engine.py:311, indexing/indexer.py:402, ids.py:360). One report
\* laid out in two ways may have two signatures.
SignatureOfTheReport ==
    /\ \A e, f \in events : SameBut("time", e.message, f.message) => e.signature = f.signature
    /\ \A t, u \in tests : \A e \in EventsOf(t.file), f \in EventsOf(u.file) :
          PrintedAlike(LinesOf(t)[e.nth].report, LinesOf(u)[f.nth].report)
              => e.signature = f.signature

Artifacts(name) == {a \in work.tree : IsFile(a) /\ a.name = name}
Pointing(form) == {e \in evidence : e.pointer.form = form}

\* A pointer to another machine becomes an artifact of its name that no other shares more
\* directories with the file that points to it. It is called
\* external only when there is none, or when the index was built for a name that, as a
\* pattern, does not match this one (indexing/indexer.py:825).
FoundUnlessIndexedForAnother ==
    \A e \in Pointing("absolute") :
        \/ \E a \in Artifacts(e.pointer.name) :
              /\ e.path = Place(a)
              /\ \A b \in Artifacts(e.pointer.name) :
                    Shared(b, work.files[e.file]) <= Shared(a, work.files[e.file])
        \/ /\ e.path = External(e.pointer.name)
           /\ \/ Artifacts(e.pointer.name) = {}
              \/ e.pointer.name \notin Glob[index.name]

\* The rows laid out as the format of the report expects, up to where its parser stops.
LaidOut(report) ==
    LET rows == Range(IF report.format = "questa" THEN BeforeBroken(report.rows) ELSE report.rows)
    IN  {row \in rows : /\ row.cue \in {"row", "plan"} /\ row.covered >= 0
                        /\ report.format = "xml" => row.name = "line"}

\* A stored metric is a row of its report, unless the report has no row in the layout of its
\* format: then it is a row found elsewhere, or, alone, the 0% that stands for nothing found. A
\* total that is not applicable is never stored (adapters/coverage_reports.py:332).
MetricsAreRead ==
    \A s \in Range(summaries) :
        LET report == work.files[s.file]
            loose == {row \in Range(report.rows) : row.cue = "loose"}
        IN  IF LaidOut(report) # {}
            THEN \A m \in Range(s.metrics) : \E row \in LaidOut(report) :
                    m.covered = row.covered /\ m.name \in {row.name, XceliumKind(row.name)}
            ELSE \/ \A m \in Range(s.metrics) : \E row \in loose :
                       m.covered = row.covered /\ m.name = row.name
                 \/ Len(s.metrics) = 1 /\ s.metrics[1].covered = 0

Limits == 1..2
Queries == {AnyRun} \cup {s.run : s \in Range(summaries)}
Named == {AnyName} \cup {m.name : m \in Range(QueryMetrics(summaries, AnyRun))}

\* An advisory shows the least coverage stored for its scope and name, and there is one for
\* each. What a limit leaves out is no more urgent than anything advised and, where it is as
\* urgent, no worse covered: asking for more never turns up something worse. Duplicates go
\* after the gaps are sorted and cut, by their first occurrence, so all of it rests on their
\* order (normalization/coverage_hints.py:189, normalization/coverage_advisor.py:251).
WorstIsAdvised ==
    \A run \in Queries, name \in Named, limit \in Limits :
        LET given == Advisories(summaries, run, name, AnyProtocol, limit)
            stored == Range(QueryMetrics(summaries, run))
            selectable == {m \in stored : /\ name \in {AnyName, m.name} /\ m.covered < 100
                                          /\ name # AnyName \/ Priority(m) = 1}
        IN  /\ \A i, j \in DOMAIN given : Same(given[i], given[j]) => i = j
            /\ \A a \in Range(given), m \in stored : Same(a, m) => a.covered <= m.covered
            /\ \A m \in selectable, a \in Range(given) :
                  \/ \E b \in Range(given) : Same(b, m)
                  \/ Priority(a) < Priority(m)
                  \/ Priority(a) = Priority(m) /\ a.covered <= m.covered

(***************************************************************************)
(* What the schemas say of a failure and of its evidence.                  *)
(***************************************************************************)
\* "Simulation time in nanoseconds" (schemas/failures.py:54): the time of a failure, when it has
\* one, is the time its report prints, in nanoseconds.
UnitKept ==
    \A t \in tests : \A e \in EventsOf(t.file) :
        LET r == LinesOf(t)[e.nth].report IN e.time_ns \in {None, ParseTime(r.time, r.unit)}

\* "Relative path within artifact root" (schemas/common.py:53): evidence that is the file itself
\* names the place of that file.
EvidenceIsTheFile ==
    \A e \in Pointing("own") : e.path = Place(work.files[e.file])
=============================================================================
