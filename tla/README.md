# Sentinel DV: a verification project

Sentinel DV indexes the artifacts of design-verification regressions (UVM logs, cocotb
JUnit files, assertion reports, coverage summaries, waveform summaries, SVA status reports)
into a DuckDB file, and serves it to agents through read-only MCP tools. This directory holds
TLA+ models of it, the TLC configurations that check them, and theorems about them with
proofs that TLAPS checks. `PROJECT.json` links every definition to the lines it models, every
property to the run that checks it and to a mutation of the model that breaks it, and lists
the hazards and the findings.

All source paths below are relative to `src/sentinel_dv/` unless they start with `src/`.

## 1. Inventory

| Component | State | Operations | What is hard | What makes it correct |
|---|---|---|---|---|
| Indexing pass, `indexing/indexer.py` | the loop positions of one pass; the roots on disk | `index_all` and a handler a file kind, correlation by test name | the old index is removed first and every statement commits by itself, so a pass that is killed or aborted leaves a part; several files write one run, one test, one failure | rows resolve after any number of statements; a failure is never hidden by merging; a finished pass holds what its artifacts mean |
| Identities, `ids.py` | none | `make_run_id`, `make_test_id`, ... | an id leaves out fields, so rows merge | two files agree on an id exactly when they are about one thing |
| Store, `indexing/store.py` | 20 tables, 4 sequences | upserts, inserts, name lookup, queries, migrations | some inserts replace and some add; a failure and its evidence are three statements | replacing leaves nothing of what was replaced |
| Index file, `indexing/indexer.py`, `server.py` | the path; who has which file open | unlink and recreate; `get_store`, `init_server` | a server has the old file open, creates an empty one, or locks the new one | a pass has a file of its own; a served index does not move |
| List tools, `tools/core.py`, `tools/validate.py` | none between calls | nine paged tools | ties at page boundaries, totals of fetched rows, refused responses | the pages put together are the rows, once each, and the walk ends |
| Live status, `adapters/live_sim.py`, `schemas/live_sim.py` | the harnesses' files | `sim.status` | candidates, text and age are looked at one after the other while harnesses rewrite the files | the newest is answered; a dead harness is stale |
| Parsers of logs, `adapters/uvm_log.py` | the parse of one file | `parse_log`: five patterns a line, five rules for a status, a name | which pattern takes a report; which rule comes first | each report is one failure, with its severity; the status agrees with the failures; what a pattern leaves in the message does not tell two occurrences apart |
| Parsers of coverage reports, `adapters/coverage_reports.py` | none | six formats, chosen by file name | fallbacks, entries that are not numbers, totals that do not apply | a metric is a number of the report |
| Other parsers, `adapters/` | the parse of one file | JUnit, assertions, waveforms, SVA | | what is failing is a failure |
| VCD summaries and waveform tools, `adapters/vcd_summary.py`, `tools/core.py` | the values of signals while a file is read | toggles over a window, values at a time | window ends; values kept by id and by name | the windowed count equals the count over the changes in the window |
| Evidence paths, `indexing/indexer.py:770-850` | an index of artifacts by basename, kept by the pass | `_resolve_evidence_paths`, `_find_artifact_by_basename`, `_normalize_evidence_refs` | the kept index is built for one basename, read as a pattern | a file that is there is found, the nearest of its name |
| Comparison, history, analytics, `tools/core.py`, `indexing/store.py` | none | `runs.diff`, `coverage.trend`, `regression.health`, `failures.cluster`, ... | pairing by name alone; limits before grouping; three queries of one answer with three filters; rows that tie | a diff turns one run into the other; the components of a score count the same tests; a trend adds up |
| Single-row tools and summaries | none | lookups by id | nothing | the row, or NOT_FOUND |
| Coverage advisor, `normalization/coverage_hints.py`, `coverage_advisor.py`, `tools/core.py` | none | `coverage.advisor`: query, sort, cut, drop duplicates | the cut comes before duplicates go | the worst gaps are shown, once each |
| Submit and replay | none | text from a row | formatting | |
| Server wiring, `server.py`, `tools/mcp_metadata.py` | `_store`, `_config` | registration, error codes | a store kept before it is connected | a call on a store that exists is answered |
| Taxonomy, `taxonomy_engine.py` | none | `classify`: category, severity, tags; the signature the indexer makes of them | rule order; tags are cut before a protocol is looked for in them; the summary is the message as its pattern captured it | a failure that recurs has its signature again |
| Redaction, bounded text | none | patterns over text | the patterns | |
| Configuration, schemas | read once | validation | | |
| Demo fixtures, scripts, documentation | | | | |

How they interact. `python -m sentinel_dv.indexing` runs one pass: it scans the roots, removes
the database, creates it again and writes it a statement at a time. A server opens the same
path at its first call and keeps the connection. They share the path and DuckDB's file lock and
nothing else: no message, no version, no signal. A tool call reads the store and answers;
nothing is kept between two calls. Simulator harnesses and `sim.status` share the status files.
Inside a process nothing runs concurrently. What a handler stores passes through the parsers,
the taxonomy and the evidence paths first; of these only the evidence paths keep something from
one file to the next.

The hazards these interactions bring are listed in `PROJECT.json` with their lines; each names
the properties that would notice, or why there is none yet.

## 2. Modules

```
IndexContent            vocabulary, identities, the reference meaning of a set of artifacts
  |-- IndexBuild        abstract: a rebuild forgets once, then only adds facts
  |-- IndexPass         one action a store statement; implements IndexBuild
        |-- MCIndexPass -- IndexClaims
        |-- IndexPassProofs -- IndexMeaningProofs
Intake                  what a pass reads: files to failures, evidence and metrics
  |-- UvmLog            a log: patterns, times, status, name
  |-- Taxonomy          (instance) category, severity, tags, signature
  |-- EvidencePaths     pointers to artifacts, the index by basename
  |-- CoverageAdvice    coverage.advisor over the stored summaries
  |     |-- CoverageReports     six formats of a report
  |           |-- Lists         (Taxonomy too) sorted(), slices, comprehensions
  |-- MCIntake
  |-- IntakeProofs
IndexFile -- MCIndexFile        the file between indexers and servers
  |-- IndexFileProofs
Listing -- MCListing            a client that walks pages
  |-- ListingProofs
LiveStatus -- MCLiveStatus      sim.status between harnesses
  |-- LiveStatusProofs
VcdWindow -- MCVcdWindow        a window of a value change dump
  |-- VcdWindowProofs
Analytics -- MCAnalytics        the tools that compare runs
  |-- AnalyticsProofs
```

`Intake` stands before `IndexPass`: where `IndexPass` takes a file as the record of what its parser
returned, and models each statement that stores it, `Intake` models how that record comes about from
the text, and takes a handler's statements as one step. `IndexFile` stands above `IndexPass`: its action `Index` is all the statements of a pass
together, and its `Close` is the step where `IndexPass` sets `whole`. `Listing` takes a server's
index as one of a set of tables, and its `Reopen` is `IndexFile!Restart` followed by `GetStore`.
`Analytics` takes a handler of `IndexPass` as one step, and has the times of rows that `IndexPass` leaves out.

### IndexContent and IndexPass (`indexing/indexer.py`, `indexing/store.py`, `ids.py`)

The artifacts on disk are a *corpus*: for each kind, a sequence of parsed files in the order
in which the pass meets them. What a parser returns is a record with the fields the indexer uses. What
parsers guarantee of it is `CorporaParsed`. An id is the record of the fields the code hashes
for it, as the indexer passes them: a test id has no seed and a failure id neither time nor
evidence, because the indexer passes none.

The connection is opened without a transaction and DuckDB commits each statement, so the unit
of the model is one `execute`: `IndexUvmLog` and `IndexCocotbXml` write the run row, `InsertTest` the
test, `InsertTopology`, `InsertFailure`, `DeleteEvidence` and `InsertEvidence` what follows. The
variables `phase`, `pos`, `stage`, `item`, `left` and `ref` are the program counter: which
loop, which file, which handler step, which testcase, which failures of the testcase are not
written yet, which evidence is next. The loop over failures has the order of the parsed list.
`target` is the test a correlating handler resolved. Tables keyed by an id are sets of rows with an upsert that
replaces; tables whose id comes from a sequence (`assertion_failures`, `coverage`,
`sva`) are sequences and the position is the row id. `Crash` may happen after any
statement; `AbortOnFile` and `AbortOnSva` are the exceptions no handler catches.

`whole` is a history variable: the corpus of the pass that filled the database to its end.
It is read by properties only.

### Intake, UvmLog, Taxonomy, EvidencePaths, CoverageReports, CoverageAdvice, Lists

One action of `Intake` is one file: `IndexUvmLog`, `IndexCocotbXml` or `IndexCoverageArtifact` with all it hands
to the store, `SkipLog` and `SkipReport` for what is passed over, `AbortOnReport` for an exception no handler
catches. Only JUnit files take more steps, `ResolveEvidencePath`, one a pointer, because a lookup of a basename
may build the index that later lookups use. The variables `events`, `evidence` and `summaries` are what is handed
over; `index` is `_basename_index` with the name it was built for, and `tests` has the parser's status beside the stored one.

Text is abstracted to what the code's patterns find in it:

- a line of a log is a record: the report it prints, with the parts that tell the five patterns apart (what
  leads it, where a file, a time, a unit, a colon, a component and a tag stand), the name of a test it mentions, and
  the marks that the rules for a status look for. `Matches` says which pattern takes which layout, `Captured`, `CapturedUnit` and
  `ComponentOf` what the pattern gets out of it;
- a message is what its pattern captured as one: a function from the parts that are in it to what they say. The text always is. Before
  it stands what the pattern has no group for (`Left`): of `UVM_ERROR f.svh(12) @ 7: top.scb [TAG] text` the native pattern leaves
  the tag; Questa's takes `[TAG] (comp):` and leaves what stands in other places; the older VCS pattern leaves nothing; the
  generic one nearly everything. It is this message that is classified, searched for a phase and hashed;
- the taxonomy looks at the words of a message, all of it but its time: whether they are cues, protocols, vendors or a phase is a
  function of them, a constant. A summary (`Summary`) has a placeholder for a time, a unit and a component, as in
  `signature_normalize_summary`; its other parts are what they are, as if normalized;
- a JUnit failure has a message and perhaps details. They are classified together, and the signature hashes the message alone: `Summary`
  drops the details. Its framework is what the name of its testcase looks like (`Framework`); phase and component are not known;
- a coverage report is its rows, each with the cue by which the searches of its format find it. Percentages are whole;
- `Lists` has the three things the parsers, the taxonomy and the advisor do with a list: keep what satisfies a condition (`Among`),
  sort it by a key with ties in order (`SortedBy`), cut it (`Cut`). Each says which place of the list an element of the result
  comes from, not how a loop gets there, which is what makes them provable about;
- a path is a directory (a sequence of names) and a name; `Glob` says which names a name matches when it is read as a pattern.

`coverage.advisor` reads the summaries that are stored and keeps nothing, so it is an operator (`Advisories`) over
`summaries`, asked in every state with every run, name and limit.

### IndexFile (`indexing/indexer.py:170-240`, `indexing/store.py` `connect`, `server.py:25-60`)

The path names a file or none. `exists`, `unlink` and `connect` are three steps, between
which servers run. DuckDB lets one process open a file at a time; the lock is on the file,
so an unlinked file stays with who has it open. A file remembers how many passes wrote to it
and whether one of them ended, and which passes now running were already running when it was created (`around`), which is
all the properties ask. `UnlinkRaises` is a pass whose file another one removed first. `GetStore` is the first tool call of a
server process, `GetStoreRaises` the same call when the file is locked: `_store` is assigned before `connect()`.

### Listing (`tools/core.py`, `indexing/store.py` queries, `tools/validate.py`)

A tool is three choices: the order of its query (direction, and whether the row id breaks
ties), what its total counts, and a cap on its rows. Tools that agree in all three are one value.
The variables are those of a client's walk, which is external: it asks for the next page while
`page < total_pages` and starts again with smaller pages after `INVALID_ARGUMENT` or `LIMIT_EXCEEDED`. Rows that
tie are returned in any order, and in another order at the next call, as SQL allows. Text columns of a row are abstracted to its
sort key, whether it meets the filter, and the bytes it takes in the response.

### LiveStatus (`adapters/live_sim.py`, `schemas/live_sim.py`, `src/examples/live_sim_writer.py`)

`StatCandidate` looks at one candidate, `Choose` takes the newest, `ReadText` reads it and
`StatAge` stats it again. Harness steps, deaths and clock ticks come between any two. The reference harness writes
a temporary file and renames it: one step here, because nobody looks at the temporary file. A
harness that writes in place takes two. A file's content is the number of tests done, from
which the percentage, and whether it is over 100, follow.

### VcdWindow (`adapters/vcd_summary.py`)

An action a line of the dump: `Timestamp` for `#`, `Change` for a value change, whose four cases are
those of `apply_value`. The dump is external: its times do not decrease. The header is the name each
identifier was last declared with, so an identifier without `$var` and two identifiers of one name
(merged by the parser) are headers like any other. The text of a line, the timescale and the
width of a signal are left out: a time is in nanoseconds already, in units small enough to be whole. The tools
pass both ends of a window or neither, in order (`tools/core.py:450-457`), which is `WindowsAssumption`. `trace` is a
history variable: the reference definitions read toggles and edge values off it, and compare
a change with the previous one of its identifier wherever that is, where the parser has one running value.

### Analytics (`indexing/store.py` `diff_runs`, `test_history`, `cross_sim_divergence`, `cluster_failures`, `regression_summary`, `regression_health_data`, `coverage_trend`; `tools/core.py` `get_regression_health`)

The tools keep nothing, so their state is the index: rows of runs, tests, failures and coverage summaries, which
grow by one result or summary a step, with the upserts of `IndexPass`. `IndexResult` is a results file of one
test, `IndexCoverage` one summary. Each tool is an operator over these tables. What matters of a row
beyond its fields is its time: `at` is the text that `runs.diff` and `coverage.trend` sort, and different in any two steps; `ms`
is the number that `tests.history` and `runs.cross_sim` sort, which may not have moved. A tie is
an arbitrary fixed choice (the code takes the greater id). `DiffCap`, `HistoryLimit`, `TrendLimit` and `TopLimit` are the code's 10 000, 50,
20 and 20, small enough to cut. Percentages are whole. The component of assertions is a parameter of a score, as its tables are not here; the other four are
computed. A cohort has no `dut_top`, because the indexer passes none. A scope of
`regression.health` is a run with its suite, a suite, or everything; its divergence is of the suite in any case
(`indexing/store.py:2595-2601`), and is modelled so.

## 3. Runs

Every run is listed in `PROJECT.json` with its module, cfg and properties. Those that expect
`pass` explore their whole state space without an error. Deadlock is checked except in `Listing`
(a walk ends), `VcdWindow` (a dump ends), `Analytics` (the index stops growing) and `Intake` (a pass ends).

| Run | Instance | Shows |
|---|---|---|
| `index_pass` | 6 artifact sets, exports between passes, crashes everywhere | rows resolve after any statement; a finished pass equals the reference meaning; a log's assertion failures reach their own test; a row or a failing status is never lost; rebuilds complete again and again |
| `index_merge` | 180 mixtures of three results files and two coverage files | a failed run never shows as passing, and is failed exactly when a failure can be shown; a replaced failure keeps no old evidence; `IndexPass` implements `IndexBuild` |
| `intake` | logs of up to 3 lines of 11 kinds; a report in each layout; JUnit files with pointers over 2 trees; a report in 6 layouts, the same or another one later, and a JUnit file that says so, with details and without; coverage reports of up to 3 rows in each format; two reports and the advice on them | the parser's status agrees with the failures that are stored; each report is one failure; a failure that recurs at another time or in another captured instance has its signature again; a pointer leads to the nearest artifact; a metric is a number of its report; the advisor shows the worst gaps |
| `index_file` | 2 indexers, 1 server, 5 files | a pass writes to a file created while it runs; what is served does not move; passes go on completing |
| `listing` | 9 tools, 5 tables, page sizes 1 to 3 | walks are exact where the tool counts, complete where it does not, and end |
| `live_status` | 2 status files, 2 suites, a clock of 3 values | the newest file is answered; a call finds a file that is steadily there; a dead harness is stale |
| `vcd_window` | every trace of up to 4 changes at times 0 to 3, 4 windows, 3 headers, 2 values | toggles and edge values kept line by line are those of the whole trace |
| `analytics` | 3 runs of 2 suites, 4 sets of artifacts, any 4 of a set in any order | a diff reconstructs the compared run; what is flaky has a history; what diverges is counted and flaky; a trend is whole but for its latest run, and adds up; clusters, diffs and summaries agree; a sign-off score has passing tests and coverage behind it |
| `build_is_atomic`, `store_is_connected`, `unit_kept`, `evidence_is_the_file` | as `index_pass`, `index_file`, `intake`, `intake` | a violation each, of one sentence of the documentation (Findings) |

Bounds, and why they are enough:

- `AllCorpora` holds one corpus (`Regression`) in which every kind of file occurs, with files
  that share a CI build, disagree about a test, match each other's names by equality, suffix and
  substring, correlate with a test, tie, or miss; one with nothing; one of files a handler passes over; three with a file that
  aborts a pass: a JUnit file, an SVA count, a coverage report. Together they fire every action and every disjunct. Two corpora in sequence
  are enough to see what one pass leaves for the next, because a pass reads nothing of an earlier
  one but the file it unlinks; the run has six in any sequence.
- `Mixtures` is a product: a first file that passes, fails or is skipped, a UVM log with each verdict, a third file of
  one name or two, each named by a CI build or by its path. Three files of one run are enough to
  write a row, replace it, and replace it back.
- `index_file`: two indexers, whose passes overlap or not, and a server that creates, opens or locks the file between their
  steps. Five files: one the path names, one for each process and one free (`FilesAssumption`), as
  a file nobody can reach is reused. `IndexFileProofs` has any number of either. `writers` stops at 2, which stands for more.
- The tables of `Listing` have ties within and across pages, an empty sort column, rows that
  do not match, a row larger than a response, and more rows than three pages.
  `PageBound` is beyond the last page of every table.
- `LiveStatus`: one file of each kind of harness is enough for a choice between two. `MaxAge` 1 and `MaxTime` 2
  give an age below, at and above the limit. `TestsTotal` 1 gives none, all and too many
  tests done.
- `Intake`: the parsing of a log depends on the set of its lines but for the test's name, which the first line
  with a name gives, so three lines of 11 kinds (every mark, every severity, every pattern, a count of reports) have every
  combination of two rules and a third line. `Layouts` is a product of all parts of a report.
  Of the 6 layouts that `TextWorks` compares, two leave the component in the message and one the time; components, tags and texts have
  cues, protocols and roles of their own. `MaxTags` 3 is the least with which
  a category, a framework and one protocol fit, and `SignatureOfTheReport` must hold with it; with the code's 20 the cut never happens.
  A tree has a name in three directories at different depths, a name that read as a pattern matches another and not itself, and a
  link; two JUnit files follow each other, so the index is built by one and used by the next. `MaxMetrics` 2 and `MaxGaps` 3 are less than the
  rows of a report and of two.
- `VcdWindow`: the windows are none, one in the middle, one instant, and one from the start of the trace; four
  changes put two identifiers, or one identifier twice, on both sides of an end. For any length
  and any window the theorems of `VcdWindowProofs` hold.
- `Analytics`: a set of artifacts has a test that passes, fails and is skipped over runs and simulators; or two runs
  with tests that come, go, change and share signatures; or coverage of three runs and two kinds; or some of each. Four rows are enough
  for a pair of runs with two tests each, and one more than each limit: two tests, two entries, three summaries, two signatures.

`violation` runs each check one sentence of the repository's documentation; see Findings.

Each property of a passing run has a mutant in `PROJECT.json`: a definition in the module, marked
`mutant:` in its comment, that changes one mapped definition the way a bug would, and
under which TLC finds that property violated.

### Fairness

- `IndexPass!FairSpec`: weak fairness of `Proceed`, one sequential program that
  waits for nothing. `TimedSpec` adds weak fairness of `Scan`: the indexer is run again and again,
  by a timer or a job. `Crash` and `Export` are not fair. `RebuildsComplete`
  excepts behaviours in which passes are killed in mid-way for ever, and artifacts that abort a pass.
- `IndexFile!FairSpec`: the timer and each step of a pass. Servers are not fair.
  `RebuildsGoOn` excepts endless crashes (a pass that gives up by itself, because a step raises, is none) and endless restarts: a server that restarts for
  ever can lock each new file before the indexer opens it. Two indexers can make each other's pass fail, but not every pass.
- `Listing!Spec`: the client goes on with its walk. `Reopen` is not fair, and not bounded.
- `LiveStatus`, `VcdWindow`, `Analytics` and `Intake` state none: their properties are of safety.

### The abstract specification

`IndexBuild` says what a reader may rely on, without tables or statements: the index shows
*facts* (a run, a failed run, a test, a failure); a rebuild forgets all of them at once, then
adds only facts that the scanned artifacts mean, and is complete when it shows them all; one that
began ends. The refinement mapping is `shown <- Shown` (the facts the tables show), `mode <- Mode`
(from `phase`), and the history variable `whole` unchanged. `ImplementsIndexBuild` covers the
liveness conjunct. That an upsert replaces the row of a test means that a test's *status* may go
back and forth in a pass; a run's failing status may not, and that is why "failed" is a fact of a run only.

## 4. Findings

Places where the documentation, a docstring or a comment says one thing and the code does
another. Each has a run whose counterexample shows it.

| Run | Says | Does |
|---|---|---|
| `build_is_atomic` | `src/docs/index-store.md:305` "Write to DuckDB in a transaction" | the old database is unlinked and every statement commits; a pass that stops leaves a part that servers serve |
| `store_is_connected` | `server.py:34` "Return the connected index store" | after one `connect` that raises (in the trace, because another server has the file locked), every call gets a store that is not connected |
| `unit_kept` | `schemas/failures.py:54` "Simulation time in nanoseconds"; `adapters/uvm_log.py:85` "@ time [unit]" | a report without a colon, `UVM_ERROR @ 7 ns [TAG] (comp): text`, is taken by the Jenkins pattern, which has no place for a unit: `ns` becomes the component, and 7 is taken for femtoseconds and stored as 0 (`adapters/uvm_log.py:302`). The native pattern accepts a unit and drops it, so `@ 7 ns:` is stored as 0 as well (`:282`) |
| `evidence_is_the_file` | `schemas/common.py:53` "Relative path within artifact root" | the evidence of a log's failure has the log's name without its directory, and pointers of logs are not resolved |

Differences that reading settles, noted while modelling, with no run of their own:

- `src/docs/ids.md:115` has the seed as part of a test id; the indexer does not pass it
  (`indexing/indexer.py:364`), so the last seed of a test in a run replaces the others (`TestIdOf`).
- `src/docs/guides/simulator-support.md:151` has an `aborted` simulation no longer taken for `pass`, and its table has `fail` for a
  FAILED marker; the indexer takes the status from the failures alone (`indexing/indexer.py:258`), so both are stored as
  `pass` when no error was printed. `StatusAgreesWithFailures` says where the two may differ (`IndexUvmLog`).
- `adapters/uvm_log.py:446` has an error overridden by an explicit pass; the rules beneath it, and the docstring, do not. The
  docstring's last rule (`:437`) is "pass"; the code's is `aborted` without a clean exit (`TestStatus`).
- `adapters/uvm_log.py:421` prefers the most specific pattern for a test's name; the leftmost match wins, whichever alternative it is
  (`TestName`).
- `adapters/uvm_log.py:554` passes 500 to `extract_excerpt` as its second parameter, which is the first line to show: the extract of
  a shorter message is empty.
- A Questa report with its file before the `@` has neither time nor component, and a component before its tag stays in the message
  (`Captured`, `Taken`); where a tag stands in a component's place it is taken for one. Any line that mentions
  `UVM_ERROR` is a failure, by the last pattern.
- `src/docs/ids.md:193` has a signature represent the type of failure, not the instance. It hashes the message as it was captured
  (`indexing/indexer.py:413`), and what stands in it before the text depends on the pattern: the native and Jenkins patterns keep `[TAG]`,
  Questa's drops it, the generic one keeps the rest of the line. So one report in two layouts has two signatures, and a component or a tag
  that stays in the message may count as a cue or a protocol (`Left`, `Summary`). Within a layout a signature does not
  depend on the instance where the pattern captures it, nor on the time (`SignatureOfTheReport`).
- Two JUnit failures of one message and different details may differ in category or protocol, and so in their signatures, of which
  the details are no part (`JUnitMessage`).
- The index of artifacts by basename is built from the files that match the first basename looked up, read as a pattern, and kept for
  the life of the indexer (`indexing/indexer.py:825`): later basenames are found only if that pattern matched them, and a second
  pass of one indexer object sees the files of the first (`BuildIndex`, `IndexAfter`).
- `indexing/indexer.py:816` asks whether a path is a link after it was resolved, so a link is never refused (`Target`).
- `src/docs/how-to-use.md:89` has missing coverage as unavailable; a report in which nothing is recognized is stored as 0 percent
  (`Placeholder`), which lowers the score and leads the advice.
- `coverage.advisor` cuts to its limit before it drops duplicates, so it may show fewer advisories than asked for and there are
  (`SelectedGaps`, `Advisories`).
- An empty cell of a URG table is skipped, and the scores after it go to the columns before theirs.
- `src/docs/guides/simulator-support.md:11` has assertion reports as a source of definitions and failures; the text formats name no
  test (`test_name` is None), and the indexer passes over what names none.
- `src/docs/index-store.md:232` has `total_items` as a `COUNT(*)`; the SVA tools report the rows they fetched, one page beyond
  the one asked for (`tools/core.py:827`, `FetchedWalkComplete`).
- `tools/core.py:1170` has each row of a trend as one run's average; the limit counts summaries, so the last run shown may be the average
  of a part of its summaries (`TrendWholeButLast`).
- `wave.signals` reads the file on disk again, which need not be the one indexed (`tools/core.py:540`).
- `tools/core.py:746` has NOT_FOUND if no status file could be located; a half-written file, or one over 100
  percent, is answered NOT_FOUND as well (`LiveStatus!Valid`).
- `src/docs/ids.md:140` has failures uniquely addressable within a test; the indexer passes neither
  time, component, phase nor evidence to the failure id, so a repeated message has one row, of its
  last occurrence (`FailureIdOf`).
- `indexing/store.py:1942` says "Insert or replace SVA run status"; every status draws a fresh row id, so none is
  replaced (`InsertSvaRunStatus`).
- `src/docs/index-store.md:233` asks for a secondary sort on the primary key; the SVA queries have
  none, and rows that tie may come in another order at the next page (`query_sva_run_status`).
- `src/docs/tools/overview.md:213` has `INDEX_NOT_READY` for an index that is not built or stale; a server creates an
  empty one, or keeps the one it opened, and answers (`IndexFile!GetStore`).
- `schemas/live_sim.py:22` has `tests_done` as pass and fail; the reference harness writes `tests_passed` and
  `tests_failed`, the reader takes `tests_passing` and `tests_failing`, so both are 0.
- `schemas/live_sim.py:36` has a file older than the limit marked stale; one that is removed between its read and
  its second stat is answered as fresh (`LiveStatus!Stale`, the exception in `DeadIsStale`).
- `tools/core.py:1166` has a trend from oldest to newest; a row's time is that of indexing, and a pass meets
  artifacts in the order of their paths, so build 10 comes before build 9, and all of them are of the last pass
  (`Analytics!Tick`). `window_days` of `tests.history` measures the same time.
- `tools/core.py:1177` has the trend limit as a maximum of runs; it counts summaries, and keeps the oldest (`Cuts`).
- `src/docs/index-store.md:283` compares runs by framework, name and seed; `diff_runs` pairs by name alone, and keeps the
  oldest of two rows of one name (`StatusByName`).
- `src/docs/about/changelog.md:30` has exact run scoping of cross-simulator comparisons; the divergence of a run's health is that of
  its suite, and counts pairs of simulators where what it is divided by counts tests (`Divergence`, `CrossSimCohorts`).
- `src/docs/index-store.md:276` orders the signatures of a summary by the tests they affect; the code orders them by failures, and
  lists a signature once a summary text (`TopSignatures`).
- `src/docs/how-to-use.md:97` speaks of tests that pass and fail; `is_flaky` of `tests.history` counts any two statuses (`IsFlaky`).

## 5. Proofs

`IndexPassProofs` proves, for every configuration, every set of names and every set of corpora
that satisfy the assumptions `CorporaTyped`, `CorporaParsed` and `RankAssumption`:

- `TypeCorrect`: `Spec => []TypeOK`
- `HandlersSafe`: `Spec => []HandlerInv`
- `FailedRunShown`: `Spec => []FailedRunNeverPasses`
- `FailureSticky`: `Spec => FailureIsSticky`
- `Inductive`: `Spec => []IInv`, of which these are consequences

`CorporaParsed` is what the argument needs of the parsers: a UVM log is one test and its failures are that
test's, and a JUnit file has a failure for each failing testcase and for no other.

The claim `FailedRunNeverPasses` is not inductive. The step that could break it is
`InsertTest`, which writes a failing test: it keeps the claim only because the run row the
handler wrote first is failing *now*. That is `HandlerInv`: inside a results file the file is one the handler
opens, its run's row is there, and is failed if the file fails, whichever statement the handler is at. It
holds from `IndexUvmLog` or `IndexCocotbXml` on because only handlers of other files write other
run rows, and no other handler runs in between. `HandlerInv` also says that a run has one row, so that
`UpsertRun` has one status to keep. The other step is `InsertFailure`: a failure of a testcase
makes the file failing, by `CorporaParsed`. `IndexCoverageArtifact` upserts a run with "pass":
the row it replaces is either absent, and then no test or failure has that run
(`ResultsResolve`), or it is there, and a failing one stays failing. So the invariant is

```
IInv == TypeOK /\ HandlerInv /\ ResultsResolve /\ FailedRunNeverPasses
```

The proof has a lemma for each action or group of actions, under it one step for each
conjunct that the action can disturb, and lemmas about `Upsert`, `UpsertRun`, `ResolveTest` and
the typing of files and identities. `FailureIsSticky` follows from `TypeOK` and `HandlerInv` action by action.

Its second part adds, from the same assumptions:

- `ReferencesAlwaysResolve`: `Spec => []ReferencesResolve`
- `ReferencesInductive`: `Spec => []RInv`, of which it is a consequence

A row is written before the rows that name it, but in another statement, and the process may stop in between. So the
claim needs what a handler's statements *to come* can rely on, `MidInv`: while the evidence of a failure is written the failure is
there; a coverage summary's run is there before the summary, because a handler that resolved no test upserted one; after a row with a
sequence number its table is not empty, so that the evidence's owner is the last row. The delicate part is the assertion
that an assertion failure names, which `index_assertions` takes from a dictionary of names it fills as it goes
(`indexing/store.py`). In the model that is `AssertionOf`, with no dictionary: the last definition of the name, or else the assertion made for the
first failure of the name. `InBundle` says that the definitions before the cursor, and the assertions of the failures before it, are stored; and
`AssertionKnown` shows that a failure that makes no assertion of its own finds one, by a definition or by an earlier namesake, whose
own `AssertionOf` is the same row. That rows are not lost on the way is `StickyStep`.

```
RInv == IInv /\ MidInv /\ CorrelationsResolve /\ EvidenceResolves
```

`IndexMeaningProofs` relates the pass to the reference meaning of `IndexContent`, from the same assumptions and
`NoneAssumption` (no test id is the empty one):

- `FinishedIndexIsContent`: `Spec => []WholeIsContent`
- `EvidenceOfTheRow`: `Spec => []EvidenceIsOfTheRow`
- `FailedRunsExplained`: `Spec => []FailedRunExplained`
- `LogEventsStored`: `Spec => []LogEventsKept`
- `ImplementsBuildSafe`: `Spec => Build!BuildSafe`, the abstract rebuild without its liveness
- `MeaningInductive`: `Spec => []MeaningInv`, and `KeptInductive`: `Spec => []KeptInv`, of which these are consequences

The reference knows all the artifacts and no order of statements; the pass knows its cursor, and of its past only the rows. `Filled`
is what the cursor and the rows have to do with each other. `DoneCases`, `DoneOccurrences`, `OpenedFiles` and `DoneOrphans` are the positions
the cursor has passed, and `LastRows` says of a table that it has a row for each id a passed position writes, which is the row of the
last such position, and no other row. A step that stores a row adds one position, which is after all those before it (`LastRowsGrow`), and
when the phases are over the positions are all there are (`AllDone`), so that the table is the reference's set of rows (`LastRowsAre`,
`TablesAreExpected`). The order needs an invariant of its own, `InOrder`: the failures of a testcase are taken from the set `left` by least
element, and that those still to come are after those stored is not a fact about the rows. `EvidenceAre` says the same of the evidence: of
the failure being written it is what the loop has reached, and of any other the references of its last occurrence; the hard case is
a failure that replaces one whose evidence was complete (`EvidenceWritten`, `CurrentIsLast`). A run is failed exactly if an opened file of
it fails; that a coverage file opens a run only if no test matches its name at the end, as the reference has it, holds because all
results files are done by then (`ResolvesIfMatched`, `OrphanIf`).

```
MeaningInv == /\ Building => whole = None /\ Filled
              /\ InOrder /\ WholeIsContent /\ EvidenceIsOfTheRow
```

`LogEventsKept` has an invariant of its own, for the two phases that store assertion failures. `LogsKept` counts a log's rows by the cursor
(`EventsDone`), and `InEventsFile` keeps, from the lookup of a log's test to the last of its failures, that the test found is of the log's
name. It is, because by then the log's own row is there (`Filled`), ranks first for that name, and only rows of its name rank with it (`LogResolves`).
Rows are told apart by the path they came from, so the property is about a log whose path no other file has (`OwnPath`); with a file of the
same relative path under another root the rows of both would be counted.

```
KeptInv == (Building => LogsKept) /\ InEventsFile /\ LogEventsKept
```

The refinement maps `Scan` to `Begin`, `Unlink` to `Forget`, `Close` to `Complete`, `Crash` and the aborts to `GiveUp`, and every
statement between them to `Show`: what is shown only grows by `StickyStep`, and is no more than the scanned artifacts mean by
`Filled` (`ShowsOnlyMeaning`). That a rebuild ends is liveness and stays with TLC (`ImplementsIndexBuild` checks both).

`ListingProofs` proves, for every set of tables and all limits that satisfy `TablesAssumption`, `LimitsAssumption` and
`PageBoundAssumption` (the bound on the walk is no less than the number of rows, so it cuts nothing short):

- `WalkTyped`: `Spec => []TypeOK`, which has no answer offer a page beyond the rows
- `CountedWalk`: `Spec => []CountedWalkExact`
- `FetchedWalk`: `Spec => []FetchedWalkComplete`
- `GapsWalk`: `Spec => []GapsWalkExact`
- `WalkInductive`: `Spec => []WalkInv`, of which these are consequences

Each call may see its rows in another order, and the pages fit together only because there is but one (`OneOrdering`): the sort with the row id
is total, so two orderings that first differ at a place would each have the other's row later, and so each come before the other.
`WalkLength` needs no order: `FetchedAre` and `PageAnswered` say how many rows a page has and that the client goes on exactly if there are
more, also where the total is that of the rows fetched, one page ahead (`Division` is the rounding of `total_pages`). Both parts claim nothing
once the server has opened another index.

```
WalkInv == TypeOK /\ WalkLength /\ WalkRows
```

`LiveStatusProofs` proves, for every set of paths and suites, every search order, limits and clock that satisfy
`SearchAssumption` and `NoneAssumption`:

- `TypeCorrect`: `Spec => []TypeOK`
- `NewestIsAnswered`: `Spec => NewestAnswered`
- `SteadyIsFound`: `Spec => FoundIfSteady`
- `DeadAreStale`: `Spec => DeadIsStale`
- `Invariant`: `Spec => []IInv`, of which these are consequences

A call is a loop over candidates, and the files change between its steps. `Scanned` is the loop's invariant under the
premise that nothing changed so far (`quiet`): the best is still what it was, and no candidate passed over is newer. `Found` is weaker and
under a weaker premise (`steady`, files that are replaced but neither removed nor cut): one of the files that are there is the best already or is
still ahead. `LeftBehind` has no premise: a file is never newer than the moment its harness stopped, so its age, taken from the second stat, is at
least the time since.

```
IInv == TypeOK /\ CallOK /\ Scanned /\ Found /\ LeftBehind
```

`IntakeProofs` proves, for every set of artifact sets, texts and names that satisfies `WorksAssumption`, `ReportsAssumption`,
`NamesAssumption`, `NoIndexAssumption` and the three that limits are positive:

- `IntakeTyped`: `Spec => []TypeOK`
- `ReportsAreKept`: `Spec => []EachReportOnce`
- `StatusesAgree`: `Spec => []StatusAgreesWithFailures`
- `SignaturesAgree`: `Spec => []SignatureOfTheReport`
- `PointersAreFound`: `Spec => []FoundUnlessIndexedForAnother`
- `MetricsOfTheReport`: `Spec => []MetricsAreRead`
- `WorstFirst`: `Spec => []WorstIsAdvised`
- `IntakeInductive`: `Spec => []IInv`, of which these are consequences

`LogsKept` says that the test and the failures kept of a log are what its lines say: a log is read once, and
what later files add has their number. The rest about logs is arithmetic-free reasoning about the lines: the last pattern takes every
line (`SomePatternMatches`), and the status is that of the first rule that holds (`StatusRules`), so that the two
statuses of a log differ only where a line fails it without an error. `PathsRight` says that each pointer resolved so far
is right *by the index there is now*. It is resolved pointer by pointer while the index may still be built, so the claim needs that
an index, once built, stays (`RightStays`), and that the pointers resolved so far are those of the file being read.
`SomeIsNearest` is the fact that some artifact of a name shares the most directories with a file, for any set of
artifacts: shared parts are at most the parts of the file, which are finitely many, and `LeastNatural` takes the least difference.

`EventsRead` and `SummariesRead` say that the tags of a failure are those of the words of its message and of *some* phase, component and framework, and that a
summary is what the parser of its report returns; a handler reads one file, so these are kept by every other step for free.
The work is in what the functions return:

- lists: the places `SelectInOrder` and `SortedBy` choose by counting exist and are each chosen once (`RanksAreAll`: finite sets of
  which of any two one is a proper part of the other have all sizes from one up), so both lose and invent nothing (`SelectedSeq`, `SortedIs`);
  that joined lists are a list needs the function that joins them to exist (`JoinExists`), by a least counterexample;
- signatures: two reports printed alike are taken by one pattern, which leaves the same parts of both (`MessagesAlike`), so their messages have the
  same words and the same summary: the category agrees, and the protocol is the one that remains. A failure's protocols stand in its tags right behind the category tags and the framework, wherever the cut is
  (`ProtocolPlaces`): vendor, phase and roles are appended behind them, and the framework is one tag, whichever it is. That no
  role, vendor or category is the name of a protocol is part of it, and "protocol", a category, is none (`BuiltTags`).
  So the protocol is a function of the words (`ProtocolOfTheWords`);
- metrics: what sorting, renaming, rescoping and cutting do to a list of rows leaves each metric drawn from one of them
  (`DrawnFrom`), and each of the six parsers draws from the rows laid out if there are any (`ReportRead`). For Questa the rows before the
  broken entry of a selection are the selection of the rows before it (`RowsBeforeBroken`);
- advice: a cut of a sorted list leaves out what is no more urgent (`CutLeavesLessUrgent`), and of two gaps of one name the less covered is
  strictly more urgent (`UrgencyIs`). Hence the first of several gaps of one scope and name is the worst one *stored*: were a
  worse one cut away, something less urgent would have been kept (`AdviceIs`, for any limit and protocol, where the
  run and `WorstIsAdvised` have the limits 1 and 2 and no protocol). It needs coverage not to be negative, which `ReportRead` has for what a
  parser lets through.

`ReportsAssumption` is what a report that is read is: its percentages are not negative (`schemas/coverage.py:23`), but for Questa's -1,
and only URG and Questa have rows of a plan. Percentages above 100 are not excluded. `NamesAssumption`: the names that parsers give on their own
are among the names.

```
IInv == LogsKept /\ PathsRight /\ Placed /\ EventsRead /\ SummariesRead
```

`VcdWindowProofs` proves, for every set of headers and windows that satisfy `NamesAssumption`,
`WindowsAssumption` and `NoneIsNoTime`, and traces of any length:

- `TypeCorrect`: `Spec => []TypeOK`
- `TogglesRight`: `Spec => []TogglesExact`
- `EdgesRight`: `Spec => []EdgesExact`
- `Inductive`: `Spec => []IInv`, of which these are consequences

That the counts are right needs to know what the running values are. `RunningHeld` says it: an identifier's
running value is that of its last change, *until the trace is past the window*. After it the parser stops
looking, and the claim would be false; it is no longer needed, because times do not decrease (`TimesPassed`), so no change
after that is in the window. `EdgesHeld` says the same of the values kept by name, for the changes ahead of the window and inside
it. The delicate step is the first change of a name in the window when the name has no value before it:
the code then takes the running value of the identifier (`adapters/vcd_summary.py:76`), which by
`RunningHeld` is none (`NotSeen`), whichever of the name's identifiers changes first. `SetsGrow`, `OfGrows` and `TogglesGrow` say
how the reference's sets grow by one change, `Held*` what it is to hold the last value of a set.

```
IInv == TypeOK /\ TimesPassed /\ RunningHeld /\ TogglesExact /\ EdgesHeld
```

`IndexFileProofs` proves, for any number of indexers, servers and files that satisfy `FilesAssumption`:

- `TypeCorrect`: `Spec => []TypeOK`
- `PassesWriteToNewFiles`: `Spec => []WritesToNewFile`
- `ServedStays`: `Spec => ServedSnapshot`

A pass looks for the old file, unlinks it and connects in three steps, between which any other process may create a file at
the path; so what a pass opens need not be a file it created. It is one created during the pass, because
whatever the path names once the pass is past its unlink was put there since: `PathIsNew`. That the pass
then has the file to itself is DuckDB's lock, `OpenOnce`, which `ServedSnapshot` needs too: who writes to a file is not the server that
answers from it.

```
IInv == TypeOK /\ OpenOnce /\ PathIsNew /\ WritesToNewFile
```

`FreeExists` is the counting argument that there is always a file to create. The theorems say nothing of passes that
overlap: those can write their rows to one file, one after the other, and the index is then the mixture.

`AnalyticsProofs` proves, for every set of artifacts, any number of rows and all limits that satisfy `MenusAssumption`, `LimitsAssumption`
and `NoneAssumption` (no percentage is the missing one):

- `AnalyticsTyped`: `Spec => []TypeOK`
- `DiffIsComplete`: `Spec => []DiffReconstructs`
- `FlakyWereRepeated`: `Spec => []FlakyHaveHistory`
- `DivergenceIsCounted`: `Spec => []DivergentAreCounted`
- `TriageAgrees`: `Spec => []TriageToolsAgree`
- `TrendIsWhole`: `Spec => []TrendWholeButLast`
- `ReadyMeansPassing`: `Spec => []SignOffMeansPassing`
- `AnalyticsInductive`: `Spec => []IInv`, of which these are consequences

`MenusAssumption` has what the tools need of the artifacts: a failing test has failures and no other has, and a report's percentages are at most
100. The parsers do not look at the latter (`schemas/coverage.py:23` only says it); a report over 100 percent could make up in the score for
tests that fail.

```
IInv == /\ TypeOK /\ ClockInv /\ OneRowATest /\ menu \in Menus
        /\ tests and failures are finite, and each coverage summary is of the artifacts and of a run that is there
```

The tools keep nothing, so the invariant is small: a run has one row and a time of its own (`ClockInv`), and a test has one row in a run
(`OneRowATest`, without which a test could be flaky in one run). What is left is about the operators, for tables of any size, and most of it is
about sums: of counts in a diff, of groups in a summary, of differences in a trend, of percentages. The library's induction
theorems take an operator as a parameter, which the provers cannot instantiate; `SetInduction` is induction over finite sets with the property as a *set of
sets*, from the well-foundedness of strict inclusion, and `SumParts`, `SumReindex` and `SumOfParts` follow from it: a sum does not depend on an
order, on the names of its terms or on how they are grouped. With them

- a diff adds up because each failure has one signature and each signature is new, persistent or neither (`NewAddsUp`, `PersistentAddsUp`);
- a summary lists a signature once a text, and its groups of one signature are disjoint parts of the cluster (`GroupsAddUp`, `SummaryIsOfClusters`);
  that a list cut to a limit keeps the largest needs that such a choice exists (`TopExists`);
- only the last run of a trend can be cut, because runs have different times and the cut goes by time (`OnlyTheLastIsCut`), and the deltas telescope
  from each run to the next one by induction over the runs before it (`DeltasTelescope`);
- of 100 percent of the weights that are there, at most a tenth is missing from a score of 90, and no weight is below a tenth of all of
  them: pass rate (30) and coverage (35) cannot be low, nor both consistencies (10 each) nothing (`ScoreIs`).

Only model-checked: that a rebuild ends, in `ImplementsIndexBuild`, and the other liveness properties (`RebuildsComplete`,
`RebuildsGoOn`, `WalkEnds`). Liveness under fairness is out of TLAPS's reach and stays with TLC. Every invariant of a passing run
has a theorem.

## 6. Not modelled

In the modelled components:

- a file that is rewritten while a pass runs: the pass reads what its scan saw;
- the pass's counters, warnings and statistics; the VCD fallback of a waveform summary; the rows of `meta`;
- of a log: its seed, simulator, durations and topology, and the case and spacing of its text; that long messages are truncated and secrets in them
  replaced before they are hashed; the name of an assertion, which is a tag; of a coverage report: missed bins, counts of hits,
  fractions of a percent, artifacts of several files; of an advisory: the text of its template, and the 2000 rows its query stops at;
- `created_at` ties: the code falls back to the smallest hash, here an arbitrary fixed choice;
- two artifacts of one path under two roots, and collisions of shortened hashes, which are assumed away: a path stands for
  the pair (path, hash), an id for the fields it hashes;
- schema migration of an existing file: a pass starts from a fresh one;
- DuckDB's write-ahead log: a committed statement is durable;
- several servers in one process, and a call that is interrupted;
- what a response looks like, beyond its size;
- of a dump: its text, its timescale, and a `$var` or a decreasing time after the first change.
- of the comparing tools: the coverage deltas of a diff, the pass rate of `regression_summary`, recommendations, the window of `tests.history`, the limits of `runs.cross_sim`, several tests that share one file's time.

Other components: the JUnit, assertion, waveform and SVA formats, redaction and text generation are pattern matching over
text without state, and the models take what the parsers hand over; single-row lookups keep nothing and one statement
answers; configuration is read once; fixtures, scripts and documentation are data.

## 7. Plan

Done: `IndexContent`, `IndexBuild`, `IndexPass` with its proofs; `IndexFile` with two indexers and its proofs; `Listing`,
`LiveStatus`, `VcdWindow` and `Analytics` with their proofs; `Intake` with `UvmLog`, `Taxonomy`, `EvidencePaths`,
`CoverageReports`, `CoverageAdvice`, `Lists` and its proofs.

Next modules, in order:

1. The rest of `Analytics`: the SVA tables with the assertion component of the score, and the coverage deltas of `diff_runs`.
2. The SVA and assertion formats in `Intake`, whose counts can abort a pass.
3. The waveform tools around `VcdWindow`: the file that is looked up again, and the list of signals that is cut.

Next theorems, in order: that `KindOf` gives a summary the kind of its metrics; that a history and a diff of `Analytics` agree on
the runs both show; the invariants of the modules above.
