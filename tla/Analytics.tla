------------------------------ MODULE Analytics ------------------------------
(***************************************************************************)
(* The tools that compare runs: runs.diff, runs.cross_sim, tests.history,  *)
(* tests.cluster, regressions.summary, regression.health, coverage.trend,  *)
(* over an index of any contents.                                          *)
(*                                                                         *)
(* The index grows by one file of one test or by one coverage summary a    *)
(* step, in the order a pass meets them (IndexPass has its statements);    *)
(* every tool can be asked of every state. A row's time is the time it was *)
(* indexed, which is all the tools have to tell which of two runs is the   *)
(* later. They read it as text, in microseconds (`at`), or as a number, in *)
(* milliseconds (`ms`), in which rows can tie.                             *)
(***************************************************************************)
EXTENDS Integers, Sequences, FiniteSets, FiniteSetsExt, Functions

CONSTANTS
    Runs, SuiteOf,      \* SuiteOf[r]: the suite of run r, hashed into its id
    Names, Frameworks,
    Sims, NoSim,        \* simulators; NoSim where a log does not tell
    Texts, SigOf,       \* failure summaries; SigOf[x]: the signature of summary x
    Kinds,              \* of coverage
    None,               \* no filter, no status
    Menus,              \* sets of results and summaries a tree of artifacts can hold
    DiffCap,            \* tests of a run that runs.diff fetches (10 000)
    HistoryLimit,       \* limit of tests.history (50)
    TrendLimit,         \* limit of coverage.trend (20)
    TopLimit,           \* clusters of tests.cluster, signatures of regressions.summary (20)
    MaxIndexed          \* bound: results and summaries indexed

Suites == {SuiteOf[r] : r \in Runs}
Statuses == {"pass", "fail", "skip"}
Results ==
    [run : Runs, name : Names, framework : Frameworks, sim : Sims \cup {NoSim},
     status : Statuses, texts : SUBSET Texts]
Summaries == [run : Runs, kind : Kinds, total : Nat, count : Nat]

\* A parser gives a failing test failures, and no other (IndexContent!CorporaParsed). The
\* percentages that the reports print are at most 100 (the code does not look, coverage.py:23
\* of the schemas says so).
ASSUME MenusAssumption ==
    \A m \in Menus :
        /\ m.results \subseteq Results /\ m.summaries \subseteq Summaries
        /\ \A x \in m.results : IsFiniteSet(x.texts) /\ (x.texts # {} <=> x.status = "fail")
        /\ \A x \in m.summaries : x.total <= 100 * x.count

ASSUME LimitsAssumption ==
    /\ {DiffCap, HistoryLimit, TrendLimit, TopLimit} \subseteq Nat \ {0}
    /\ MaxIndexed \in Nat

ASSUME NoneAssumption == None \notin Int

VARIABLES
    menu, at, ms,   \* artifacts, clock
    runs, tests, failures, coverage

vars == <<menu, at, ms, runs, tests, failures, coverage>>

Init ==
    /\ menu \in Menus
    /\ at = 0 /\ ms = 0
    /\ runs = {} /\ tests = {} /\ failures = {} /\ coverage = << >>

Tick ==
    /\ at < MaxIndexed
    /\ at' = at + 1 /\ ms' \in {ms, ms + 1}

IsIndexed(r) == \E x \in runs : x.run = r

UpsertRunAnew(r) == \* mutant: a run that is there gets the time of its last file
    runs' = {x \in runs : x.run # r} \cup {[run |-> r, at |-> at', ms |-> ms']}

\* A run that is there keeps its time.
UpsertRun(r) ==
    runs' = IF IsIndexed(r) THEN runs ELSE runs \cup {[run |-> r, at |-> at', ms |-> ms']}

SameTestAndSim(t, u) == \* mutant: the id of a test has its simulator
    t.run = u.run /\ t.name = u.name /\ t.framework = u.framework /\ t.sim = u.sim

\* Two results with one test id.
SameTest(t, u) == t.run = u.run /\ t.name = u.name /\ t.framework = u.framework

\* The failures of a replaced row stay.
IndexResult(x) ==
    /\ Tick /\ UpsertRun(x.run)
    /\ tests' = {t \in tests : ~SameTest(t, x)} \cup
                {[run |-> x.run, name |-> x.name, framework |-> x.framework, sim |-> x.sim,
                  status |-> x.status, at |-> at', ms |-> ms']}
    /\ failures' = failures \cup
                {[run |-> x.run, name |-> x.name, framework |-> x.framework, text |-> s] :
                    s \in x.texts}
    /\ UNCHANGED <<menu, coverage>>

IndexCoverage(x) ==
    /\ Tick /\ UpsertRun(x.run)
    /\ coverage' = Append(coverage, x)
    /\ UNCHANGED <<menu, tests, failures>>

Next ==
    \/ \E x \in menu.results : IndexResult(x)
    \/ \E x \in menu.summaries : IndexCoverage(x)

Spec == Init /\ [][Next]_vars

Indexed == {x.run : x \in runs}
IndexedAt(r) == (CHOOSE x \in runs : x.run = r).at

(***************************************************************************)
(* runs.diff. The query is newest first; of two tests of one name the      *)
(* dictionary keeps the one that comes last.                               *)
(***************************************************************************)
TestsOf(r) == {t \in tests : t.run = r}

\* ORDER BY created_at DESC LIMIT n; rows that tie are an arbitrary fixed choice.
Newest(S, n) ==
    CHOOSE T \in SUBSET S :
        /\ Cardinality(T) = Min({n, Cardinality(S)})
        /\ \A t \in T, u \in S \ T : t.at >= u.at

StatusByName(r, n) ==
    LET S == {t \in Newest(TestsOf(r), DiffCap) : t.name = n} IN
    IF S = {} THEN None ELSE (CHOOSE t \in S : \A u \in S : t.at <= u.at).status

TestChangesCommon(a, b) == \* mutant: only tests of both runs
    {[name |-> n, base |-> StatusByName(a, n), compare |-> StatusByName(b, n)] :
        n \in {m \in Names : /\ StatusByName(a, m) # StatusByName(b, m)
                             /\ StatusByName(a, m) # None}}

\* Changed, removed (compare = None) or added (base = None).
TestChanges(a, b) ==
    {[name |-> n, base |-> StatusByName(a, n), compare |-> StatusByName(b, n)] :
        n \in {m \in Names : StatusByName(a, m) # StatusByName(b, m)}}

Signatures == {SigOf[x] : x \in Texts}
SigCount(r, s) == Cardinality({f \in failures : f.run = r /\ SigOf[f.text] = s})

NewFailures(a, b) ==
    {[sig |-> s, count |-> SigCount(b, s)] :
        s \in {q \in Signatures : SigCount(a, q) = 0 /\ SigCount(b, q) > 0}}
ResolvedFailures(a, b) == NewFailures(b, a)
PersistentFailures(a, b) ==
    {[sig |-> s, base_count |-> SigCount(a, s), delta |-> SigCount(b, s) - SigCount(a, s)] :
        s \in {q \in Signatures : SigCount(a, q) > 0 /\ SigCount(b, q) > 0}}

(***************************************************************************)
(* tests.history, runs.cross_sim and regression.health. A cohort is the    *)
(* tests of one name and framework (the indexer passes no dut_top).        *)
(***************************************************************************)
Cohort(t) == [name |-> t.name, framework |-> t.framework]
Cohorts == {Cohort(t) : t \in tests}
InSuite(s) == {t \in tests : s = None \/ SuiteOf[t.run] = s}
StatusesOf(T) == {t.status : t \in T}

\* ORDER BY created_at_ms DESC LIMIT n.
NewestByMs(S, n) ==
    CHOOSE T \in SUBSET S :
        /\ Cardinality(T) = Min({n, Cardinality(S)})
        /\ \A t \in T, u \in S \ T : t.ms >= u.ms

History(c, s) == NewestByMs({t \in InSuite(s) : Cohort(t) = c}, HistoryLimit)
IsFlaky(c, s) == Cardinality(StatusesOf(History(c, s))) > 1

\* recency_rank = 1: the latest test of a suite, cohort and simulator.
IsLatest(t) ==
    LET S == {u \in InSuite(SuiteOf[t.run]) : Cohort(u) = Cohort(t) /\ u.sim = t.sim} IN
    {t} = NewestByMs(S, 1)

ComparableAcross(a, b) == \* mutant: of any suites
    Cohort(a) = Cohort(b) /\ a.sim # b.sim /\ NoSim \notin {a.sim, b.sim}
Comparable(a, b) ==
    /\ Cohort(a) = Cohort(b) /\ SuiteOf[a.run] = SuiteOf[b.run]
    /\ a.sim # b.sim /\ NoSim \notin {a.sim, b.sim}

\* The pairs of tests of different simulators that runs.cross_sim returns for a suite (it
\* filters by prefix: of a name that begins no other), before its limit.
Divergence(s) ==
    {p \in SUBSET InSuite(s) :
        \E a, b \in p : /\ p = {a, b} /\ Comparable(a, b)
                        /\ IsLatest(a) /\ IsLatest(b)
                        /\ a.status = "pass" /\ b.status = "fail"}

\* The scope of regression.health: a run, whose suite is then meant too, a suite, or none.
Scopes ==
    {[run |-> None, suite |-> s] : s \in Suites \cup {None}} \cup
    {[run |-> r, suite |-> SuiteOf[r]] : r \in Indexed}

ScopedTests(sc, c) ==
    {t \in InSuite(sc.suite) :
        /\ Cohort(t) = c
        /\ sc.run # None => \E u \in TestsOf(sc.run) : Cohort(u) = c}

FlakyCohorts(sc) == {c \in Cohorts : {"pass", "fail"} \subseteq StatusesOf(ScopedTests(sc, c))}
HistoryCohorts(sc) ==
    {c \in Cohorts : Cardinality({t.run : t \in ScopedTests(sc, c)}) >= 2}

\* By suite, also if the scope has none.
CrossSimCohorts(sc) ==
    {p \in Cohorts \X Suites :
        Cardinality({t.sim : t \in {u \in ScopedTests(sc, p[1]) :
            /\ SuiteOf[u.run] = p[2] /\ u.status \in {"pass", "fail"} /\ u.sim # NoSim}}) >= 2}

(***************************************************************************)
(* tests.cluster and regressions.summary: the signatures with the most     *)
(* failures of a set of runs. A summary's groups are finer, of one text.   *)
(***************************************************************************)
FailuresIn(R) == {f \in failures : f.run \in R}
Members(R, s) == {f \in FailuresIn(R) : SigOf[f.text] = s}
Group(R, g) == {f \in FailuresIn(R) : f.text = g}

LeadingAny(size) == \* mutant: the list is not ordered by size
    CHOOSE T \in SUBSET DOMAIN size : Cardinality(T) = Min({TopLimit, Cardinality(DOMAIN size)})

\* The TopLimit largest.
Leading(size) ==
    CHOOSE T \in SUBSET DOMAIN size :
        /\ Cardinality(T) = Min({TopLimit, Cardinality(DOMAIN size)})
        /\ \A x \in T, y \in DOMAIN size \ T : size[x] >= size[y]

Clusters(R) ==
    Leading([s \in {SigOf[f.text] : f \in FailuresIn(R)} |-> Cardinality(Members(R, s))])

\* The runs of a suite in a window of time.
WindowRuns(s, w) == {x.run : x \in {y \in runs : SuiteOf[y.run] = s /\ y.ms \in w}}
TopSignatures(R) ==
    LET size == [g \in {f.text : f \in FailuresIn(R)} |-> Cardinality(Group(R, g))] IN
    {[sig |-> SigOf[g], text |-> g, count |-> size[g]] : g \in Leading(size)}

(***************************************************************************)
(* coverage.trend. The limit counts summaries, and cuts them in the order  *)
(* of their runs; which of a run's summaries come first is not said.       *)
(***************************************************************************)
Selected(s, k) ==
    {j \in DOMAIN coverage : /\ s = None \/ SuiteOf[coverage[j].run] = s
                             /\ k = None \/ coverage[j].kind = k}

CutsUnordered(S) == {T \in SUBSET S : Cardinality(T) = Min({TrendLimit, Cardinality(S)})} \* mutant: no ORDER BY
Cuts(S) ==
    {T \in SUBSET S :
        /\ Cardinality(T) = Min({TrendLimit, Cardinality(S)})
        /\ \A j \in T, m \in S \ T : IndexedAt(coverage[j].run) <= IndexedAt(coverage[m].run)}

\* The average over the metrics of summaries, as a rounded percentage.
Metrics(S) == SumFunction([j \in S |-> coverage[j].count])
MeanPct(S) == SumFunction([j \in S |-> coverage[j].total]) \div Metrics(S)

CoveredPct(T, r, k) ==
    LET S == {j \in T : coverage[j].run = r /\ coverage[j].kind = k} IN
    IF Metrics(S) = 0 THEN 0 ELSE MeanPct(S)

TrendRuns(T, k) == {coverage[j].run : j \in {m \in T : coverage[m].kind = k}}
Before(T, r, k) == {q \in TrendRuns(T, k) : IndexedAt(q) < IndexedAt(r)}

\* Against the previous run of the kind, or None.
DeltaPct(T, r, k) ==
    IF Before(T, r, k) = {} THEN None
    ELSE CoveredPct(T, r, k) -
         CoveredPct(T, CHOOSE q \in Before(T, r, k) :
                           \A p \in Before(T, r, k) : IndexedAt(p) <= IndexedAt(q), k)

(***************************************************************************)
(* The score of regression.health: the weighted mean of the components     *)
(* that there are data for, in rounded percentages. That of assertions is  *)
(* of tables that are not here, and a parameter.                           *)
(***************************************************************************)
HealthTests(sc) == IF sc.run # None THEN TestsOf(sc.run) ELSE InSuite(sc.suite)
Passed(T) == {t \in T : t.status = "pass"}

PassRateOptimistic(T) == \* mutant: no test is no failing test
    IF T = {} THEN 100 ELSE (100 * Cardinality(Passed(T))) \div Cardinality(T)
PassRate(T) == IF T = {} THEN 0 ELSE (100 * Cardinality(Passed(T))) \div Cardinality(T)

\* The mean over the kinds that have metrics of their means.
OverallCoverage(sc) ==
    LET S == {j \in Selected(sc.suite, None) : sc.run # None => coverage[j].run = sc.run}
        Of(k) == {j \in S : coverage[j].kind = k}
        measured == {k \in Kinds : Metrics(Of(k)) > 0} IN
    IF measured = {} THEN None
    ELSE SumFunction([k \in measured |-> MeanPct(Of(k))]) \div Cardinality(measured)

\* Nothing is left of it once half of the cohorts are bad.
Consistency(bad, cohorts) ==
    IF cohorts = {} THEN None
    ELSE Max({0, 100 - (200 * Cardinality(bad)) \div Cardinality(cohorts)})

ComponentScores(sc, assertions) ==
    [pass_rate |-> PassRate(HealthTests(sc)), coverage |-> OverallCoverage(sc),
     assertion_health |-> assertions,
     flakiness |-> Consistency(FlakyCohorts(sc), HistoryCohorts(sc)),
     cross_sim |-> Consistency(Divergence(sc.suite), CrossSimCohorts(sc))]

Weights ==
    [pass_rate |-> 30, coverage |-> 35, assertion_health |-> 15, flakiness |-> 10, cross_sim |-> 10]

HealthScore(scores) ==
    LET available == {c \in DOMAIN scores : scores[c] # None} IN
    SumFunction([c \in available |-> scores[c] * Weights[c]])
        \div SumFunction([c \in available |-> Weights[c]])

SignOffReady(scores) == HealthScore(scores) >= 90

(***************************************************************************)
(* Properties.                                                             *)
(***************************************************************************)
\* ... and a run has one row, not later than any row of it.
TypeOK ==
    /\ at \in 0..MaxIndexed /\ ms \in 0..at
    /\ runs \subseteq [run : Runs, at : 1..MaxIndexed, ms : 0..MaxIndexed]
    /\ tests \subseteq [run : Runs, name : Names, framework : Frameworks, sim : Sims \cup {NoSim},
                        status : Statuses, at : 1..MaxIndexed, ms : 0..MaxIndexed]
    /\ failures \subseteq [run : Runs, name : Names, framework : Frameworks, text : Texts]
    /\ coverage \in Seq(Summaries)
    /\ \A x, y \in runs : x.run = y.run => x = y
    /\ \A t \in tests : t.run \in Indexed /\ IndexedAt(t.run) <= t.at

\* A diff is complete: what the base run's tests and failures were, and the diff, give what
\* the compared run's are. (Of runs no longer than the fetch, with one test a name.)
OneTestAName(r) ==
    Cardinality(TestsOf(r)) <= DiffCap /\ \A t, u \in TestsOf(r) : t.name = u.name => t = u
Outcome(r, n) ==
    IF \E t \in TestsOf(r) : t.name = n THEN (CHOOSE t \in TestsOf(r) : t.name = n).status ELSE None
PatchedOutcome(a, b, n) ==
    IF \E c \in TestChanges(a, b) : c.name = n
    THEN (CHOOSE c \in TestChanges(a, b) : c.name = n).compare ELSE Outcome(a, n)

FailuresOf(r) == {f \in failures : f.run = r}

DiffReconstructs ==
    \A a, b \in Indexed :
        /\ (OneTestAName(a) /\ OneTestAName(b)) =>
               \A n \in Names : PatchedOutcome(a, b, n) = Outcome(b, n)
        /\ Cardinality(FailuresOf(b)) =
               SumFunction([x \in NewFailures(a, b) |-> x.count]) +
               SumFunction([x \in PersistentFailures(a, b) |-> x.base_count + x.delta])
        /\ Cardinality(FailuresOf(a)) =
               SumFunction([x \in ResolvedFailures(a, b) |-> x.count]) +
               SumFunction([x \in PersistentFailures(a, b) |-> x.base_count])

\* What regression.health counts as flaky was run more than once, so that its share is at
\* most one, for any scope; and tests.history of it says so too, unless its limit cuts it.
FlakyHaveHistory ==
    /\ \A sc \in Scopes : FlakyCohorts(sc) \subseteq HistoryCohorts(sc)
    /\ \A s \in Suites : \A c \in FlakyCohorts([run |-> None, suite |-> s]) :
           Cardinality({t \in InSuite(s) : Cohort(t) = c}) <= HistoryLimit => IsFlaky(c, s)

\* A test on which two simulators diverge is one of the cohorts the divergence is measured
\* against, and is flaky as well: health counts it twice, never in one component only.
DivergentAreCounted ==
    \A sc \in Scopes : sc.run = None =>
        \A p \in Divergence(sc.suite) : \A t \in p :
            /\ <<Cohort(t), SuiteOf[t.run]>> \in CrossSimCohorts(sc)
            /\ Cohort(t) \in FlakyCohorts(sc)

\* The triage tools agree: a signature that a diff shows as new leads the clusters of the
\* compared run, unless clusters as large fill the list; and what the summary of a suite
\* shows of a signature is no more than its cluster, and all of it if nothing is cut.
TriageToolsAgree ==
    /\ \A a, b \in Indexed : \A n \in NewFailures(a, b) :
           LET C == Clusters({b}) IN
           n.sig \in C \/ (/\ Cardinality(C) = TopLimit
                          /\ \A q \in C : SigCount(b, q) >= n.count)
    /\ \A s \in Suites, lo, hi \in 0..ms :
           LET R == WindowRuns(s, lo..hi)
               top == TopSignatures(R)
               Shown(g) == SumFunction([e \in {d \in top : d.sig = g} |-> e.count]) IN
           \A g \in Signatures :
               /\ Shown(g) <= Cardinality(Members(R, g))
               /\ Cardinality(top) < TopLimit =>
                      Shown(g) = SumFunction([r \in R |-> SigCount(r, g)])

\* Whatever a score leaves out for want of data, a scope it calls ready for sign-off has
\* tests, two of three of which pass, and no coverage below 71; and it is not both flaky
\* and divergent in half of what was repeated.
SignOffMeansPassing ==
    \A sc \in Scopes, assertions \in {None, 0, 100} :
        LET scores == ComponentScores(sc, assertions)
            T == HealthTests(sc) IN
        /\ HealthScore(scores) \in 0..100
        /\ SignOffReady(scores) =>
               /\ T # {} /\ 100 * Cardinality(Passed(T)) >= 66 * Cardinality(T)
               /\ scores.coverage # None => scores.coverage >= 71
               /\ ~(scores.flakiness = 0 /\ scores.cross_sim = 0)

\* However the limit cuts it, a trend has at most that many runs, all but the latest of
\* them whole, and its deltas add up from its first run to its last.
TrendWholeButLast ==
    \A s \in Suites \cup {None}, filter \in Kinds \cup {None} :
        LET S == Selected(s, filter) IN
        \A T \in Cuts(S), k \in Kinds :
            LET shown == TrendRuns(T, k)
                IsLast(r) == \A q \in shown : IndexedAt(q) <= IndexedAt(r)
                IsFirst(r) == \A q \in shown : IndexedAt(r) <= IndexedAt(q) IN
            /\ Cardinality(shown) <= TrendLimit
            /\ \A r \in shown : ~IsLast(r) => CoveredPct(T, r, k) = CoveredPct(S, r, k)
            /\ \A f, l \in shown : (IsFirst(f) /\ IsLast(l)) =>
                   CoveredPct(T, l, k) = CoveredPct(T, f, k) +
                       SumFunction([r \in shown \ {f} |-> DeltaPct(T, r, k)])

=============================================================================
