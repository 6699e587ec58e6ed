--------------------------- MODULE CoverageAdvice ---------------------------
(***************************************************************************)
(* coverage.advisor: from the stored coverage summaries to the gaps worth  *)
(* a constraint (tools/core.py, normalization/coverage_hints.py and        *)
(* coverage_advisor.py).  A summary is a record with the run it belongs to *)
(* and its metrics; `summaries` is the table, in the order of its row ids. *)
(* The templates are left out; which rule gives one is not.                *)
(***************************************************************************)
EXTENDS CoverageReports

CONSTANTS
    AnyRun,      \* no run is asked for
    AnyName,     \* no metric is asked for
    AnyProtocol, \* no protocol is asked for
    MaxGaps,     \* the gaps generate_recommendations returns: 100
    Urgent,      \* names with a word of the high-priority patterns
    Ordinary,    \* names with a word of the medium-priority patterns
    RulesFor     \* RulesFor[name]: the protocols of the rules that match it, in order

ASSUME MaxGapsAssumption == MaxGaps \in Nat \ {0}

\* query_coverage_metrics: latest run first, then in the order of the row ids. Runs are
\* numbers here, in the order of their ids. The limit of 2000 rows is left out.
QueryMetrics(summaries, run) ==
    LET asked == Among(summaries, {s \in Range(summaries) : run \in {AnyRun, s.run}})
        newest == SortedBy(asked, [s \in Range(asked) |-> -s.run])
    IN  FlattenSeq([i \in DOMAIN asked |-> newest[i].metrics])

\* _classify_priority; 1 is high, 2 medium, 3 low.
Priority(m) ==
    CASE m.covered < 25                            -> 1
      [] m.covered >= 25 /\ m.name \in Urgent      -> 1
      [] m.covered >= 25 /\ m.name \in Ordinary \ Urgent -> 2
      [] OTHER                                     -> IF m.covered >= 50 THEN 3 ELSE 2

Urgency(m) == Priority(m) * 101 + m.covered
ByUrgency(gaps) == SortedBy(gaps, [m \in Range(gaps) |-> Urgency(m)])
Gaps(metrics) == Among(metrics, {m \in Range(metrics) : m.covered < 100})

RecommendUnsorted(metrics) == \* mutant: cut before sorting
    ByUrgency(Cut(Gaps(metrics), MaxGaps))

\* generate_recommendations: what is not fully covered, most urgent first, cut.
Recommend(metrics) == Cut(ByUrgency(Gaps(metrics)), MaxGaps)

\* _find_rule: rules of another protocol are passed over, those of none are not.
RuleFor(name, protocol) ==
    Among(RulesFor[name],
          {p \in Range(RulesFor[name]) : protocol = AnyProtocol \/ p \in {protocol, "generic"}})

ProtocolHint(name, protocol) ==
    IF RuleFor(name, protocol) # << >> THEN Head(RuleFor(name, protocol))
    ELSE IF protocol = AnyProtocol THEN "generic" ELSE protocol

Same(g, h) == g.name = h.name /\ g.scope = h.scope

KeepLast(gaps) == \* mutant: the last of several gaps with one name stays
    SelectInOrder(gaps, {i \in DOMAIN gaps :
        \A j \in DOMAIN gaps : Same(gaps[i], gaps[j]) => j <= i})

\* build_advisories: the first of several gaps with one scope and name stays.
Distinct(gaps) ==
    SelectInOrder(gaps, {i \in DOMAIN gaps :
        \A j \in DOMAIN gaps : Same(gaps[i], gaps[j]) => i <= j})

Advisory(gap, protocol) ==
    [name |-> gap.name, scope |-> gap.scope, covered |-> gap.covered,
     hint |-> ProtocolHint(gap.name, protocol)]

\* get_coverage_advisor: without a name only urgent gaps are selected; the limit comes
\* before duplicates go.
SelectedGaps(summaries, run, name) ==
    LET stored == QueryMetrics(summaries, run)
        metrics == Among(stored, {m \in Range(stored) : name \in {AnyName, m.name}})
        gaps == Recommend(metrics)
    IN  Among(gaps, {g \in Range(gaps) : name # AnyName \/ Priority(g) = 1})

Advisories(summaries, run, name, protocol, limit) ==
    LET gaps == Distinct(Cut(SelectedGaps(summaries, run, name), limit))
    IN  [i \in DOMAIN gaps |-> Advisory(gaps[i], protocol)]
=============================================================================
