--------------------------- MODULE CoverageReports ---------------------------
(***************************************************************************)
(* adapters/coverage_reports.py: the metrics of an exported coverage       *)
(* report.  A report is the rows the searches of its format would find in  *)
(* it, in the order of the text, with the cue each is found by:            *)
(*                                                                         *)
(*   "row"    a line, element or cell of the layout the format expects     *)
(*   "plan"   the score of a verification plan (URG), the total (Questa)   *)
(*   "loose"  a kind and a percentage that only the fallback finds         *)
(*   "broken" a Questa entry that is no number, where parsing stops        *)
(*                                                                         *)
(* Percentages are whole, and -1 is Questa's "not applicable".  The lists  *)
(* of missed bins, the counts of hits and the kind and test that a JSON    *)
(* report may declare are left out.                                        *)
(***************************************************************************)
EXTENDS Lists

CONSTANTS
    MaxMetrics,   \* security.max_coverage_metrics
    KindNames,    \* what rows measure, in alphabetical order: a sequence of strings
    Scopes        \* design scopes, in alphabetical order, with "top" and "verification_plan"

ASSUME MaxMetricsAssumption == MaxMetrics \in Nat \ {0}

\* The names and scopes that the parsers give on their own are among those there are.
ASSUME NamesAssumption ==
    /\ KindNames \in Seq(Range(KindNames)) /\ Scopes \in Seq(Range(Scopes))
    /\ {"line", "branch", "code", "functional"} \subseteq Range(KindNames)
    /\ {"top", "verification_plan"} \subseteq Range(Scopes)

Formats == {"json", "xml", "text", "urg", "questa", "xcelium"}
Cues == {"row", "plan", "loose", "broken"}
Metrics == [name : Range(KindNames), scope : Range(Scopes), covered : Int]
Rows == [cue : Cues, name : Range(KindNames), scope : Range(Scopes), covered : Int]

Metric(row) == [name |-> row.name, scope |-> row.scope, covered |-> row.covered]
MetricsOf(rows) == [i \in DOMAIN rows |-> Metric(rows[i])]
AtTop(rows) == [i \in DOMAIN rows |-> [rows[i] EXCEPT !.scope = "top"]]
ByCue(report, cues) == Among(report.rows, {row \in Range(report.rows) : row.cue \in cues})

\* The metric that stands for a report in which nothing is recognized.
Placeholder(name) == <<[name |-> name, scope |-> "top", covered |-> 0]>>
OrElse(metrics, otherwise) == IF metrics = << >> THEN otherwise ELSE metrics

(***************************************************************************)
(* _bound_metrics: sorted by scope and name, then cut.                     *)
(***************************************************************************)
Position(order, x) == CHOOSE i \in DOMAIN order : order[i] = x
SortKey(m) == Position(Scopes, m.scope) * Len(KindNames) + Position(KindNames, m.name)

SortMetrics(metrics) == SortedBy(metrics, [m \in Range(metrics) |-> SortKey(m)])
BoundUncut(metrics) == SortMetrics(metrics)   \* mutant: the report's own number stays

BoundMetrics(metrics) == Cut(SortMetrics(metrics), MaxMetrics)

(***************************************************************************)
(* The parsers.                                                            *)
(***************************************************************************)
ParseJson(report) == BoundMetrics(MetricsOf(ByCue(report, {"row"})))

\* Only line rates are read.
ParseXml(report) ==
    LET rows == Among(ByCue(report, {"row"}), {row \in Range(report.rows) : row.name = "line"})
    IN  OrElse(BoundMetrics(MetricsOf(rows)), Placeholder("line"))

\* The second search is made when the first finds nothing and the text says "line" anywhere.
ParseText(report) ==
    LET rows == MetricsOf(ByCue(report, {"row"}))
        loose == IF report.says_line THEN MetricsOf(AtTop(ByCue(report, {"loose"})))
                                     ELSE << >>
    IN  OrElse(BoundMetrics(OrElse(rows, loose)), Placeholder("line"))

PlanScope(rows) ==
    [i \in DOMAIN rows |-> IF rows[i].cue = "plan"
                           THEN [rows[i] EXCEPT !.scope = "verification_plan"]
                           ELSE [rows[i] EXCEPT !.scope = "top"]]

ParseUrgHtml(report) ==
    LET found == MetricsOf(PlanScope(ByCue(report, {"row"}) \o ByCue(report, {"plan"})))
        loose == MetricsOf(AtTop(ByCue(report, {"loose"})))
    IN  OrElse(BoundMetrics(OrElse(found, loose)), Placeholder("code"))

\* The rows before the entry that does not parse are kept.
BeforeBroken(rows) ==
    LET broken == {i \in DOMAIN rows : rows[i].cue = "broken"} IN
    SelectInOrder(rows, {i \in DOMAIN rows : \A j \in broken : i < j})

ParseInapplicable(report) == \* mutant: -1 is taken for a number
    LET rows == BeforeBroken(ByCue(report, {"row", "broken", "plan"}))
    IN  OrElse(BoundMetrics(MetricsOf(AtTop(rows))), Placeholder("functional"))

ParseQuestaOverall(report) ==
    LET rows == BeforeBroken(ByCue(report, {"row", "broken", "plan"}))
        applicable == Among(rows, {row \in Range(rows) : row.covered >= 0})
    IN  OrElse(BoundMetrics(MetricsOf(AtTop(applicable))), Placeholder("functional"))

\* Xcelium calls them statement and expression.
XceliumKind(name) == CASE name = "statement"  -> "line"
                       [] name = "expression" -> "branch"
                       [] OTHER               -> name
Renamed(rows) == [i \in DOMAIN rows |-> [rows[i] EXCEPT !.name = XceliumKind(rows[i].name)]]

FirstOfKind(rows) ==
    SelectInOrder(rows, {i \in DOMAIN rows :
        \A j \in DOMAIN rows : rows[j].name = rows[i].name => i <= j})

ParseXceliumHtml(report) ==
    LET rows == MetricsOf(FirstOfKind(AtTop(Renamed(ByCue(report, {"row"})))))
        loose == MetricsOf(AtTop(ByCue(report, {"loose"})))
    IN  OrElse(BoundMetrics(OrElse(rows, loose)), Placeholder("line"))

(***************************************************************************)
(* parse, which goes by the name of the file, and the kind of a summary.   *)
(***************************************************************************)
ParseMetrics(report) ==
    CASE report.format = "json"    -> ParseJson(report)
      [] report.format = "xml"     -> ParseXml(report)
      [] report.format = "text"    -> ParseText(report)
      [] report.format = "urg"     -> ParseUrgHtml(report)
      [] report.format = "questa"  -> ParseQuestaOverall(report)
      [] report.format = "xcelium" -> ParseXceliumHtml(report)

\* _detect_kind: the kind of the first of these names that some metric has, or has in its
\* name: a name with such a word in it is that word here.
KindMap == <<<<"line", "code">>, <<"branch", "code">>, <<"toggle", "toggle">>,
             <<"fsm", "fsm">>, <<"functional", "functional">>, <<"assertion", "assertion">>,
             <<"code", "code">>>>
DetectKind(metrics) ==
    LET found == {i \in DOMAIN KindMap :
                     \E k \in DOMAIN metrics : metrics[k].name = KindMap[i][1]}
    IN  IF found = {} THEN "functional" ELSE KindMap[Min(found)][2]

KindOf(report) ==
    CASE report.format \in {"xml", "urg", "xcelium"} -> "code"
      [] report.format = "questa" -> "functional"
      [] report.format = "text" -> DetectKind(ParseMetrics(report))
      [] report.format = "json" -> DetectKind(ByCue(report, {"row"}))   \* before the cut
=============================================================================
