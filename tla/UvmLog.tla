------------------------------- MODULE UvmLog -------------------------------
(***************************************************************************)
(* What adapters/uvm_log.py reads in a simulation log.  A line is the      *)
(* report it prints, if any, with the parts its five patterns tell apart,  *)
(* and what the searches over the whole text find in it: names of tests    *)
(* and marks of how the simulation went.                                   *)
(*                                                                         *)
(*   [12] UVM_ERROR f.svh(12) @ 100 ns: top.env.scb [TAG] bad thing        *)
(*   lead severity  file        time unit colon  source ... text           *)
(*                                                                         *)
(* Case, spacing and the names themselves are left out.  A report has a    *)
(* text, a component is a path of names, and a `located` report has a      *)
(* location in its place, and no second time behind it.                    *)
(***************************************************************************)
EXTENDS Integers, Sequences, FiniteSetsExt

CONSTANTS
    None,        \* a part that is not printed, or not found
    TestNames,   \* words a log can name a test with
    Components,  \* component paths
    ReportTags,  \* the tags in brackets
    Texts        \* what reports say

Severities == {"UVM_INFO", "UVM_WARNING", "UVM_ERROR", "UVM_FATAL"}
Failing == {"UVM_ERROR", "UVM_FATAL"}
Units == {"fs", "ps", "ns", "us"}
Marks == {"passed", "failed", "complete"}

Reports ==
    [lead     : {"none", "hash", "text"},      \* nothing, "# ", or a prefix of the tool
     severity : Severities,
     tally    : BOOLEAN,                       \* a count of reports of that severity
     file     : {"none", "paren", "bare"},     \* "f.svh(12)" or "f.svh" before the time
     time     : Nat \cup {None},
     unit     : Units \cup {None},
     colon    : BOOLEAN,                       \* ":" after the time
     source   : {"path", "tagged", "parens", "located"},
                \* "comp [TAG]", "[TAG] (comp):", "(comp) [TAG]", "[TAG] g.sv:(8)"
     component : Components,
     tag      : ReportTags,
     text     : Texts]

Lines == [report  : Reports \cup {None},
          running : TestNames \cup {None},     \* "Running test <name>"
          mention : TestNames \cup {None},     \* "test <word>", whatever the word
          marks   : SUBSET Marks]

(***************************************************************************)
(* The patterns, in the order in which a line is tried; the first match    *)
(* wins.  The last one takes what the others leave.                        *)
(***************************************************************************)
PatternOrder == <<"vcs_native", "vcs_jenkins", "questa", "vcs", "generic">>

\* mutant: the fallback is anchored at the start of the line, as the native pattern is
MatchesAnchored(pattern, r) ==
    CASE pattern = "vcs_native" ->
            r.lead = "none" /\ r.file \in {"none", "paren"} /\ r.time # None /\ r.colon
      [] pattern = "vcs_jenkins" ->
            r.lead = "none" /\ r.file \in {"none", "bare"} /\ r.time # None
      [] pattern = "questa" -> r.lead = "hash"
      [] pattern = "vcs" -> r.source = "located" /\ ~r.colon
      [] pattern = "generic" -> r.lead = "none"

Matches(pattern, r) ==
    CASE pattern = "vcs_native" ->
            r.lead = "none" /\ r.file \in {"none", "paren"} /\ r.time # None /\ r.colon
      [] pattern = "vcs_jenkins" ->
            r.lead = "none" /\ r.file \in {"none", "bare"} /\ r.time # None
      [] pattern = "questa" -> r.lead = "hash"
      [] pattern = "vcs" -> r.source = "located" /\ ~r.colon
      [] pattern = "generic" -> TRUE

MatchedBy(r) == {i \in DOMAIN PatternOrder : Matches(PatternOrder[i], r)}
PatternOf(r) == PatternOrder[Min(MatchedBy(r))]

(***************************************************************************)
(* What the matching pattern captures.                                     *)
(***************************************************************************)
\* The native and Jenkins patterns take any time, and drop its unit. The others capture
\* a time with a unit right after the severity; without one, the Questa pattern takes
\* the next word for the unit, and the generic pattern needs none.
Captured(r) ==
    LET unitless == CASE PatternOf(r) = "questa" -> ~r.colon /\ r.source = "path"
                      [] PatternOf(r) = "generic" -> TRUE
                      [] OTHER -> FALSE
    IN  IF \/ PatternOf(r) \in {"vcs_native", "vcs_jenkins"}
           \/ r.file = "none" /\ (r.unit # None \/ unitless)
        THEN r.time ELSE None

\* A native or Jenkins time is taken to be in femtoseconds.
CapturedUnit(r) == IF PatternOf(r) \in {"vcs_native", "vcs_jenkins"} THEN "fs" ELSE r.unit

\* _parse_time: to nanoseconds, rounded down; no unit, or an unknown one, is nanoseconds.
ParseTime(time, unit) ==
    IF time = None THEN None
    ELSE CASE unit = "fs" -> time \div 1000000
           [] unit = "ps" -> time \div 1000
           [] unit = "us" -> time * 1000
           [] OTHER       -> time

\* The parts of the source that are captured for the component.
Taken(r) ==
    LET first == IF r.source \in {"path", "parens"} THEN {"component"} ELSE {"tag"}
        direct == r.file = "none" /\ (r.time = None \/ r.unit # None)
        between == {part \in {"component", "tag"} :       \* "[TAG] (comp):", or the tag alone
                       r.source = "tagged" \/ (r.source = "located" /\ part = "tag")}
    IN  CASE PatternOf(r) = "vcs_native" -> first
          [] PatternOf(r) = "vcs_jenkins" -> IF r.unit = None THEN first ELSE {}
          [] PatternOf(r) = "questa" -> IF direct /\ ~r.colon THEN between ELSE {}
          [] PatternOf(r) = "vcs" -> IF direct THEN {"tag"} ELSE {}
          [] PatternOf(r) = "generic" ->
                 IF r.source = "parens" /\ direct /\ r.time # None /\ r.colon
                 THEN {"component"} ELSE {}

\* The component a message has: a tag is taken for one where it stands in its place, and a unit,
\* which says nothing, is None here.
ComponentOf(r) == IF "component" \in Taken(r) THEN r.component
                  ELSE IF "tag" \in Taken(r) THEN r.tag ELSE None

\* What a pattern does not capture stays in the message, before the text. Only the older VCS
\* pattern leaves nothing. The source stays as what tells how component and tag are laid out, or
\* as the location; the path whose first name the Questa pattern takes for a unit has no layout.
Prefix == {"file", "time", "unit", "colon", "component", "tag", "source"}
StaysIn(part, r) ==
    LET whole == PatternOf(r) \in {"questa", "generic"}
        timed == Captured(r) # None
        misread == PatternOf(r) = "questa" /\ timed /\ r.unit = None
    IN  \/ part = "file" /\ whole /\ r.file # "none"
        \/ part = "time" /\ r.time # None /\ ~timed
        \/ part = "unit" /\ r.unit # None /\ ~timed
        \/ part = "colon" /\ whole /\ r.colon /\ ~(PatternOf(r) = "generic" /\ timed)
        \/ part = "component" /\ r.source # "located" /\ part \notin Taken(r)
        \/ part = "tag" /\ part \notin Taken(r)
        \/ part = "source" /\ (r.source = "located" \/ (Taken(r) = {} /\ ~misread))

Left(r) == {part \in Prefix : PatternOf(r) # "vcs" /\ StaysIn(part, r)}
Message(r) == [part \in Left(r) \cup {"text"} |-> r[part]]

(***************************************************************************)
(* The messages of a log, in the order of its lines.                       *)
(***************************************************************************)
IsMessage(line) == line.report # None /\ ~line.report.tally

MessageOf(lines, n) ==
    LET r == lines[n].report IN
    [severity |-> r.severity, component |-> ComponentOf(r), message |-> Message(r),
     time_ns |-> ParseTime(Captured(r), CapturedUnit(r)), line |-> n]

\* A line that is no tally and that some pattern matches is one message.
ExtractMessages(lines) ==
    {MessageOf(lines, n) : n \in {k \in DOMAIN lines :
        IsMessage(lines[k]) /\ MatchedBy(lines[k].report) # {}}}

Marked(lines, mark) == \E n \in DOMAIN lines : mark \in lines[n].marks

\* The status of the first rule whose condition holds.
FirstRule(rules) == rules[Min({i \in DOMAIN rules : rules[i].holds})].status
Rule(holds, status) == [holds |-> holds, status |-> status]
Printed(lines, severity) == \E m \in ExtractMessages(lines) : m.severity = severity

StatusPassFirst(lines) == \* mutant: a pass marker is looked for before the errors
    FirstRule(<<Rule(Printed(lines, "UVM_FATAL"), "fail"),
                Rule(Marked(lines, "failed"), "fail"),
                Rule(Marked(lines, "passed"), "pass"),
                Rule(Printed(lines, "UVM_ERROR"), "fail"),
                Rule(~Marked(lines, "complete"), "aborted"),
                Rule(TRUE, "pass")>>)

\* _determine_test_status
TestStatus(lines) ==
    FirstRule(<<Rule(Printed(lines, "UVM_FATAL"), "fail"),
                Rule(Marked(lines, "failed"), "fail"),
                Rule(Printed(lines, "UVM_ERROR"), "fail"),
                Rule(Marked(lines, "passed"), "pass"),
                Rule(~Marked(lines, "complete"), "aborted"),
                Rule(TRUE, "pass")>>)

\* re.search finds the leftmost place where any alternative matches; the order of the
\* alternatives decides only between matches at one place.
TestName(lines) ==
    LET named == {n \in DOMAIN lines : lines[n].running # None \/ lines[n].mention # None}
        first == lines[Min(named)]
    IN  IF named = {} THEN None
        ELSE IF first.running # None THEN first.running ELSE first.mention

\* _extract_failures takes the errors and the fatals.
FailureMessages(lines) == {m \in ExtractMessages(lines) : m.severity \in Failing}

\* parse_log: no test when the log names none.
ParseLog(lines) ==
    [name |-> TestName(lines), status |-> TestStatus(lines),
     failures |-> FailureMessages(lines)]
=============================================================================
