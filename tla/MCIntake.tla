------------------------------ MODULE MCIntake ------------------------------
(***************************************************************************)
(* Small artifact sets for Intake: logs of a few lines and logs of one     *)
(* report in any layout, JUnit files that point to artifacts, coverage     *)
(* reports.                                                                *)
(***************************************************************************)
EXTENDS Intake, TLC

MCTestNames == {"smoke", "plan", "PASSED", "DONE"}
MCComponents == {"drv", "scb"}
MCTags == {"AXI", "TAG"}
MCTexts == {"mismatch", "slverr", "plain"}
MCRoles == ("drv" :> {"driver"}) @@ ("scb" :> {"scoreboard"}) @@ ("AXI" :> {}) @@ ("TAG" :> {})

(***************************************************************************)
(* Logs.                                                                   *)
(***************************************************************************)
R(lead, severity, file, time, unit, colon, source, component, text) ==
    [lead |-> lead, severity |-> severity, tally |-> FALSE, file |-> file, time |-> time,
     unit |-> unit, colon |-> colon, source |-> source, component |-> component, tag |-> "TAG",
     text |-> text]

Native(severity, component, text) ==
    R("none", severity, "paren", 7, "ns", TRUE, "path", component, text)
Jenkins(severity, component, text) ==
    R("none", severity, "bare", 7000000, None, TRUE, "path", component, text)
Questa(severity, component, text) ==
    R("hash", severity, "none", 7, "us", FALSE, "tagged", component, text)
Generic(severity, component, text) ==
    R("text", severity, "none", 7000, "ps", TRUE, "parens", component, text)
\* Two that leave the component in the message, one of them with everything before it.
OldQuesta(severity, component, text) ==
    R("hash", severity, "none", 7, "ns", FALSE, "path", component, text)
Whole(severity, component, text) ==
    R("hash", severity, "paren", 7, "us", TRUE, "tagged", component, text)
Tally(severity) == [Questa(severity, "drv", "plain") EXCEPT !.tally = TRUE]

Blank == [report |-> None, running |-> None, mention |-> None, marks |-> {}]
Says(report) == [Blank EXCEPT !.report = report]
Running == [Blank EXCEPT !.running = "smoke"]

LogLines ==
    {Running, [Blank EXCEPT !.mention = "plan"],
     [Blank EXCEPT !.mention = "PASSED", !.marks = {"passed"}],    \* TEST PASSED
     [Blank EXCEPT !.marks = {"failed"}],                          \* FINAL RESULT: FAIL
     [Blank EXCEPT !.mention = "DONE", !.marks = {"complete"}],    \* UVM TEST DONE
     Says(Native("UVM_INFO", "drv", "plain")), Says(Native("UVM_ERROR", "drv", "mismatch")),
     Says(Jenkins("UVM_FATAL", "scb", "slverr")), Says(Questa("UVM_ERROR", "drv", "plain")),
     Says(Generic("UVM_WARNING", "drv", "plain")), Says(Tally("UVM_ERROR"))}

Log(dir, lines) == [kind |-> "log", dir |-> dir, name |-> "sim.log", oversize |-> FALSE,
                    lines |-> lines]
OneFile(file) == [files |-> << file >>, tree |-> {}]

SeqsUpTo(S, n) == UNION {[1..k -> S] : k \in 0..n}
LogWorks ==
    {OneFile(Log(<< "ci" >>, lines)) : lines \in SeqsUpTo(LogLines, 3)}
        \cup {OneFile([Log(<< >>, << Running >>) EXCEPT !.oversize = TRUE])}

\* Every layout, and the tallies, which start their line.
Layouts ==
    {R(lead, severity, file, time[1], time[2], colon, source, "scb", "mismatch") :
        lead \in {"none", "hash", "text"}, severity \in {"UVM_WARNING", "UVM_ERROR", "UVM_FATAL"},
        file \in {"none", "paren", "bare"},
        time \in {<<None, None>>, <<7000000, None>>, <<7, "ns">>, <<7, "us">>},
        colon \in BOOLEAN, source \in {"path", "tagged", "parens", "located"}}
LayoutWorks ==
    {OneFile(Log(<< >>, << Running, Says(r), Says(Tally("UVM_FATAL")) >>)) : r \in Layouts}

(***************************************************************************)
(* JUnit files.  A name with brackets, read as a pattern, matches another  *)
(* name and not itself.                                                    *)
(***************************************************************************)
MCGlob == ("sim.log" :> {"sim.log"}) @@ ("last.log" :> {"last.log"})
            @@ ("dump[1].vcd" :> {"dump1.vcd"}) @@ ("gone.log" :> {})

At(dir, name) == [dir |-> dir, name |-> name]
Artifact(dir, name) == [dir |-> dir, name |-> name, link |-> NoLink]
Link(dir, name, to) == [dir |-> dir, name |-> name, link |-> to]

Nightly == {Artifact(<< "ci", "unit" >>, "sim.log"), Artifact(<< "ci", "intg" >>, "sim.log"),
            Artifact(<< >>, "sim.log"),
            Artifact(<< "ci" >>, "dump[1].vcd"), Artifact(<< "ci" >>, "dump1.vcd"),
            Link(<< "ci", "unit" >>, "last.log", At(<< "ci", "intg" >>, "sim.log"))}
Linked == {Artifact(<< "old" >>, "sim.log"),
           Link(<< "ci", "unit" >>, "sim.log", At(<< "old" >>, "sim.log"))}

Failed(like_uvm, text, details) ==
    [like_uvm |-> like_uvm, text |-> text, details |-> details]
JUnit(dir, failures, pointers) ==
    [kind |-> "junit", dir |-> dir, name |-> "res.xml", failures |-> failures,
     pointers |-> pointers]
MCPointers == Pointers({"sim.log", "last.log", "dump[1].vcd", "gone.log"}, {<< >>, << "unit" >>})
Near == {p \in MCPointers : p.form # "relative" \/ p.name \in {"sim.log", "last.log"}}
Far == {p \in MCPointers : p.form = "absolute"}

JUnitWorks ==
    {[files |-> << JUnit(<< "ci", "unit" >>,
                         << Failed(FALSE, "mismatch", None), Failed(TRUE, "plain", None) >>,
                         << [of |-> 1, to |-> p], [of |-> k, to |-> q] >>),
                   JUnit(dir, << Failed(FALSE, "mismatch", None) >>,
                         << [of |-> 1, to |-> r] >>) >>,
      tree |-> tree] :
        p \in Near, q \in Near, r \in Far, k \in {1, 2}, tree \in {Nightly, Linked},
        dir \in {<< "ci", "intg" >>, << >>}}

\* A text, reported in each layout by a log, again or another one by a second log, and by a
\* JUnit file.
Printed_(text) ==
    {[r EXCEPT !.tag = tag] : tag \in MCTags,
        r \in UNION {{Native("UVM_ERROR", c, text), Jenkins("UVM_FATAL", c, text),
                      Questa("UVM_FATAL", c, text), Generic("UVM_ERROR", c, text),
                      OldQuesta("UVM_ERROR", c, text), Whole("UVM_FATAL", c, text)} :
                         c \in MCComponents}}
Later(r) == [r EXCEPT !.time = 2 * @]
TextWorks ==
    UNION {{[files |-> << Log(<< "ci" >>, << Running, Says(r) >>),
                          Log(<< >>, << Running, Says(Later(q)) >>),
                          JUnit(<< >>, << Failed(TRUE, text, None), Failed(FALSE, text, None),
                                          Failed(TRUE, text, other) >>, << >>) >>,
             tree |-> {}] :
               r \in {p \in Printed_(text) : p.component = "scb"}, q \in Printed_(other)} :
                  text, other \in MCTexts}

(***************************************************************************)
(* What the taxonomy finds in a message: a word of it may be a cue,        *)
(* wherever it stands.                                                     *)
(***************************************************************************)
MCReports == Layouts \cup UNION {Printed_(text) : text \in MCTexts}
                \cup {line.report : line \in {l \in LogLines : l.report # None}}
MCMessages == {Message(r) : r \in {p \in MCReports : MatchedBy(p) # {}}}
                 \cup {JUnitMessage(Failed(TRUE, text, details)) :
                           text \in MCTexts, details \in MCTexts \cup {None}}

\* The words of a message do not depend on what is found in them.
Plain == INSTANCE Taxonomy WITH Cues <- << >>, Protocols <- << >>, Vendors <- << >>
MCWords == {Plain!Words(message) : message \in MCMessages}

Anywhere(found) ==
    [words \in MCWords |->
        UNION {found[words[part]] :
                  part \in DOMAIN words \cap {"component", "tag", "text", "details"}}]
Nowhere == [name \in MCComponents \cup MCTags \cup MCTexts |-> {}]

MCCues == Anywhere(("mismatch" :> {"scoreboard", "runtime"}) @@ ("slverr" :> {"protocol"})
                      @@ ("scb" :> {"timeout"}) @@ Nowhere)
MCProtocols == Anywhere(("mismatch" :> {"axi4"}) @@ ("slverr" :> {"apb", "jtag"})
                           @@ ("AXI" :> {"axi4"}) @@ ("drv" :> {"apb"}) @@ Nowhere)
MCVendors == Anywhere(("slverr" :> {"vcs", "questa"}) @@ Nowhere)
MCPhases == [words \in MCWords |-> IF words.text = "plain" THEN "run" ELSE NoPhase]

(***************************************************************************)
(* Coverage reports.                                                       *)
(***************************************************************************)
MCKindNames == << "branch", "burst", "code", "error_inject", "functional", "line", "statement",
                  "toggle", "total" >>
MCScopes == << "dut", "top", "verification_plan" >>
MCUrgent == {"error_inject"}
MCOrdinary == {"burst"}
MCRulesFor == [name \in Range(MCKindNames) |->
                  CASE name = "burst" -> << "axi4", "generic" >>
                    [] name = "error_inject" -> << "pcie" >>
                    [] OTHER -> << >>]

Row(cue, name, scope, covered) ==
    [cue |-> cue, name |-> name, scope |-> scope, covered |-> covered]
Report(format, run, rows) ==
    [kind |-> "report", format |-> format, body |-> "ok", run |-> run, rows |-> rows,
     says_line |-> \E row \in Range(rows) : row.name = "line"]

TextRows == {Row("row", "line", "dut", 10), Row("row", "branch", "top", 60),
             Row("row", "line", "top", 100), Row("loose", "toggle", "top", 80),
             Row("loose", "line", "top", 20)}
XmlRows == {Row("row", "line", "dut", 10), Row("row", "branch", "dut", 60),
            Row("row", "line", "top", 70)}
UrgRows == {Row("row", "line", "top", 10), Row("row", "functional", "top", 60),
            Row("plan", "functional", "top", 30), Row("loose", "toggle", "top", 80)}
XceliumRows == {Row("row", "statement", "top", 10), Row("row", "line", "top", 60),
                Row("row", "branch", "top", 0), Row("loose", "toggle", "top", 80)}

\* Each entry of a Questa report is missing, a number, not applicable, or no number; the total
\* comes last.
Entry(cue, name) == {<< >>} \cup {<< Row(cue, name, "top", c) >> : c \in {45, -1}}
                        \cup {<< Row("broken", name, "top", 0) >>}
QuestaRows == {a \o b \o c : a \in Entry("row", "statement"), b \in Entry("row", "functional"),
                             c \in Entry("plan", "total")}

ReportWorks ==
    {OneFile(Report("text", 1, rows)) : rows \in SeqsUpTo(TextRows, 3)}
        \cup {OneFile(Report("xml", 1, rows)) : rows \in SeqsUpTo(XmlRows, 3)}
        \cup {OneFile(Report("urg", 1, rows)) : rows \in SeqsUpTo(UrgRows, 3)}
        \cup {OneFile(Report("xcelium", 1, rows)) : rows \in SeqsUpTo(XceliumRows, 3)}
        \cup {OneFile(Report("questa", 1, rows)) : rows \in QuestaRows}

\* Functional coverage, of two runs: what is advised on, and a report in between that does not
\* parse.
JsonRows == {Row("row", "burst", "dut", 30), Row("row", "burst", "dut", 20),
             Row("row", "error_inject", "dut", 95), Row("row", "burst", "top", 10),
             Row("row", "statement", "top", 60)}
Broken(body) == [Report("json", 1, << >>) EXCEPT !.body = body]
AdviceWorks ==
    {[files |-> << Report("json", 1, rows), Report("json", run, more) >>, tree |-> {}] :
        rows \in SeqsUpTo(JsonRows, 2), more \in SeqsUpTo(JsonRows, 2), run \in {1, 2}}
        \cup {[files |-> << Broken(body), Report("json", 1, rows) >>, tree |-> {}] :
                 rows \in SeqsUpTo(JsonRows, 1), body \in {"malformed", "uncaught"}}

MCWorks == LogWorks \cup LayoutWorks \cup JUnitWorks \cup TextWorks \cup ReportWorks
              \cup AdviceWorks
=============================================================================
