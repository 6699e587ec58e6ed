---------------------------- MODULE MCIndexPass ----------------------------
(***************************************************************************)
(* Small artifact sets for IndexPass. Names are matched as LIKE matches    *)
(* them: "tb.smoke" ends in ".smoke", "smoke_long" contains "smoke".       *)
(***************************************************************************)
EXTENDS IndexPass, TLC

MCNames == {"smoke", "tb.smoke", "smoke_long", "other", "tb.other"}
MCRank ==
    [x \in MCNames \X MCNames |->
        CASE x[1] = x[2] -> 0
          [] x = <<"smoke", "tb.smoke">> -> 1
          [] x = <<"smoke", "smoke_long">> -> 2
          [] OTHER -> 3]

MCDefName == [d \in {"d1", "d2"} |-> IF d = "d1" THEN "a_req" ELSE "a_ack"]
AllAdapters == {"uvm", "cocotb", "waveform_summary", "assertions", "coverage"}
NoUvm == AllAdapters \ {"uvm"}

Case(n, s, d) == [name |-> n, status |-> s, seed |-> d]
Fail(n, s, o, r) == [name |-> n, summary |-> s, occ |-> o, refs |-> r]
Event_(n, m) == [name |-> n, message |-> m]

Xml(p, b, body, cases, fails) ==
    [kind |-> "cocotb", path |-> p, build |-> b, body |-> body, verdict |-> "pass",
     topology |-> FALSE, cases |-> cases, fails |-> fails, asserts |-> << >>]

Log(p, b, body, verdict, n, fails, asserts) ==
    [kind |-> "uvm", path |-> p, build |-> b, body |-> body, verdict |-> verdict,
     topology |-> TRUE, cases |-> << Case(n, "pass", "none") >>, fails |-> fails,
     asserts |-> asserts]

Wave(p, t, f) == [path |-> p, body |-> "ok", test |-> t, framework |-> f]
Cov(p, b, t) == [path |-> p, body |-> "ok", test |-> t, build |-> b]
Sva(p, t, es) == [path |-> p, body |-> "ok", test |-> t, entries |-> es]
Entry(n, ok) == [name |-> n, ok |-> ok]

\* One CI build: two JUnit files that disagree about a test, logs whose test names match
\* each other, a log the parser calls aborted, and correlated files that hit, tie and miss.
Regression ==
    [results |-> <<
        Xml("p1", "b1", "ok",
            << Case("tb.smoke", "fail", "s1"), Case("tb.smoke", "pass", "s2"),
               Case("smoke_long", "fail", "none") >>,
            << Fail("tb.smoke", "x", 1, << "r1", "r2" >>),
               Fail("smoke_long", "y", 2, << "r1" >>) >>),
        Xml("p2", "b1", "ok", << Case("tb.smoke", "fail", "s1"), Case("other", "pass", "none") >>,
            << Fail("tb.smoke", "x", 3, << "r3" >>) >>),
        Log("p3", "b1", "ok", "fail", "smoke",
            << Fail("smoke", "x", 4, << "r1" >>), Fail("smoke", "x", 5, << >>) >>,
            << Event_("a_req", "m1"), Event_("a_req", "m2"), Event_("a_ack", "m2") >>),
        Log("p4", None, "ok", "aborted", "smoke", << >>, << Event_("a_req", "m1") >>),
        Log("p5", None, "ok", "pass", "tb.smoke", << >>, << >>),
        Xml("p6", "b1", "ok", << Case("other", "pass", "none") >>, << >>) >>,
     waves |-> << Wave("w1", "smoke", "uvm"), Wave("w2", "smoke", "any") >>,
     asserts |-> << [path |-> "a1", body |-> "ok", test |-> "smoke", defs |-> << "d1" >>,
                     fails |-> << Event_("a_ack", "m1"), Event_("a_req", "m1"),
                                  Event_("a_ack", "m2") >>] >>,
     coverage |-> << Cov("c1", "b1", "smoke"), Cov("c2", "b1", "tb.other"),
                     Cov("c3", None, "tb.other") >>,
     sva |-> << Sva("v1", "smoke", << Entry("a_req", TRUE), Entry("a_ack", TRUE) >>),
                Sva("v2", "smoke", << Entry("a_req", TRUE) >>),
                Sva("v3", "tb.other", << Entry("a_req", TRUE) >>) >>]

Nothing == [results |-> << >>, waves |-> << >>, asserts |-> << >>, coverage |-> << >>,
            sva |-> << >>]

\* Files a handler passes over, and a later file that must still be reached.
Gaps ==
    [Nothing EXCEPT
        !.results = << Xml("p1", "b1", "oversize", << >>, << >>),
                       Log("p3", None, "empty", "pass", "smoke", << >>, << >>),
                       Xml("p5", "b1", "ok", << Case("tb.smoke", "pass", "s2") >>, << >>) >>,
        !.waves = << [Wave("w1", "smoke", "uvm") EXCEPT !.body = "malformed"],
                     Wave("w2", "other", "any") >>]

\* A JUnit file that does not parse, before a log; and an SVA count that is no number.
BadXml ==
    [Nothing EXCEPT
        !.results = << Xml("p1", "b1", "uncaught", << >>, << >>),
                       Log("p3", None, "ok", "pass", "smoke", << >>, << >>) >>]
BadSva ==
    [Nothing EXCEPT
        !.results = << Log("p3", None, "ok", "pass", "smoke", << >>, << >>) >>,
        !.sva = << Sva("v1", "smoke", << Entry("a_req", TRUE), Entry("a_ack", FALSE) >>) >>]

\* A coverage report that is no XML, between reports of a run.
BadCoverage ==
    [Nothing EXCEPT
        !.results = << Log("p3", None, "ok", "pass", "smoke", << >>, << >>) >>,
        !.coverage = << Cov("c1", "b1", "smoke"), [Cov("c2", "b1", "smoke") EXCEPT !.body = "uncaught"],
                        Cov("c3", None, "smoke") >>]

\* Every mixture of three results files, each of one build or of none: a first that passes,
\* fails or is skipped, a second and a third that pass or fail, of one test name or two.
Firsts ==
    {Xml("p1", b, "ok", << Case("smoke", s, "s1"), Case("smoke", "pass", "s2") >>,
         IF s = "fail" THEN << Fail("smoke", "x", 1, << "r1" >>) >> ELSE << >>) :
        b \in {"b1", None}, s \in Statuses}
      \cup {Xml("p1", "b1", "oversize", << >>, << >>)}

Seconds ==
    {Log("p3", b, "ok", v, "smoke",
         IF v = "fail" THEN << Fail("smoke", "x", 2, << "r2" >>), Fail("smoke", "x", 7, << >>) >>
                       ELSE << >>, << >>) :
        b \in {"b1", None}, v \in {"pass", "fail", "aborted"}}

Thirds ==
    {Xml("p6", b, "ok", << Case(n, "pass", "none") >>, << >>) :
        b \in {"b1", None}, n \in {"smoke", "other"}}
      \cup {Xml("p6", b, "ok", << Case("other", "pass", "none"), Case("smoke", "fail", "s2") >>,
                << Fail("smoke", "x", 3, << "r3" >>), Fail("smoke", "y", 4, << "r2" >>) >>) :
               b \in {"b1", None}}

Mixtures ==
    {[Nothing EXCEPT !.results = << x, y, z >>, 
                     !.coverage = << Cov("c1", "b1", "tb.other"), Cov("c2", None, "smoke") >>] :
        x \in Firsts, y \in Seconds, z \in Thirds}

AllCorpora == {Regression, Nothing, Gaps, BadXml, BadSva, BadCoverage}
JustRegression == {Regression}
=============================================================================
