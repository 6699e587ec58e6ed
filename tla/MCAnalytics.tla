----------------------------- MODULE MCAnalytics -----------------------------
(* Three runs, two of one suite. One set of artifacts for the outcomes of a test over runs
   and simulators, one for two runs with several tests, one for coverage, one of all. *)
EXTENDS Analytics

MCSuiteOf == [r \in {"r1", "r2", "r3"} |-> IF r = "r3" THEN "s2" ELSE "s1"]
MCSigOf ==
    [x \in {"x1", "x2", "x3", "x4"} |-> CASE x = "x3" -> "g2" [] x = "x4" -> "g3" [] OTHER -> "g1"]

R(r, n, f, s, st, x) ==
    [run |-> r, name |-> n, framework |-> f, sim |-> s, status |-> st, texts |-> x]
C(r, k, t, c) == [run |-> r, kind |-> k, total |-> t, count |-> c]

Outcomes ==
    {R("r1", "a", "uvm", "vcs", "pass", {}), R("r1", "a", "uvm", "questa", "fail", {"x1"}),
     R("r2", "a", "uvm", "questa", "fail", {"x1"}), R("r2", "a", "uvm", "questa", "skip", {}),
     R("r2", "a", "uvm", NoSim, "pass", {}), R("r3", "a", "uvm", "questa", "fail", {"x1"}),
     R("r3", "a", "uvm", "vcs", "pass", {}), R("r2", "a", "cocotb", "questa", "fail", {"x3"})}
Batches ==
    {R("r1", "a", "uvm", "vcs", "pass", {}), R("r1", "a", "uvm", "vcs", "fail", {"x1"}),
     R("r1", "b", "uvm", "vcs", "fail", {"x1", "x2"}), R("r2", "a", "uvm", "vcs", "fail", {"x1", "x2", "x3", "x4"}),
     R("r2", "a", "cocotb", NoSim, "pass", {}), R("r2", "b", "uvm", "vcs", "skip", {}),
     R("r2", "c", "uvm", "vcs", "pass", {})}
Coverages ==
    {C("r1", "functional", 60, 1), C("r1", "functional", 0, 0), C("r1", "toggle", 50, 1),
     C("r2", "functional", 180, 2), C("r2", "functional", 30, 1), C("r3", "functional", 90, 1),
     C("r3", "toggle", 10, 1)}

MixedResults ==
    {R("r1", "a", "uvm", "vcs", "pass", {}), R("r2", "a", "uvm", "questa", "pass", {}),
     R("r2", "a", "uvm", "questa", "fail", {"x1"}), R("r2", "b", "uvm", "questa", "pass", {})}
MixedSummaries ==
    {C("r1", "functional", 100, 1), C("r2", "functional", 140, 2), C("r2", "toggle", 95, 1)}

MCMenus ==
    {[results |-> MixedResults, summaries |-> MixedSummaries],
     [results |-> Outcomes, summaries |-> {}], [results |-> Batches, summaries |-> {}],
     [results |-> {}, summaries |-> Coverages]}
=============================================================================
