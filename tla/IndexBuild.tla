------------------------------ MODULE IndexBuild ------------------------------
(***************************************************************************)
(* What a rebuild promises a reader, without tables, files or statements.  *)
(*                                                                         *)
(* The index shows facts: a run, a failed run, a test, a failure. A        *)
(* rebuild forgets everything once, then only adds facts of the artifacts  *)
(* it scanned, a few at a time, and is complete when it shows them all.    *)
(***************************************************************************)
EXTENDS IndexContent

VARIABLES
    corpus,   \* the artifacts on disk
    scan,     \* the artifacts of the current (or last) rebuild
    mode,     \* "idle", "scanned" or "building"
    shown,    \* the facts the index shows
    whole     \* the artifacts the index is complete for, or None

buildVars == <<corpus, scan, mode, shown, whole>>

Fact(kind, id) == [fact |-> kind, id |-> id]

FactsOf(view) ==
    {Fact("run", r.id) : r \in view.runs}
      \cup {Fact("failed", r.id) : r \in {s \in view.runs : s.status = "fail"}}
      \cup {Fact("test", t.id) : t \in view.tests}
      \cup {Fact("failure", f.id) : f \in view.failures}

Meaning(c) == FactsOf(Content(c))

BuildInit ==
    /\ corpus \in Corpora /\ scan = corpus
    /\ mode = "idle" /\ shown = {} /\ whole = None

ExportArtifacts ==
    /\ mode = "idle" /\ corpus' \in Corpora
    /\ UNCHANGED <<scan, mode, shown, whole>>

Begin ==
    /\ mode = "idle" /\ mode' = "scanned" /\ scan' = corpus
    /\ UNCHANGED <<corpus, shown, whole>>

Forget ==
    /\ mode = "scanned" /\ mode' = "building" /\ shown' = {} /\ whole' = None
    /\ UNCHANGED <<corpus, scan>>

Show ==
    /\ mode = "building" /\ shown \subseteq shown' /\ shown' \subseteq Meaning(scan)
    /\ UNCHANGED <<corpus, scan, mode, whole>>

Complete ==
    /\ mode = "building" /\ mode' = "idle" /\ shown = Meaning(scan) /\ whole' = scan
    /\ UNCHANGED <<corpus, scan, shown>>

GiveUp ==
    /\ mode \in {"scanned", "building"} /\ mode' = "idle"
    /\ UNCHANGED <<corpus, scan, shown, whole>>

BuildNext == ExportArtifacts \/ Begin \/ Forget \/ Show \/ Complete \/ GiveUp

\* What a reader may see, ...
BuildSafe == BuildInit /\ [][BuildNext]_buildVars

\* ... and that a rebuild that began ends, completed or given up.
BuildSpec ==
    /\ BuildSafe
    /\ (mode # "idle") ~> (mode = "idle")

=============================================================================
