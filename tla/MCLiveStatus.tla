----------------------------- MODULE MCLiveStatus -----------------------------
(* Two status files: one of a reference harness, one rewritten in place; a suite that names *)
(* both and a suite that names the reference harness's alone.                               *)
EXTENDS LiveStatus

MCSearch == << "live", "sim" >>
MCMatching == [both |-> {"live", "sim"}, live |-> {"live"}]
=============================================================================
