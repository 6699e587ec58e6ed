----------------------------- MODULE IndexClaims -----------------------------
(***************************************************************************)
(* What the documentation and the comments say of the index and the pass   *)
(* does not do: one claim, one run, one counterexample (README, Findings). *)
(***************************************************************************)
EXTENDS MCIndexPass

\* "Write to DuckDB in a transaction": a database found with no pass running is the index
\* of a whole artifact set.
BuildIsAtomic == (phase = "idle" /\ db = "present") => whole # None

=============================================================================
