------------------------------- MODULE Listing -------------------------------
(***************************************************************************)
(* A client that walks the pages of a list tool.                           *)
(*                                                                         *)
(* The tools of core.py answer one page a call and keep nothing between    *)
(* calls: the order of the rows, the total and the bound on the response   *)
(* are all a client has to put the pages together. Most count their rows   *)
(* with a second statement (total "count"); the SVA tools and coverage.gaps *)
(* count the rows they fetched (total "fetched").                          *)
(*                                                                         *)
(* The client is external: it asks for page 1, then for the next page      *)
(* while page < total_pages, and starts again with smaller pages when a    *)
(* call is refused. The rows are those of the index its server opened; a   *)
(* server that restarts in the middle of a walk may open another one.      *)
(***************************************************************************)
EXTENDS Naturals, Sequences, FiniteSets, SequencesExt

CONSTANTS
    Tables,          \* the row sets the tool's filter can meet
    Null,            \* an empty sort column
    MaxKey,          \* sort columns are 0..MaxKey
    max_page_size, max_coverage_gaps, max_response_bytes,   \* config.security
    MetricLimit,     \* query_coverage_metrics' default limit
    PageBound        \* a walk asks for no page beyond it

\* `key` is the sort column (or columns, in their order), `match` whether the row meets the
\* filter, `bytes` its share of the response.
Rows == [id : Nat, key : 0..MaxKey \cup {Null}, match : BOOLEAN, bytes : Nat]

ASSUME TablesAssumption ==
    /\ Tables \subseteq SUBSET Rows
    /\ \A T \in Tables : IsFiniteSet(T) /\ \A r, s \in T : r.id = s.id => r = s

ASSUME LimitsAssumption ==
    /\ max_page_size \in Nat \ {0} /\ max_coverage_gaps \in Nat \ {0}
    /\ max_response_bytes \in Nat /\ MetricLimit \in Nat /\ PageBound \in Nat \ {0}
    /\ MaxKey \in Nat /\ Null \notin Nat

\* The bound on the walk is none: no row set has more rows than it allows pages of one row.
ASSUME PageBoundAssumption == \A T \in Tables : Cardinality(T) <= PageBound

(***************************************************************************)
(* The queries: how each orders its rows, and whether the row id breaks    *)
(* ties. generate_recommendations sorts in place of a query; its sort is   *)
(* stable over rows that come in the order of their ids.                   *)
(***************************************************************************)
query_runs == [order |-> "desc", tie |-> "id"]
query_tests == [order |-> "desc", tie |-> "id"]
query_failures == [order |-> "desc", tie |-> "id"]
query_assertions == [order |-> "asc", tie |-> "id"]
query_assertion_failures == [order |-> "desc", tie |-> "id"]
query_coverage_summaries == [order |-> "asc", tie |-> "id"]
query_sva_run_status == [order |-> "asc", tie |-> "none"]
query_vacuous_assertions == [order |-> "asc", tie |-> "none"]
generate_recommendations == [order |-> "asc", tie |-> "id"]

\* The tools: their query, what their total counts, and the configured limit, if any, on
\* the rows they ever show. Tools alike in all three are one value, walked once.
list_runs == [query |-> query_runs, total |-> "count", cap |-> Null]
list_tests == [query |-> query_tests, total |-> "count", cap |-> Null]
list_failures == [query |-> query_failures, total |-> "count", cap |-> Null]
list_assertions == [query |-> query_assertions, total |-> "count", cap |-> Null]
list_assertion_failures ==
    [query |-> query_assertion_failures, total |-> "count", cap |-> Null]
list_coverage == [query |-> query_coverage_summaries, total |-> "count", cap |-> Null]
get_sva_status == [query |-> query_sva_run_status, total |-> "fetched", cap |-> Null]
get_vacuous_assertions ==
    [query |-> query_vacuous_assertions, total |-> "fetched", cap |-> max_coverage_gaps]
get_coverage_gaps ==
    [query |-> generate_recommendations, total |-> "gaps", cap |-> max_coverage_gaps]

Tools ==
    {list_runs, list_tests, list_failures, list_assertions, list_assertion_failures,
     list_coverage, get_sva_status, get_vacuous_assertions, get_coverage_gaps}

Counting == {t \in Tools : t.total = "count"}

VARIABLES
    tool, table,  \* the tool and the rows the server's index has for it
    page, size,   \* the next call's arguments
    got,          \* the rows of the pages so far
    total,        \* total_items of the last answer
    status,       \* "walking", "done" or "refused"
    moved         \* the server opened another index since the walk began

vars == <<tool, table, page, size, got, total, status, moved>>

AtMost(m, n) == IF m <= n THEN m ELSE n

(***************************************************************************)
(* What a query returns.                                                   *)
(***************************************************************************)
\* DuckDB puts an empty column last, in either direction; COALESCE(time_ns, -1) does the
\* same for assertion failures.
SortRank(t, r) ==
    CASE r.key = Null -> MaxKey + 1
      [] r.key # Null /\ t.query.order = "asc" -> r.key
      [] OTHER -> MaxKey - r.key

PrecedesByKey(t, x, y) == SortRank(t, x) < SortRank(t, y) \* mutant: no secondary sort

Precedes(t, x, y) ==
    \/ SortRank(t, x) < SortRank(t, y)
    \/ SortRank(t, x) = SortRank(t, y) /\ t.query.tie = "id" /\ x.id < y.id

\* The rows a tool considers: coverage.gaps reads at most MetricLimit of them first.
Matching(t) ==
    LET first == IF t.total # "gaps" THEN table
                 ELSE {r \in table : Cardinality({s \in table : s.id < r.id}) < MetricLimit}
    IN  {r \in first : r.match}

\* Rows that tie may come in any order, and in another order next time.
Orderings(t) ==
    {s \in SetToSeqs(Matching(t)) :
        \A i, j \in DOMAIN s : i < j => ~Precedes(t, s[j], s[i])}

FetchPage(t) == \* mutant: no row beyond the page
    IF t.total = "fetched" THEN AtMost(size * page, IF t.cap = Null THEN size * page ELSE t.cap)
    ELSE IF t.cap = Null THEN Cardinality(table) ELSE t.cap

\* How many rows are fetched to answer for a page: the SVA tools fetch one page beyond it.
Fetch(t) ==
    LET wanted == IF t.total = "fetched" THEN size * page + size ELSE Cardinality(table)
    IN  IF t.cap = Null THEN wanted ELSE AtMost(wanted, t.cap)

SliceFromNext(s) == \* mutant: pages counted from zero
    SubSeq(s, page * size + 1, AtMost((page + 1) * size, Len(s)))

Prefix(s, n) == SubSeq(s, 1, AtMost(n, Len(s)))
Slice(s) == SubSeq(s, (page - 1) * size + 1, AtMost(page * size, Len(s)))

TotalWanted(t, fetched) == \* mutant: the limit, not the rows it returned
    IF t.total = "count" THEN Cardinality(Matching(t)) ELSE Fetch(t)

TotalItems(t, fetched) ==
    IF t.total = "count" THEN Cardinality(Matching(t)) ELSE Len(fetched)

Answers ==
    {LET fetched == Prefix(s, Fetch(tool))
     IN  [items |-> Slice(fetched), total |-> TotalItems(tool, fetched)] : s \in Orderings(tool)}

(***************************************************************************)
(* The envelope.                                                           *)
(***************************************************************************)
ClampRefuses == size > max_page_size

Fits(items) == FoldLeft(LAMBDA sum, r : sum + r.bytes, 0, items) <= max_response_bytes

TotalPages(n) == (n + size - 1) \div size

(***************************************************************************)
(* The walk.                                                               *)
(***************************************************************************)
Init ==
    /\ tool \in Tools /\ table \in Tables
    /\ page = 1 /\ size \in 1..(max_page_size + 1)
    /\ got = << >> /\ total = 0
    /\ status = "walking" /\ moved = FALSE

Answered ==
    /\ status = "walking" /\ page <= PageBound /\ ~ClampRefuses
    /\ \E a \in Answers :
          /\ Fits(a.items)
          /\ got' = got \o a.items
          /\ total' = a.total
          /\ IF page < TotalPages(a.total)
             THEN page' = page + 1 /\ UNCHANGED status
             ELSE status' = "done" /\ UNCHANGED page
    /\ UNCHANGED <<tool, table, size, moved>>

\* INVALID_ARGUMENT and LIMIT_EXCEEDED: smaller pages, from the first; or nothing smaller.
Refused ==
    /\ status = "walking" /\ page <= PageBound
    /\ ClampRefuses \/ \E a \in Answers : ~Fits(a.items)
    /\ IF size > 1
       THEN size' = size - 1 /\ page' = 1 /\ got' = << >> /\ total' = 0 /\ moved' = FALSE
            /\ UNCHANGED status
       ELSE status' = "refused" /\ UNCHANGED <<page, size, got, total, moved>>
    /\ UNCHANGED <<tool, table>>

\* The server restarts and opens the index of another pass (IndexFile!Restart, GetStore).
Reopen ==
    /\ status = "walking"
    /\ table' \in Tables /\ moved' = TRUE
    /\ UNCHANGED <<tool, page, size, got, total, status>>

Next == Answered \/ Refused \/ Reopen

\* The client goes on until it is done.
Spec == Init /\ [][Next]_vars /\ WF_vars(Answered \/ Refused)

(***************************************************************************)
(* Properties.                                                             *)
(***************************************************************************)
\* ... and no answer offers a page beyond the rows there are.
TypeOK ==
    /\ tool \in Tools /\ table \in Tables
    /\ page \in 1..PageBound /\ size \in 1..(max_page_size + 1)
    /\ got \in Seq(Rows) /\ total \in Nat
    /\ status \in {"walking", "done", "refused"} /\ moved \in BOOLEAN

Ended == status = "done" /\ ~moved

\* The pages of a tool that counts put together are its rows, each once, in one order, and
\* every answer of the walk said how many they would be: no row is lost or shown twice at a
\* page boundary, whatever ties in the sort column and whatever the page size.
CountedWalkExact ==
    (tool \in Counting /\ ~moved) =>
        /\ status = "done" => got \in Orderings(tool) /\ Len(got) = total
        /\ got # << >> => total = Cardinality(Matching(tool))

\* The walk of a tool that counts what it fetched does not end early, though no answer but
\* the last states the true total: it shows as many rows as match, up to the tool's cap.
FetchedWalkComplete ==
    (tool \notin Counting /\ Ended) =>
        /\ Len(got) = total
        /\ total = IF tool.cap = Null THEN Cardinality(Matching(tool))
                   ELSE AtMost(tool.cap, Cardinality(Matching(tool)))

\* ... and where the order is total, they are the first rows of that order, each once.
GapsWalkExact ==
    (tool = get_coverage_gaps /\ Ended) =>
        \E s \in Orderings(tool) : got = Prefix(s, tool.cap)

\* Every walk ends, even of a server that keeps reopening.
WalkEnds == <>(status # "walking")

=============================================================================
