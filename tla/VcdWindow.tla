------------------------------ MODULE VcdWindow ------------------------------
(***************************************************************************)
(* VcdSummaryParser: one pass over a value change dump, line by line, that *)
(* keeps for each signal what a window of the trace needs: how often it    *)
(* toggled, and its values at the window's edges.                          *)
(*                                                                         *)
(* The dump is external: its times do not decrease, and a line changes one *)
(* identifier. A signal is a name; several identifiers can have the same   *)
(* name (a name in two scopes), and are merged. The parser keeps the       *)
(* running value by identifier and everything else by name.                *)
(*                                                                         *)
(* `trace` is a history variable, the changes so far; only the reference   *)
(* definitions read it.                                                    *)
(***************************************************************************)
EXTENDS Naturals, Sequences, FiniteSets

CONSTANTS
    Ids,            \* identifier codes
    Names,          \* signal names
    Values,         \* values a change can carry
    None,           \* no value, no name, no bound
    Missing,        \* a name that is no key of start_values yet
    Declarations,   \* the headers: the name each identifier was last declared with, or None
    Windows,        \* the time windows of the calls
    MaxTime,        \* the trace's last timestamp
    MaxChanges      \* the trace's length

ASSUME NamesAssumption ==
    /\ None \notin Values \cup Names /\ Missing \notin Values \cup {None}
    /\ Declarations \subseteq [Ids -> Names \cup {None}]

\* The tools pass both bounds, in order, or neither.
ASSUME WindowsAssumption ==
    Windows \subseteq {w \in [lo : Nat \cup {None}, hi : Nat \cup {None}] :
                          \/ w.lo = None /\ w.hi = None
                          \/ w.lo \in Nat /\ w.hi \in Nat /\ w.lo <= w.hi}
ASSUME NoneIsNoTime == None \notin Nat

VARIABLES
    window, name,   \* of this call
    time,           \* current_time_ns
    running,        \* by identifier: the last value up to the window's end
    pre_window,     \* by name: the last value before the window
    start_values, end_values, toggles,   \* by name
    trace

summary == <<running, pre_window, start_values, end_values, toggles>>
vars == <<window, name, time, summary, trace>>

Init ==
    /\ window \in Windows /\ name \in Declarations
    /\ time = 0
    /\ running = [i \in Ids |-> None]
    /\ pre_window = [n \in Names |-> None]
    /\ start_values = [n \in Names |-> Missing]
    /\ end_values = [n \in Names |-> None]
    /\ toggles = [n \in Names |-> 0]
    /\ trace = << >>

\* "#<time>"
Timestamp ==
    /\ \E t \in (time + 1)..MaxTime : time' = t
    /\ UNCHANGED <<window, name, summary, trace>>

BeforeWindow(t) == window.lo # None /\ t < window.lo

AfterWindowStrict(t) == window.hi # None /\ t >= window.hi \* mutant: the end is excluded
AfterWindow(t) == window.hi # None /\ t > window.hi

InWindow(t) == ~BeforeWindow(t) /\ ~AfterWindow(t)

(***************************************************************************)
(* apply_value: one of four cases.                                         *)
(***************************************************************************)
Undeclared(i) ==
    /\ name[i] = None
    /\ UNCHANGED summary

Early(i, v) ==
    /\ name[i] # None /\ BeforeWindow(time)
    /\ pre_window' = [pre_window EXCEPT ![name[i]] = v]
    /\ running' = [running EXCEPT ![i] = v]
    /\ UNCHANGED <<start_values, end_values, toggles>>

Late(i) ==
    /\ name[i] # None /\ AfterWindow(time)
    /\ UNCHANGED summary

StartValueRestarts(n, i) == \* mutant: the start value is not kept
    IF pre_window[n] # None THEN pre_window[n] ELSE running[i]
StartValueEarly(n, i) == \* mutant: no start value without one before the window
    IF start_values[n] = Missing /\ pre_window[n] # None THEN pre_window[n] ELSE start_values[n]

\* Set by the first change in the window, and kept.
StartValue(n, i) ==
    CASE start_values[n] # Missing -> start_values[n]
      [] start_values[n] = Missing /\ pre_window[n] # None -> pre_window[n]
      [] OTHER -> running[i]

Within(i, v) ==
    /\ name[i] # None /\ InWindow(time)
    /\ LET n == name[i] IN
          /\ start_values' = [start_values EXCEPT ![n] = StartValue(n, i)]
          /\ toggles' = [toggles EXCEPT ![n] =
                            IF running[i] # None /\ running[i] # v THEN @ + 1 ELSE @]
          /\ end_values' = [end_values EXCEPT ![n] = v]
    /\ running' = [running EXCEPT ![i] = v]
    /\ UNCHANGED pre_window

Change(i, v) ==
    /\ Len(trace) < MaxChanges
    /\ Undeclared(i) \/ Early(i, v) \/ Late(i) \/ Within(i, v)
    /\ trace' = Append(trace, [time |-> time, id |-> i, value |-> v])
    /\ UNCHANGED <<window, name, time>>

Next == Timestamp \/ \E i \in Ids, v \in Values : Change(i, v)

Spec == Init /\ [][Next]_vars

(***************************************************************************)
(* The answer for a signal.                                                *)
(***************************************************************************)
value_at_start(n) == IF start_values[n] = Missing THEN None ELSE start_values[n]
value_at_end(n) == end_values[n]
last_value(n) == IF end_values[n] # None THEN end_values[n] ELSE pre_window[n]

(***************************************************************************)
(* The reference: the same, read off the whole trace.                      *)
(***************************************************************************)
Changes(n) == {k \in DOMAIN trace : name[trace[k].id] = n}
Spans(t) == window.lo = None \/ (window.lo <= t /\ t <= window.hi)
Inside(n) == {k \in Changes(n) : Spans(trace[k].time)}
Ahead(n) == {k \in Changes(n) : window.lo # None /\ trace[k].time < window.lo}

\* The change before change k of the same identifier.
Earlier(k) == {j \in 1..(k - 1) : trace[j].id = trace[k].id}
IsPrevious(j, k) == j \in Earlier(k) /\ \A m \in Earlier(k) : m <= j

Toggles(n) ==
    {k \in Inside(n) : \E j \in Earlier(k) : IsPrevious(j, k) /\ trace[j].value # trace[k].value}

LastValueOf(S) ==
    IF S = {} THEN None ELSE trace[CHOOSE k \in S : \A j \in S : j <= k].value

(***************************************************************************)
(* Properties.                                                             *)
(***************************************************************************)
Changed == [time : Nat, id : Ids, value : Values]

\* ... and a name has a start value from its first change in the window on, and an end value.
TypeOK ==
    /\ window \in Windows /\ name \in Declarations /\ time \in Nat
    /\ running \in [Ids -> Values \cup {None}]
    /\ pre_window \in [Names -> Values \cup {None}]
    /\ start_values \in [Names -> Values \cup {None, Missing}]
    /\ end_values \in [Names -> Values \cup {None}]
    /\ toggles \in [Names -> Nat]
    /\ trace \in Seq(Changed)
    /\ \A n \in Names : start_values[n] = Missing <=> end_values[n] = None

\* A signal's toggles are its changes in the window, its edges included, to another value
\* than the same identifier had, also where it had that value from before the window.
TogglesExact == \A n \in Names : toggles[n] = Cardinality(Toggles(n))

\* A signal that changes in the window has the value it had just before it, or none if it
\* had none yet, and the value it ends the window with; one that does not has the last
\* value before the window.
EdgesExact ==
    \A n \in Names :
        /\ value_at_start(n) = IF Inside(n) = {} THEN None ELSE LastValueOf(Ahead(n))
        /\ value_at_end(n) = LastValueOf(Inside(n))
        /\ last_value(n) = LastValueOf(Inside(n) \cup Ahead(n))

=============================================================================
