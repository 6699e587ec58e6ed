--------------------------- MODULE VcdWindowProofs ---------------------------
(***************************************************************************)
(* Theorems of VcdWindow, for every header, window and trace, of any       *)
(* length: what the parser accumulates line by line is what the reference  *)
(* reads off the whole trace.                                              *)
(*                                                                         *)
(* The parser compares a change with the running value of its identifier.  *)
(* That is the reference's previous change only while the trace has not    *)
(* gone beyond the window (RunningHeld), which is enough because times do  *)
(* not decrease (TimesPassed).                                             *)
(***************************************************************************)
EXTENDS VcdWindow, FiniteSetTheorems, TLAPS

TimesPassed ==
    \A k \in DOMAIN trace :
        /\ trace[k].time <= time
        /\ \A j \in DOMAIN trace : j <= k => trace[j].time <= trace[k].time

Of(i) == {k \in DOMAIN trace : trace[k].id = i}
Latest(k, S) == k \in S /\ \A j \in S : j <= k

\* w is the value of the latest of the changes S of the trace tr, or None if there is none.
Held(w, S, tr) ==
    \/ w = None /\ S = {}
    \/ \E k \in S : Latest(k, S) /\ w = tr[k].value

RunningHeld ==
    ~AfterWindow(time) =>
        \A i \in Ids : name[i] # None => Held(running[i], Of(i), trace)

EdgesHeld ==
    \A n \in Names :
        /\ Held(pre_window[n], Ahead(n), trace)
        /\ Held(end_values[n], Inside(n), trace)
        /\ start_values[n] # Missing => Held(start_values[n], Ahead(n), trace)

IInv == TypeOK /\ TimesPassed /\ RunningHeld /\ TogglesExact /\ EdgesHeld

(***************************************************************************)
(* The window.                                                             *)
(***************************************************************************)
\* The code's tests on a time are the reference's, and a time is on one side only.
LEMMA WindowSides ==
    ASSUME TypeOK, NEW t \in Nat
    PROVE  /\ InWindow(t) <=> Spans(t)
           /\ BeforeWindow(t) <=> (window.lo # None /\ t < window.lo)
           /\ ~(BeforeWindow(t) /\ Spans(t)) /\ ~(AfterWindow(t) /\ Spans(t))
           /\ ~(BeforeWindow(t) /\ AfterWindow(t))
<1>1. \/ window.lo = None /\ window.hi = None
      \/ window.lo \in Nat /\ window.hi \in Nat /\ window.lo <= window.hi
  BY WindowsAssumption DEF TypeOK
<1> QED BY <1>1, NoneIsNoTime DEF InWindow, Spans, BeforeWindow, AfterWindow

\* Once beyond the window, always beyond it.
LEMMA AfterStays ==
    ASSUME TypeOK, NEW t \in Nat, NEW u \in Nat, t <= u, AfterWindow(t)
    PROVE  AfterWindow(u)
<1>1. window.hi # None => window.hi \in Nat
  BY WindowsAssumption DEF TypeOK
<1> QED BY <1>1 DEF AfterWindow

(***************************************************************************)
(* The trace grows by one change.                                          *)
(***************************************************************************)
Grows(i, v) ==
    /\ trace' = Append(trace, [time |-> time, id |-> i, value |-> v])
    /\ UNCHANGED <<window, name>>

LEMMA Grown ==
    ASSUME TypeOK, NEW i \in Ids, NEW v \in Values, Grows(i, v)
    PROVE  /\ trace' \in Seq(Changed)
           /\ Len(trace) \in Nat
           /\ DOMAIN trace = 1..Len(trace) /\ DOMAIN trace' = 1..(Len(trace) + 1)
           /\ \A k \in DOMAIN trace : trace'[k] = trace[k]
           /\ \A k \in DOMAIN trace : trace[k] \in Changed
           /\ trace'[Len(trace) + 1] = [time |-> time, id |-> i, value |-> v]
<1>1. trace \in Seq(Changed) /\ [time |-> time, id |-> i, value |-> v] \in Changed
  BY DEF TypeOK, Changed
<1> QED BY <1>1 DEF Grows

\* Positions: each set of the reference gains the new position or nothing.
LEMMA SetsGrow ==
    ASSUME TypeOK, NEW i \in Ids, NEW v \in Values, NEW n \in Names, Grows(i, v)
    PROVE  /\ Inside(n)' = Inside(n) \cup
                  (IF name[i] = n /\ Spans(time) THEN {Len(trace) + 1} ELSE {})
           /\ Ahead(n)' = Ahead(n) \cup
                  (IF name[i] = n /\ BeforeWindow(time) THEN {Len(trace) + 1} ELSE {})
           /\ Inside(n) \subseteq DOMAIN trace /\ Ahead(n) \subseteq DOMAIN trace
<1>0. PICK L \in Nat : L = Len(trace) + 1
  BY DEF TypeOK
<1>9. window' = window /\ name' = name
  BY DEF Grows
<1>1. /\ DOMAIN trace' = DOMAIN trace \cup {L} /\ L \notin DOMAIN trace
      /\ \A k \in DOMAIN trace : trace'[k] = trace[k]
      /\ trace'[L] = [time |-> time, id |-> i, value |-> v]
      /\ \A k \in DOMAIN trace : trace[k].time \in Nat
  <2>1. /\ Len(trace) \in Nat
        /\ DOMAIN trace = 1..Len(trace) /\ DOMAIN trace' = 1..(Len(trace) + 1)
    BY Grown
  <2>2. DOMAIN trace' = DOMAIN trace \cup {L} /\ L \notin DOMAIN trace
    BY <1>0, <2>1
  <2>3. \A k \in DOMAIN trace : trace[k] \in Changed
    BY Grown
  <2>4. \A k \in DOMAIN trace : trace[k].time \in Nat
    BY <2>3 DEF Changed
  <2>5. /\ \A k \in DOMAIN trace : trace'[k] = trace[k]
        /\ trace'[L] = [time |-> time, id |-> i, value |-> v]
    BY <1>0, Grown
  <2> QED BY <2>2, <2>4, <2>5
<1>2. Changes(n)' = Changes(n) \cup (IF name[i] = n THEN {L} ELSE {})
  <2>1. trace'[L].id = i /\ \A k \in DOMAIN trace : trace'[k].id = trace[k].id
    BY <1>1
  <2>2. Changes(n)' = {k \in DOMAIN trace \cup {L} : name[trace'[k].id] = n}
    BY <1>1, <1>9 DEF Changes
  <2>3. L \notin DOMAIN trace
    BY <1>1
  <2> QED BY <2>1, <2>2, <2>3 DEF Changes
<1>3. time \in Nat
  BY DEF TypeOK
<1>4. \A t \in Nat : Spans(t)' <=> Spans(t)
  BY <1>9 DEF Spans
<1>5. Inside(n)' = Inside(n) \cup (IF name[i] = n /\ Spans(time) THEN {L} ELSE {})
  <2>1. \A k \in Changes(n) : k \in DOMAIN trace
    BY DEF Changes
  <2>2. Inside(n)' = {k \in Changes(n)' : Spans(trace'[k].time)}
    BY <1>9 DEF Inside, Spans
  <2>3. \A k \in Changes(n) : trace'[k].time = trace[k].time
    BY <1>1, <2>1
  <2>4. trace'[L].time = time
    BY <1>1
  <2>5. L \notin Changes(n)
    BY <1>1, <2>1
  <2> QED BY <1>2, <2>2, <2>3, <2>4, <2>5 DEF Inside
<1>6. Ahead(n)' = Ahead(n) \cup (IF name[i] = n /\ BeforeWindow(time) THEN {L} ELSE {})
  <2>1. \A k \in Changes(n) : k \in DOMAIN trace
    BY DEF Changes
  <2>2. Ahead(n)' = {k \in Changes(n)' : window.lo # None /\ trace'[k].time < window.lo}
    BY <1>9 DEF Ahead
  <2>3. \A k \in Changes(n) : trace'[k].time = trace[k].time
    BY <1>1, <2>1
  <2>4. trace'[L].time = time
    BY <1>1
  <2>5. L \notin Changes(n)
    BY <1>1, <2>1
  <2> QED BY <1>2, <2>2, <2>3, <2>4, <2>5 DEF Ahead, BeforeWindow
<1> QED BY <1>0, <1>5, <1>6 DEF Inside, Ahead, Changes

LEMMA OfGrows ==
    ASSUME TypeOK, NEW i \in Ids, NEW v \in Values, NEW j \in Ids, Grows(i, v)
    PROVE  Of(j)' = Of(j) \cup (IF j = i THEN {Len(trace) + 1} ELSE {})
<1>0. PICK L \in Nat : L = Len(trace) + 1
  BY DEF TypeOK
<1>1. /\ DOMAIN trace = 1..Len(trace) /\ DOMAIN trace' = 1..(Len(trace) + 1)
      /\ Len(trace) \in Nat
      /\ \A k \in DOMAIN trace : trace'[k] = trace[k]
      /\ trace'[L] = [time |-> time, id |-> i, value |-> v]
  BY <1>0, Grown
<1>2. DOMAIN trace' = DOMAIN trace \cup {L} /\ L \notin DOMAIN trace
  BY <1>0, <1>1
<1>3. trace'[L].id = i /\ \A k \in DOMAIN trace : trace'[k].id = trace[k].id
  <2>1. trace'[L] = [time |-> time, id |-> i, value |-> v]
    BY <1>1
  <2> QED BY <1>1, <2>1
<1> QED BY <1>0, <1>2, <1>3 DEF Of

\* The previous change of a change already in the trace stays what it was.
LEMMA TogglesGrow ==
    ASSUME TypeOK, NEW i \in Ids, NEW v \in Values, NEW n \in Names, Grows(i, v)
    PROVE  /\ Toggles(n)' = Toggles(n) \cup
                  (IF /\ name[i] = n /\ Spans(time)
                      /\ \E k \in Of(i) : Latest(k, Of(i)) /\ trace[k].value # v
                   THEN {Len(trace) + 1} ELSE {})
           /\ IsFiniteSet(Toggles(n)) /\ Len(trace) + 1 \notin Toggles(n)
<1>0. PICK L \in Nat : L = Len(trace) + 1
  BY DEF TypeOK
<1> DEFINE Turns(k) == \E j \in Earlier(k) : IsPrevious(j, k) /\ trace[j].value # trace[k].value
<1>1. /\ DOMAIN trace = 1..Len(trace) /\ Len(trace) \in Nat
      /\ \A k \in DOMAIN trace : trace'[k] = trace[k]
      /\ trace'[L] = [time |-> time, id |-> i, value |-> v]
  BY <1>0, Grown
<1>2. \A k \in DOMAIN trace : Earlier(k)' = Earlier(k) /\ Earlier(k) \subseteq DOMAIN trace
  <2> TAKE k \in DOMAIN trace
  <2>1. 1..(k - 1) \subseteq DOMAIN trace
    BY <1>1
  <2> QED BY <1>1, <2>1 DEF Earlier
<1>3. \A k \in DOMAIN trace : Turns(k)' <=> Turns(k)
  <2> TAKE k \in DOMAIN trace
  <2>1. Earlier(k)' = Earlier(k) /\ \A j \in Earlier(k) : trace'[j] = trace[j]
    BY <1>1, <1>2
  <2> QED BY <1>1, <2>1 DEF IsPrevious
<1>4. Earlier(L)' = Of(i)
  BY <1>0, <1>1 DEF Earlier, Of
<1>5. Turns(L)' <=> \E k \in Of(i) : Latest(k, Of(i)) /\ trace[k].value # v
  <2>1. \A k \in Of(i) : trace'[k].value = trace[k].value
    BY <1>1 DEF Of
  <2>2. \A j \in Of(i) : IsPrevious(j, L)' <=> Latest(j, Of(i))
    <3> TAKE j \in Of(i)
    <3>1. IsPrevious(j, L)' <=> (j \in Earlier(L)' /\ \A m \in Earlier(L)' : m <= j)
      BY DEF IsPrevious
    <3>2. Latest(j, Of(i)) <=> (j \in Of(i) /\ \A m \in Of(i) : m <= j)
      BY DEF Latest
    <3> QED BY <1>4, <3>1, <3>2
  <2>3. trace'[L].value = v
    <3>1. trace'[L] = [time |-> time, id |-> i, value |-> v]
      BY <1>1
    <3> QED BY <3>1
  <2>4. Turns(L)' <=> \E j \in Of(i) : IsPrevious(j, L)' /\ trace'[j].value # trace'[L].value
    BY <1>4
  <2> QED BY <2>1, <2>2, <2>3, <2>4
<1>6. /\ Toggles(n) = {k \in Inside(n) : Turns(k)}
      /\ Toggles(n)' = {k \in Inside(n)' : Turns(k)'}
  BY DEF Toggles
<1>7. /\ Inside(n)' = Inside(n) \cup (IF name[i] = n /\ Spans(time) THEN {L} ELSE {})
      /\ Inside(n) \subseteq DOMAIN trace
  BY <1>0, SetsGrow
<1>8. L \notin DOMAIN trace
  BY <1>0, <1>1
<1>9. IsFiniteSet(Toggles(n))
  <2>1. IsFiniteSet(DOMAIN trace)
    BY <1>1, FS_Interval
  <2>2. Toggles(n) \subseteq DOMAIN trace
    BY <1>6, <1>7
  <2> QED BY <2>1, <2>2, FS_Subset
<1>10. Toggles(n)' = Toggles(n) \cup
          (IF /\ name[i] = n /\ Spans(time)
              /\ \E k \in Of(i) : Latest(k, Of(i)) /\ trace[k].value # v
           THEN {L} ELSE {})
  <2>1. Turns(L)' <=> \E k \in Of(i) : Latest(k, Of(i)) /\ trace[k].value # v
    BY <1>5
  <2>2. \A k \in Inside(n) : Turns(k)' <=> Turns(k)
    BY <1>3, <1>7
  <2> HIDE DEF Turns
  <2> QED BY <1>6, <1>7, <1>8, <2>1, <2>2
<1> QED BY <1>0, <1>6, <1>7, <1>8, <1>9, <1>10

(***************************************************************************)
(* Held values.                                                            *)
(***************************************************************************)
LEMMA HeldStays ==
    ASSUME TypeOK, NEW i \in Ids, NEW v \in Values, Grows(i, v),
           NEW S \in SUBSET DOMAIN trace, NEW w, Held(w, S, trace)
    PROVE  Held(w, S, trace')
<1>1. \A k \in S : trace'[k] = trace[k]
  BY Grown
<1> QED BY <1>1 DEF Held

LEMMA HeldNew ==
    ASSUME TypeOK, NEW i \in Ids, NEW v \in Values, Grows(i, v),
           NEW S \in SUBSET DOMAIN trace
    PROVE  Held(v, S \cup {Len(trace) + 1}, trace')
<1>0. PICK L \in Nat : L = Len(trace) + 1
  BY DEF TypeOK
<1>1. \A j \in S : j <= L
  <2>1. DOMAIN trace = 1..Len(trace) /\ Len(trace) \in Nat
    BY Grown
  <2> QED BY <1>0, <2>1
<1>2. trace'[L].value = v
  <2>1. trace'[L] = [time |-> time, id |-> i, value |-> v]
    BY <1>0, Grown
  <2> QED BY <2>1
<1>3. Latest(L, S \cup {L})
  BY <1>1 DEF Latest
<1> QED BY <1>0, <1>2, <1>3 DEF Held

\* No value is held of no change, and of no other.
LEMMA HeldNone ==
    ASSUME TypeOK, NEW S \in SUBSET DOMAIN trace, NEW w, Held(w, S, trace)
    PROVE  w = None <=> S = {}
<1>1. \A k \in S : trace[k].value # None
  <2> TAKE k \in S
  <2>1. trace[k] \in Changed
    BY DEF TypeOK
  <2> QED BY <2>1, NamesAssumption DEF Changed
<1> QED BY <1>1 DEF Held

LEMMA HeldIsLast ==
    ASSUME TypeOK, NEW S \in SUBSET DOMAIN trace, NEW w, Held(w, S, trace)
    PROVE  w = LastValueOf(S)
<1>1. CASE S = {}
  BY <1>1, HeldNone DEF LastValueOf
<1>2. CASE S # {}
  <2>1. PICK l \in S : Latest(l, S) /\ w = trace[l].value
    BY <1>2 DEF Held
  <2>2. \A k \in S : k \in Nat
    BY DEF TypeOK
  <2>3. \A k \in S : (\A j \in S : j <= k) => k = l
    BY <2>1, <2>2 DEF Latest
  <2> DEFINE Last == CHOOSE k \in S : \A j \in S : j <= k
  <2>4. Last = l
    BY <2>1, <2>3 DEF Latest
  <2>5. LastValueOf(S) = trace[Last].value
    BY <1>2 DEF LastValueOf
  <2> QED BY <2>1, <2>4, <2>5
<1> QED BY <1>1, <1>2

\* Before its first change in the window, a name with no value before the window has
\* identifiers with no value at all.
LEMMA NotSeen ==
    ASSUME IInv, NEW i \in Ids, NEW n \in Names, name[i] = n, ~AfterWindow(time),
           pre_window[n] = None, start_values[n] = Missing
    PROVE  running[i] = None
<1>0. TypeOK /\ name[i] # None
  BY NamesAssumption DEF IInv
<1>1. Ahead(n) = {} /\ Inside(n) = {}
  <2>1. Ahead(n) \in SUBSET DOMAIN trace /\ Inside(n) \in SUBSET DOMAIN trace
    BY DEF Ahead, Inside, Changes
  <2>2. end_values[n] = None
    BY DEF IInv, TypeOK
  <2> QED BY <1>0, <2>1, <2>2, HeldNone DEF IInv, EdgesHeld
<1>2. Of(i) = {}
  <2> SUFFICES ASSUME NEW k \in Of(i) PROVE FALSE
    OBVIOUS
  <2>1. k \in Changes(n)
    BY DEF Of, Changes
  <2>2. trace[k].time \in Nat /\ time \in Nat
    <3>1. trace[k] \in Changed
      BY <1>0 DEF Of, TypeOK
    <3> QED BY <1>0, <3>1 DEF Changed, TypeOK
  <2>3. ~AfterWindow(trace[k].time)
    <3>1. trace[k].time <= time
      BY DEF Of, IInv, TimesPassed
    <3> QED BY <1>0, <2>2, <3>1, AfterStays
  <2>4. BeforeWindow(trace[k].time) \/ Spans(trace[k].time)
    BY <1>0, <2>2, <2>3, WindowSides DEF InWindow
  <2>5. (window.lo # None /\ trace[k].time < window.lo) \/ Spans(trace[k].time)
    BY <1>0, <2>2, <2>4, WindowSides
  <2>6. k \in Ahead(n) \/ k \in Inside(n)
    BY <2>1, <2>5 DEF Ahead, Inside
  <2> QED BY <1>1, <2>6
<1>3. Held(running[i], Of(i), trace)
  BY <1>0 DEF IInv, RunningHeld
<1>4. Of(i) \in SUBSET DOMAIN trace
  BY DEF Of
<1> QED BY <1>0, <1>2, <1>3, <1>4, HeldNone

(***************************************************************************)
(* The steps.                                                              *)
(***************************************************************************)
LEMMA InitInv == Init => IInv
<1> SUFFICES ASSUME Init PROVE IInv
  OBVIOUS
<1>1. TypeOK
  BY NamesAssumption DEF Init, TypeOK
<1>2. \A n \in Names : Inside(n) = {} /\ Ahead(n) = {} /\ Toggles(n) = {}
  BY DEF Init, Inside, Ahead, Changes, Toggles
<1>3. \A i \in Ids : Of(i) = {}
  BY DEF Init, Of
<1>4. TogglesExact
  BY <1>2, FS_EmptySet DEF Init, TogglesExact
<1>5. RunningHeld /\ EdgesHeld
  BY <1>2, <1>3 DEF Init, RunningHeld, EdgesHeld, Held
<1>6. TimesPassed
  BY DEF Init, TimesPassed
<1> QED BY <1>1, <1>4, <1>5, <1>6 DEF IInv

\* A timestamp, or nothing at all.
LEMMA TimeStep ==
    ASSUME IInv, time' = time \/ (time' \in Nat /\ time <= time'),
           UNCHANGED <<window, name, summary, trace>>
    PROVE  IInv'
<1>1. TypeOK /\ UNCHANGED <<window, name, trace, running, pre_window, start_values,
                            end_values, toggles>>
  BY DEF summary, IInv
<1>2. time \in Nat /\ time' \in Nat /\ time <= time'
  BY <1>1 DEF TypeOK
<1>3. TypeOK'
  BY <1>1, <1>2 DEF TypeOK
<1>4. TimesPassed'
  <2>0. \A k \in DOMAIN trace : trace[k] \in Changed
    BY <1>1 DEF TypeOK
  <2>1. \A k \in DOMAIN trace : trace[k].time \in Nat
    BY <2>0 DEF Changed
  <2> QED BY <1>1, <1>2, <2>1 DEF IInv, TimesPassed
<1>5. \A n \in Names : /\ Inside(n)' = Inside(n) /\ Ahead(n)' = Ahead(n)
                       /\ Toggles(n)' = Toggles(n)
  BY <1>1 DEF Inside, Ahead, Changes, Spans, Toggles, IsPrevious, Earlier
<1>6. \A i \in Ids : Of(i)' = Of(i)
  BY <1>1 DEF Of
<1>7. AfterWindow(time)' \/ ~AfterWindow(time)
  <2>1. AfterWindow(time) => AfterWindow(time')
    BY <1>1, <1>2, AfterStays
  <2> QED BY <1>1, <2>1 DEF AfterWindow
<1>8. RunningHeld'
  BY <1>1, <1>6, <1>7 DEF IInv, RunningHeld, Held
<1>9. TogglesExact' /\ EdgesHeld'
  BY <1>1, <1>5 DEF IInv, TogglesExact, EdgesHeld, Held
<1> QED BY <1>3, <1>4, <1>8, <1>9 DEF IInv

\* What every case of Change shares.
LEMMA ChangeTypes ==
    ASSUME IInv, NEW i \in Ids, NEW v \in Values, Change(i, v)
    PROVE  /\ TypeOK /\ TypeOK' /\ Grows(i, v) /\ time' = time /\ TimesPassed'
           /\ name[i] # None => name[i] \in Names
<1>1. TypeOK /\ Grows(i, v) /\ time' = time
  BY DEF IInv, Change, Grows
<1>2. name[i] # None => name[i] \in Names
  BY <1>1, NamesAssumption DEF TypeOK
<1>3. trace' \in Seq(Changed)
  BY <1>1, Grown
<1>4. window' = window /\ name' = name
  BY DEF Change
<1>5. TypeOK'
  <2>1. CASE Undeclared(i) \/ Late(i)
    BY <1>1, <1>3, <1>4, <2>1 DEF TypeOK, Undeclared, Late, summary
  <2>2. CASE Early(i, v)
    BY <1>1, <1>2, <1>3, <1>4, <2>2 DEF TypeOK, Early
  <2>3. CASE Within(i, v)
    <3>1. StartValue(name[i], i) \in Values \cup {None}
      BY <1>1, <1>2, <2>3, NamesAssumption DEF TypeOK, StartValue, Within
    <3>2. /\ running' \in [Ids -> Values \cup {None}]
          /\ pre_window' \in [Names -> Values \cup {None}]
          /\ start_values' \in [Names -> Values \cup {None, Missing}]
          /\ end_values' \in [Names -> Values \cup {None}]
      BY <1>1, <2>3, <3>1 DEF TypeOK, Within
    <3>3. toggles' \in [Names -> Nat]
      <4>1. toggles \in [Names -> Nat] /\ name[i] \in Names
        BY <1>1, <1>2, <2>3 DEF TypeOK, Within
      <4>2. \/ toggles' = [toggles EXCEPT ![name[i]] = @ + 1]
            \/ toggles' = toggles
        BY <2>3, <4>1 DEF Within
      <4> QED BY <4>1, <4>2
    <3>4. \A n \in Names : start_values'[n] = Missing <=> end_values'[n] = None
      BY <1>1, <1>2, <2>3, <3>1, NamesAssumption DEF TypeOK, Within
    <3> QED BY <1>1, <1>3, <1>4, <3>2, <3>3, <3>4 DEF TypeOK
  <2> QED BY <2>1, <2>2, <2>3 DEF Change
<1>6. TimesPassed'
  <2>0. PICK L \in Nat : L = Len(trace) + 1
    BY <1>1 DEF TypeOK
  <2>1. /\ DOMAIN trace = 1..Len(trace) /\ DOMAIN trace' = 1..(Len(trace) + 1)
        /\ Len(trace) \in Nat
    BY <1>1, Grown
  <2>2. DOMAIN trace' = DOMAIN trace \cup {L} /\ \A k \in DOMAIN trace : k \in Nat /\ k < L
    BY <2>0, <2>1
  <2>3. /\ \A k \in DOMAIN trace : trace'[k] = trace[k]
        /\ trace'[L] = [time |-> time, id |-> i, value |-> v]
    BY <1>1, <2>0, Grown
  <2>4. trace'[L].time = time /\ \A k \in DOMAIN trace : trace'[k].time = trace[k].time
    BY <2>3
  <2>5. time \in Nat
    BY <1>1 DEF TypeOK
  <2>6. /\ \A k \in DOMAIN trace : trace[k].time <= time
        /\ \A j, k \in DOMAIN trace : j <= k => trace[j].time <= trace[k].time
    BY DEF IInv, TimesPassed
  <2>7. \A k \in DOMAIN trace' : trace'[k].time <= time
    BY <2>2, <2>4, <2>5, <2>6
  <2>8. \A j, k \in DOMAIN trace' : j <= k => trace'[j].time <= trace'[k].time
    BY <2>2, <2>4, <2>5, <2>6
  <2> QED BY <1>1, <2>7, <2>8 DEF TimesPassed
<1> QED BY <1>1, <1>2, <1>5, <1>6

\* Which case a change takes, and what it leaves alone.
LEMMA Cases ==
    ASSUME IInv, NEW i \in Ids, NEW v \in Values, Change(i, v)
    PROVE  /\ name[i] = None => UNCHANGED summary
           /\ (name[i] # None /\ BeforeWindow(time)) => Early(i, v)
           /\ (name[i] # None /\ AfterWindow(time)) => UNCHANGED summary
           /\ (name[i] # None /\ Spans(time)) => Within(i, v)
           /\ name[i] = None \/ BeforeWindow(time) \/ AfterWindow(time) \/ Spans(time)
<1>1. TypeOK /\ time \in Nat
  BY DEF IInv, TypeOK
<1>2. /\ InWindow(time) <=> Spans(time)
      /\ ~(BeforeWindow(time) /\ Spans(time)) /\ ~(AfterWindow(time) /\ Spans(time))
      /\ ~(BeforeWindow(time) /\ AfterWindow(time))
  BY <1>1, WindowSides
<1>3. Undeclared(i) \/ Early(i, v) \/ Late(i) \/ Within(i, v)
  BY DEF Change
<1>4. /\ Undeclared(i) => (name[i] = None /\ UNCHANGED summary)
      /\ Early(i, v) => (name[i] # None /\ BeforeWindow(time))
      /\ Late(i) => (name[i] # None /\ AfterWindow(time) /\ UNCHANGED summary)
      /\ Within(i, v) => (name[i] # None /\ InWindow(time))
  BY DEF Undeclared, Early, Late, Within
<1>5. InWindow(time) \/ BeforeWindow(time) \/ AfterWindow(time)
  BY DEF InWindow
<1> QED BY <1>2, <1>3, <1>4, <1>5

LEMMA RunningStep ==
    ASSUME IInv, NEW i \in Ids, NEW v \in Values, Change(i, v)
    PROVE  RunningHeld'
<1>1. TypeOK /\ Grows(i, v) /\ time' = time /\ window' = window /\ name' = name
  BY ChangeTypes DEF Grows
<1>2. AfterWindow(time)' <=> AfterWindow(time)
  BY <1>1 DEF AfterWindow
<1> SUFFICES ASSUME ~AfterWindow(time), NEW j \in Ids, name[j] # None
             PROVE  Held(running[j], Of(j), trace)'
  BY <1>1, <1>2 DEF RunningHeld
<1>3. Held(running[j], Of(j), trace)
  BY DEF IInv, RunningHeld
<1>4. Of(j) \in SUBSET DOMAIN trace
  BY DEF Of
<1>5. CASE j # i
  <2>1. Of(j)' = Of(j)
    <3>1. Of(j)' = Of(j) \cup (IF j = i THEN {Len(trace) + 1} ELSE {})
      BY <1>1, OfGrows
    <3> QED BY <1>5, <3>1
  <2>2. running'[j] = running[j]
    <3>1. running \in [Ids -> Values \cup {None}]
      BY <1>1 DEF TypeOK
    <3>2. CASE Early(i, v)
      BY <1>5, <3>1, <3>2 DEF Early
    <3>3. CASE Within(i, v)
      BY <1>5, <3>1, <3>3 DEF Within
    <3> QED BY <3>2, <3>3, Cases DEF summary
  <2>3. Held(running[j], Of(j), trace')
    BY <1>1, <1>3, <1>4, HeldStays
  <2> QED BY <2>1, <2>2, <2>3 DEF Held
<1>6. CASE j = i
  <2>1. Of(i)' = Of(i) \cup {Len(trace) + 1}
    BY <1>1, OfGrows
  <2>2. Early(i, v) \/ Within(i, v)
    BY <1>6, Cases
  <2>3. running'[i] = v
    <3>1. running \in [Ids -> Values \cup {None}]
      BY <1>1 DEF TypeOK
    <3> QED BY <2>2, <3>1 DEF Early, Within
  <2>4. Held(v, Of(i) \cup {Len(trace) + 1}, trace')
    BY <1>1, <1>4, <1>6, HeldNew
  <2> QED BY <1>6, <2>1, <2>3, <2>4 DEF Held
<1> QED BY <1>5, <1>6

LEMMA TogglesStep ==
    ASSUME IInv, NEW i \in Ids, NEW v \in Values, Change(i, v)
    PROVE  TogglesExact'
<1>1. TypeOK /\ Grows(i, v)
  BY ChangeTypes
<1> SUFFICES ASSUME NEW n \in Names
             PROVE  toggles'[n] = Cardinality(Toggles(n)')
  BY DEF TogglesExact
<1>2. toggles[n] = Cardinality(Toggles(n)) /\ n # None /\ toggles \in [Names -> Nat]
  BY <1>1, NamesAssumption DEF IInv, TogglesExact, TypeOK
<1> DEFINE Other == \E k \in Of(i) : Latest(k, Of(i)) /\ trace[k].value # v
<1>3. /\ Toggles(n)' = Toggles(n) \cup
             (IF name[i] = n /\ Spans(time) /\ Other THEN {Len(trace) + 1} ELSE {})
      /\ IsFiniteSet(Toggles(n)) /\ Len(trace) + 1 \notin Toggles(n)
  BY <1>1, TogglesGrow
<1> HIDE DEF Other
<1>4. CASE name[i] = n /\ Spans(time)
  <2>1. Within(i, v)
    BY <1>2, <1>4, Cases
  <2>2. toggles' = [toggles EXCEPT ![n] =
                       IF running[i] # None /\ running[i] # v THEN @ + 1 ELSE @]
    BY <1>4, <2>1 DEF Within
  <2>3. Held(running[i], Of(i), trace)
    <3>1. ~AfterWindow(time)
      BY <1>1, <1>4, WindowSides DEF TypeOK
    <3> QED BY <1>2, <1>4, <3>1 DEF IInv, RunningHeld
  <2>4. (running[i] # None /\ running[i] # v) <=> Other
    <3>1. Of(i) \in SUBSET DOMAIN trace /\ \A k \in Of(i) : k \in Nat
      BY <1>1 DEF Of, TypeOK
    <3>2. running[i] = None <=> Of(i) = {}
      BY <1>1, <2>3, <3>1, HeldNone
    <3>3. CASE Of(i) = {}
      BY <3>2, <3>3 DEF Other
    <3>4. CASE Of(i) # {}
      <4>1. PICK l \in Of(i) : Latest(l, Of(i)) /\ running[i] = trace[l].value
        BY <2>3, <3>4 DEF Held
      <4>2. \A k \in Of(i) : Latest(k, Of(i)) => k = l
        BY <3>1, <4>1 DEF Latest
      <4> QED BY <3>2, <3>4, <4>1, <4>2 DEF Other
    <3> QED BY <3>3, <3>4
  <2>5. CASE Other
    <3>1. toggles'[n] = toggles[n] + 1
      BY <1>2, <2>2, <2>4, <2>5
    <3>2. Cardinality(Toggles(n)') = Cardinality(Toggles(n)) + 1
      BY <1>3, <1>4, <2>5, FS_AddElement
    <3> QED BY <1>2, <3>1, <3>2
  <2>6. CASE ~Other
    <3>1. toggles'[n] = toggles[n]
      BY <1>2, <2>2, <2>4, <2>6
    <3> QED BY <1>2, <1>3, <2>6, <3>1
  <2> QED BY <2>5, <2>6
<1>5. CASE ~(name[i] = n /\ Spans(time))
  <2>1. toggles'[n] = toggles[n]
    <3>1. CASE name[i] = None
      BY <3>1, Cases DEF summary
    <3>2. CASE name[i] # None /\ BeforeWindow(time)
      BY <3>2, Cases DEF Early
    <3>3. CASE name[i] # None /\ AfterWindow(time)
      BY <3>3, Cases DEF summary
    <3>4. CASE name[i] # None /\ Spans(time)
      <4>1. name[i] # n
        BY <1>5, <3>4
      <4> QED BY <1>2, <3>4, <4>1, Cases DEF Within
    <3> QED BY <3>1, <3>2, <3>3, <3>4, Cases
  <2> QED BY <1>2, <1>3, <1>5, <2>1
<1> QED BY <1>4, <1>5

LEMMA EdgesStep ==
    ASSUME IInv, NEW i \in Ids, NEW v \in Values, Change(i, v)
    PROVE  EdgesHeld'
<1>1. TypeOK /\ Grows(i, v) /\ time \in Nat
  BY ChangeTypes DEF TypeOK
<1> SUFFICES ASSUME NEW n \in Names
             PROVE  /\ Held(pre_window'[n], Ahead(n)', trace')
                    /\ Held(end_values'[n], Inside(n)', trace')
                    /\ start_values'[n] # Missing => Held(start_values'[n], Ahead(n)', trace')
  BY DEF EdgesHeld, Held
<1>2. /\ Inside(n)' = Inside(n) \cup
             (IF name[i] = n /\ Spans(time) THEN {Len(trace) + 1} ELSE {})
      /\ Ahead(n)' = Ahead(n) \cup
             (IF name[i] = n /\ BeforeWindow(time) THEN {Len(trace) + 1} ELSE {})
      /\ Inside(n) \in SUBSET DOMAIN trace /\ Ahead(n) \in SUBSET DOMAIN trace
  BY <1>1, SetsGrow
<1>3. /\ Held(pre_window[n], Ahead(n), trace) /\ Held(end_values[n], Inside(n), trace)
      /\ start_values[n] # Missing => Held(start_values[n], Ahead(n), trace)
  BY DEF IInv, EdgesHeld
<1>4. /\ Held(pre_window[n], Ahead(n), trace') /\ Held(end_values[n], Inside(n), trace')
      /\ start_values[n] # Missing => Held(start_values[n], Ahead(n), trace')
  BY <1>1, <1>2, <1>3, HeldStays
<1>5. /\ n # None
      /\ pre_window \in [Names -> Values \cup {None}]
      /\ start_values \in [Names -> Values \cup {None, Missing}]
      /\ end_values \in [Names -> Values \cup {None}]
      /\ start_values[n] = Missing <=> end_values[n] = None
  BY <1>1, NamesAssumption DEF TypeOK
<1>6. ~(BeforeWindow(time) /\ Spans(time)) /\ ~(AfterWindow(time) /\ Spans(time))
      /\ ~(BeforeWindow(time) /\ AfterWindow(time))
  BY <1>1, WindowSides
<1>7. CASE name[i] # n \/ AfterWindow(time)
  <2>1. Inside(n)' = Inside(n) /\ Ahead(n)' = Ahead(n)
    BY <1>2, <1>6, <1>7
  <2>2. /\ pre_window'[n] = pre_window[n] /\ end_values'[n] = end_values[n]
        /\ start_values'[n] = start_values[n]
    <3>1. CASE name[i] = None \/ AfterWindow(time)
      BY <3>1, Cases DEF summary
    <3>2. CASE name[i] # n /\ Early(i, v)
      BY <1>5, <3>2 DEF Early
    <3>3. CASE name[i] # n /\ Within(i, v)
      BY <1>5, <3>3 DEF Within
    <3> QED BY <1>7, <3>1, <3>2, <3>3, Cases
  <2> QED BY <1>4, <2>1, <2>2
<1>8. CASE name[i] = n /\ BeforeWindow(time)
  <2>1. Inside(n)' = Inside(n) /\ Ahead(n)' = Ahead(n) \cup {Len(trace) + 1}
    BY <1>2, <1>6, <1>8
  <2>2. /\ pre_window'[n] = v /\ end_values'[n] = end_values[n]
        /\ start_values'[n] = start_values[n]
    BY <1>5, <1>8, Cases DEF Early
  <2>3. Held(v, Ahead(n) \cup {Len(trace) + 1}, trace')
    BY <1>1, <1>2, HeldNew
  <2>4. Inside(n) = {}
    <3> SUFFICES ASSUME NEW k \in Inside(n) PROVE FALSE
      OBVIOUS
    <3>1. k \in DOMAIN trace /\ Spans(trace[k].time)
      BY DEF Inside, Changes
    <3>2. trace[k].time \in Nat /\ trace[k].time <= time
      <4>1. trace[k] \in Changed
        BY <1>1, <3>1 DEF TypeOK
      <4> QED BY <3>1, <4>1 DEF IInv, TimesPassed, Changed
    <3>3. window.lo # None /\ time < window.lo
      BY <1>8 DEF BeforeWindow
    <3>4. window.lo \in Nat
      BY <1>1, <3>3, WindowsAssumption DEF TypeOK
    <3>5. window.lo <= trace[k].time
      BY <3>1, <3>3 DEF Spans
    <3> QED BY <1>1, <3>2, <3>3, <3>4, <3>5
  <2>5. start_values[n] = Missing
    BY <1>1, <1>2, <1>3, <1>5, <2>4, HeldNone
  <2> QED BY <1>4, <2>1, <2>2, <2>3, <2>5
<1>9. CASE name[i] = n /\ Spans(time)
  <2>1. Inside(n)' = Inside(n) \cup {Len(trace) + 1} /\ Ahead(n)' = Ahead(n)
    BY <1>2, <1>6, <1>9
  <2>2. Within(i, v)
    BY <1>5, <1>9, Cases
  <2>3. /\ pre_window'[n] = pre_window[n] /\ end_values'[n] = v
        /\ start_values'[n] = StartValue(n, i)
    BY <1>5, <1>9, <2>2 DEF Within
  <2>4. Held(v, Inside(n) \cup {Len(trace) + 1}, trace')
    BY <1>1, <1>2, HeldNew
  <2>5. Held(StartValue(n, i), Ahead(n), trace')
    <3>1. CASE start_values[n] # Missing
      BY <1>4, <3>1 DEF StartValue
    <3>2. CASE start_values[n] = Missing /\ pre_window[n] # None
      BY <1>4, <3>2 DEF StartValue
    <3>3. CASE start_values[n] = Missing /\ pre_window[n] = None
      <4>1. running[i] = None
        BY <1>6, <1>9, <3>3, NotSeen
      <4>2. StartValue(n, i) = pre_window[n]
        BY <3>3, <4>1 DEF StartValue
      <4> QED BY <1>4, <4>2
    <3> QED BY <3>1, <3>2, <3>3
  <2> QED BY <1>4, <2>1, <2>3, <2>4, <2>5
<1>10. name[i] # n \/ AfterWindow(time) \/ BeforeWindow(time) \/ Spans(time)
  BY <1>5, Cases
<1> QED BY <1>7, <1>8, <1>9, <1>10

(***************************************************************************)
(* The theorems.                                                           *)
(***************************************************************************)
\* The parser's inductive invariant: its running values are the last changes of their
\* identifiers until the window is over, and its counts and edge values are the reference's.
THEOREM Inductive == Spec => []IInv
<1>1. Init => IInv
  BY InitInv
<1>2. IInv /\ [Next]_vars => IInv'
  <2> SUFFICES ASSUME IInv, [Next]_vars PROVE IInv'
    OBVIOUS
  <2>1. CASE Timestamp
    <3>1. PICK t \in (time + 1)..MaxTime : time' = t
      BY <2>1 DEF Timestamp
    <3>2. time \in Nat
      BY DEF IInv, TypeOK
    <3>3. time' \in Nat /\ time <= time'
      BY <3>1, <3>2
    <3> QED BY <2>1, <3>3, TimeStep DEF Timestamp
  <2>2. ASSUME NEW i \in Ids, NEW v \in Values, Change(i, v) PROVE IInv'
    <3>1. TypeOK' /\ TimesPassed'
      BY <2>2, ChangeTypes
    <3> QED BY <2>2, <3>1, RunningStep, TogglesStep, EdgesStep DEF IInv
  <2>3. CASE UNCHANGED vars
    BY <2>3, TimeStep DEF vars
  <2> QED BY <2>1, <2>2, <2>3 DEF Next
<1> QED BY <1>1, <1>2, PTL DEF Spec

\* The parser's tables hold values of the dump, and a name has a start value exactly from its
\* first change in the window on (apply_value).
THEOREM TypeCorrect == Spec => []TypeOK
<1>1. IInv => TypeOK
  BY DEF IInv
<1> QED BY <1>1, Inductive, PTL

\* The toggle counts of apply_value are those of the whole trace, whatever the window and
\* however long the trace.
THEOREM TogglesRight == Spec => []TogglesExact
<1>1. IInv => TogglesExact
  BY DEF IInv
<1> QED BY <1>1, Inductive, PTL

\* A change before the window is before every change in it.
LEMMA AheadIsEarlier ==
    ASSUME IInv, NEW n \in Names, NEW j \in Ahead(n), NEW k \in Inside(n)
    PROVE  j <= k
<1>1. j \in DOMAIN trace /\ k \in DOMAIN trace /\ TypeOK
  BY DEF Ahead, Inside, Changes, IInv
<1>2. j \in Nat /\ k \in Nat /\ trace[j] \in Changed /\ trace[k] \in Changed
  BY <1>1 DEF TypeOK
<1>3. trace[j].time \in Nat /\ trace[k].time \in Nat
  BY <1>2 DEF Changed
<1>4. window.lo # None /\ trace[j].time < window.lo /\ window.lo <= trace[k].time
  BY DEF Ahead, Inside, Spans
<1>5. window.lo \in Nat
  BY <1>1, <1>4, WindowsAssumption DEF TypeOK
<1>6. k <= j => trace[k].time <= trace[j].time
  BY <1>1 DEF IInv, TimesPassed
<1> QED BY <1>2, <1>3, <1>4, <1>5, <1>6

\* The edge values the parser answers with are those of the whole trace: at the start the
\* last value before the window, at the end the last value in it.
THEOREM EdgesRight == Spec => []EdgesExact
<1>1. ASSUME IInv, NEW n \in Names
      PROVE  /\ value_at_start(n) = IF Inside(n) = {} THEN None ELSE LastValueOf(Ahead(n))
             /\ value_at_end(n) = LastValueOf(Inside(n))
             /\ last_value(n) = LastValueOf(Inside(n) \cup Ahead(n))
  <2>1. /\ TypeOK /\ Held(pre_window[n], Ahead(n), trace)
        /\ Held(end_values[n], Inside(n), trace)
        /\ start_values[n] # Missing => Held(start_values[n], Ahead(n), trace)
        /\ start_values[n] = Missing <=> end_values[n] = None
    BY <1>1 DEF IInv, EdgesHeld, TypeOK
  <2>2. Inside(n) \in SUBSET DOMAIN trace /\ Ahead(n) \in SUBSET DOMAIN trace
    BY DEF Inside, Ahead, Changes
  <2>3. end_values[n] = None <=> Inside(n) = {}
    BY <2>1, <2>2, HeldNone
  <2>4. value_at_start(n) = IF Inside(n) = {} THEN None ELSE LastValueOf(Ahead(n))
    BY <2>1, <2>2, <2>3, HeldIsLast DEF value_at_start
  <2>5. value_at_end(n) = LastValueOf(Inside(n))
    BY <2>1, <2>2, HeldIsLast DEF value_at_end
  <2>6. CASE Inside(n) = {}
    <3>1. Inside(n) \cup Ahead(n) = Ahead(n)
      BY <2>6
    <3>2. last_value(n) = pre_window[n]
      BY <2>3, <2>6 DEF last_value
    <3> QED BY <2>1, <2>2, <2>4, <2>5, <3>1, <3>2, HeldIsLast
  <2>7. CASE Inside(n) # {}
    <3>1. PICK k \in Inside(n) : Latest(k, Inside(n)) /\ end_values[n] = trace[k].value
      BY <2>1, <2>7 DEF Held
    <3>2. \A j \in Ahead(n) : j <= k
      BY <1>1, AheadIsEarlier
    <3>3. Latest(k, Inside(n) \cup Ahead(n))
      BY <3>1, <3>2 DEF Latest
    <3>4. Held(end_values[n], Inside(n) \cup Ahead(n), trace)
      BY <3>1, <3>3 DEF Held
    <3>5. end_values[n] = LastValueOf(Inside(n) \cup Ahead(n))
      BY <2>1, <2>2, <3>4, HeldIsLast
    <3> QED BY <2>3, <2>4, <2>5, <2>7, <3>5 DEF last_value
  <2> QED BY <2>6, <2>7
<1>2. IInv => EdgesExact
  BY <1>1 DEF EdgesExact
<1> QED BY <1>2, Inductive, PTL
=============================================================================
