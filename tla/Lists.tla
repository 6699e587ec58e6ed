------------------------------- MODULE Lists -------------------------------
(***************************************************************************)
(* What the parsers and the advisor do with lists: comprehensions with a   *)
(* condition, sorted() and slices.  All three say which places of a list   *)
(* the result takes its elements from.                                     *)
(***************************************************************************)
EXTENDS Integers, SequencesExt

\* The elements of s at the given places, in order.
SelectInOrder(s, places) ==
    LET rank(i) == Cardinality({j \in places : j <= i})
    IN  [k \in 1..Cardinality(places) |-> s[CHOOSE i \in places : rank(i) = k]]

\* The elements of s that are in S, in order.
Among(s, S) == SelectInOrder(s, {i \in DOMAIN s : s[i] \in S})

\* Sorted by key[x], what has equal keys staying in order, as sorted() does.
SortedBy(s, key) ==
    LET ahead(i) == {j \in DOMAIN s : \/ key[s[j]] < key[s[i]]
                                      \/ key[s[j]] = key[s[i]] /\ j <= i}
    IN  [k \in DOMAIN s |-> s[CHOOSE i \in DOMAIN s : Cardinality(ahead(i)) = k]]

\* The first n.
Cut(s, n) == SubSeq(s, 1, IF Len(s) < n THEN Len(s) ELSE n)
=============================================================================
