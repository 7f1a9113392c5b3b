------------------------------- MODULE Ordering -------------------------------
(***************************************************************************)
(* Sorting and filtering as the code does it with sorted(), list.sort()    *)
(* and comprehensions.  SortSeq and SelectSeq of the standard modules have *)
(* no definition that a prover could use; these have.  An order is a set   *)
(* of pairs <<x, y>> of which x comes before y.                            *)
(***************************************************************************)
EXTENDS Integers, SequencesExt

OrderOn(S, Precedes(_, _)) == {p \in {<<x, y>> : x, y \in S} : Precedes(p[1], p[2])}

(* A set in a strict total order: the i-th element has i - 1 before it.    *)
Ordered(S, R) ==
    [i \in 1 .. Cardinality(S) |->
        CHOOSE x \in S : Cardinality({y \in S : <<y, x>> \in R}) = i - 1]

Ascending(S) == Ordered(S, OrderOn(S, <))

(* A list whose elements R need not tell apart: sorted() is stable, such   *)
(* elements stay in the order they have.                                   *)
StableOrder(s, R) ==
    OrderOn(DOMAIN s, LAMBDA i, j : \/ <<s[i], s[j]>> \in R
                                    \/ <<s[j], s[i]>> \notin R /\ i < j)

StableSort(s, R) ==
    LET place == Ordered(DOMAIN s, StableOrder(s, R)) IN
    [i \in DOMAIN s |-> s[place[i]]]

(* What a sequence has at these places.                                    *)
SubSequence(s, places) ==
    LET place == Ascending(places) IN
    [i \in 1 .. Cardinality(places) |-> s[place[i]]]
===============================================================================
