--------------------------------- MODULE Pages ---------------------------------
(* Sorted lists and their pages, for what the service orders by a unique key:   *)
(* entries are numbered in that order.                                          *)
EXTENDS Integers, FiniteSets, Sequences, FiniteSetsExt

\* The entries of L before e.
Earlier(L, e) == Cardinality({x \in L : x < e})

\* ORDER BY.
Sorted(L) == [i \in 1..Cardinality(L) |-> CHOOSE e \in L : Earlier(L, e) = i - 1]

\* LIMIT size OFFSET from.
PageOf(L, from, size) == LET rows == Sorted(L)
                         IN  SubSeq(rows, from + 1, Min({from + size, Len(rows)}))
================================================================================
