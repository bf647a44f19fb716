--------------------------- MODULE MCCustomerHistory ---------------------------
(* A small instance of CustomerHistory for TLC: one event with one seat. *)
EXTENDS CustomerHistory, TLC

CONSTANTS e1, s1

OneSeat == (e1 :> {s1})

HistorySymmetry == Permutations(Customers) \union Permutations(Keys)
================================================================================
