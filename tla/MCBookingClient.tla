---------------------------- MODULE MCBookingClient ----------------------------
(* Small instances of BookingClient for TLC. *)
EXTENDS BookingClient, TLC

CONSTANTS e1, s1, s2

BothSeats == (e1 :> {s1, s2})
OneSeat == (e1 :> {s1})

\* Reservation ids, page keys and customers are interchangeable.
PageSymmetry == Permutations(Reservations) \union Permutations(PageKeys) \union Permutations(Customers)
================================================================================
