------------------------------- MODULE MCBooking -------------------------------
(* Small instances of Booking for TLC. *)
EXTENDS Booking, TLC

CONSTANTS alice, orga,  \* a customer, and the organizer (who may book, too)
          e1, s1, s2

OneOwner == e1 :> orga
OneMembers == e1 :> {s1, s2}
OneSeat == e1 :> {s1}
StartsAtOne == e1 :> 1

\* Slots, drawn ids and what an event may be called are interchangeable.
SlotSymmetry == Permutations(Requests) \union Permutations(Reservations) \union Permutations(Details)
================================================================================
