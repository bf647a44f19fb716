------------------------------ MODULE MCVenueAdmin -----------------------------
(* Small instances of VenueAdmin for TLC. *)
EXTENDS VenueAdmin, TLC

\* Slots, users, seat labels and event ids are interchangeable.
AdminSymmetry == Permutations(Requests) \union Permutations(Users)
                 \union Permutations(Labels) \union Permutations(EventIds)
================================================================================
