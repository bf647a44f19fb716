----------------------------- MODULE MCSeatListing -----------------------------
(* Small instances of SeatListing for TLC: seats are numbered in their order. *)
EXTENDS SeatListing, TLC

CONSTANTS e1

ThreeSeats == 1..3
AllThree == (e1 :> ThreeSeats)
================================================================================
