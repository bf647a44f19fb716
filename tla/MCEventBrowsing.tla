---------------------------- MODULE MCEventBrowsing ----------------------------
(* A small instance of EventBrowsing for TLC. *)
EXTENDS EventBrowsing

CONSTANTS opera, rock

AllUpcoming == [names |-> {opera, rock}, among |-> Events, upcoming |-> TRUE]
LateOpera == [names |-> {opera}, among |-> Events \ {1}, upcoming |-> FALSE]
TwoFilters == {AllUpcoming, LateOpera}
================================================================================
