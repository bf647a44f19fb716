----------------------------- MODULE MCRateLimiter -----------------------------
(* Small instances of RateLimiter for TLC. *)
EXTENDS RateLimiter, TLC

CONSTANTS login, plain, mapped, ip, r1, r2

OneAddress == plain :> ip @@ mapped :> ip
Limits == login :> 2
Windows == login :> 2

\* The slots of the requests are alike.
Slots == Permutations(Requests)
================================================================================
