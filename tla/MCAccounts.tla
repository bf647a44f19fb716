------------------------------ MODULE MCAccounts -------------------------------
(* Small instances of Accounts for TLC. *)
EXTENDS Accounts, TLC

\* Slots, emails, passwords and ids are interchangeable.
AccountSymmetry == Permutations(Requests) \union Permutations(Emails)
                   \union Permutations(Passwords) \union Permutations(Ids)
================================================================================
