----------------------------- MODULE MCMigrations -----------------------------
(* A small instance of Migrations for TLC. *)
EXTENDS Migrations, TLC

MigrationSymmetry == Permutations(Events) \union Permutations(Bookings)
================================================================================
