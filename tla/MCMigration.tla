---------------------------- MODULE MCMigration ----------------------------
(* A small instance of Migration for TLC: the server and an import, two    *)
(* default people and one default tag.                                     *)
EXTENDS Migration

MCDefaults == [t \in Tables |-> IF t = "people" THEN {1, 2} ELSE {1}]

=============================================================================
