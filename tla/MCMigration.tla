---------------------------- MODULE MCMigration ----------------------------
(* JSONBackend and the migration of its file, for TLC. *)
EXTENDS Migration, TLC

=============================================================================
