---------------------------- MODULE MCMigrations ----------------------------
(* Migrations over the repository's own schema history and models, for TLC. *)
EXTENDS Migrations, Models
=============================================================================
