-------------------------- MODULE MCDatabaseFiles --------------------------
(* A verb, a consolidation and a verification on one small database.       *)
EXTENDS DatabaseFiles

CONSTANTS v1, cons
=============================================================================
