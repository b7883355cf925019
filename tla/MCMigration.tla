----------------------------- MODULE MCMigration -----------------------------
(***************************************************************************)
(* A small instance of Migration: two runners, three versions.             *)
(***************************************************************************)
EXTENDS Migration

CONSTANTS p1, p2
=============================================================================
