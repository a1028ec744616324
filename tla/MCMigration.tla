---------------------------- MODULE MCMigration ----------------------------
\* A small instance of Migration: a start that ends while tables are rebuilt.
EXTENDS Migration

CONSTANTS a1, v1, v2
=============================================================================
