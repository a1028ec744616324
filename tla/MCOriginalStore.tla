-------------------------- MODULE MCOriginalStore --------------------------
(* A small instance of OriginalStore: one desktop peer, one storage phone.  *)
EXTENDS OriginalStore, TLC

CONSTANTS d1, q1

=============================================================================
