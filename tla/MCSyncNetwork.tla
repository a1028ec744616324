---------------------------- MODULE MCSyncNetwork ----------------------------
(* Small instances of SyncNetwork: two desktops that transfer to each other.  *)
(* c1 and c3 call the one, c2 the other.                                      *)
EXTENDS SyncNetwork, TLC

CONSTANTS d1, d2, c1, c2, c3

Homes == [c \in Callers |-> IF c = c2 THEN d2 ELSE d1]
Targets == [d \in Daemons |-> IF d = d1 THEN d2 ELSE d1]

=============================================================================
