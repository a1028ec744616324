------------------------------- MODULE Custody -------------------------------
(***************************************************************************)
(* What a change of place promises for the bytes of an original: they can   *)
(* be copied to further places, one place at a time can let them go, and    *)
(* the place that is responsible for them (the custodian) always has them,  *)
(* and had them before it became responsible.  QuarantineRepair implements  *)
(* it: the bytes go from the managed file through the quarantine into a     *)
(* vault, and a crash between any two steps leaves them with somebody.      *)
(***************************************************************************)
CONSTANT Place

VARIABLES
    custodian,      \* the place that is responsible for the bytes
    copies          \* the places the bytes can be read from

CustodyInit == copies \in SUBSET Place /\ custodian \in copies

CopyTo(p) == copies' = copies \cup {p} /\ UNCHANGED custodian

HandOver(p) == p \in copies /\ custodian' = p /\ UNCHANGED copies

Release(p) ==
    /\ copies' = copies \ {p}
    /\ custodian' \in copies'

CustodyNext == \E p \in Place : CopyTo(p) \/ HandOver(p) \/ Release(p)

CustodySpec == CustodyInit /\ [][CustodyNext]_<<custodian, copies>>
=============================================================================
