---------------------------- MODULE MCDesktopSync ----------------------------
(***************************************************************************)
(* Small instances of SyncTransfers and SyncNetwork in one run: `part` says *)
(* which of them an execution is about, the other rests.                    *)
(*                                                                          *)
(*   "alone"   one call at a time, saves succeed and the daemon stays up    *)
(*   "locks"   two daemons that push to and pull from each other            *)
(*                                                                          *)
(* MCVaultBlobs has calls of run_sync that overlap, failing saves, restarts. *)
(***************************************************************************)
EXTENDS SyncTransfers, SyncNetwork, TLC

CONSTANTS here, p1, p2, r1, d1, d2, c1, c2

VARIABLE part

Homes == [c \in Callers |-> IF c = c1 THEN d1 ELSE d2]
Targets == [d \in Daemons |-> IF d = d1 THEN d2 ELSE d1]

syncVars == <<part, disturbed, vars, netVars>>

SyncInit ==
    /\ part \in {"alone", "locks"}
    /\ Init /\ NetInit
    /\ part # "locks" => started = {}
    /\ ~disturbed

AloneNext ==
    /\ part = "alone" /\ UNCHANGED <<part, netVars>>
    /\ Next

LocksNext ==
    /\ part = "locks" /\ UNCHANGED <<part, disturbed, vars>>
    /\ NetNext

SyncNext == AloneNext \/ LocksNext

\* The fairness of SyncTransfers and of SyncNetwork.
SyncSpec ==
    /\ SyncInit /\ [][SyncNext]_syncVars
    /\ \A r \in Runs : WF_vars(Step(r))
    /\ WF_vars(Record)
    /\ \A c \in Callers : WF_netVars(Act(c)) /\ WF_netVars(LockStep(Server(c)))

\* A transfer that runs comes to an end while the daemon runs and saves work.
RunningEnds == \A i \in Ids : part = "alone" /\ IsRunning(i) ~> ~IsRunning(i)
=============================================================================
