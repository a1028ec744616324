---------------------------- MODULE PhoneStorage ----------------------------
(***************************************************************************)
(* Phones that store the encrypted chunks of one blob: a phone offers its   *)
(* storage, asks what is assigned to it, fetches the chunks, proves that it *)
(* has them and later sends one back.  The same transfer rows are planned,  *)
(* executed, retried and canceled on the laptop, which evicts its own copy  *)
(* when enough phones have one.  Source: native_core/src/service.rs.        *)
(*                                                                          *)
(* A request may come at any time and any number of times, late ones from   *)
(* before a change of the profile included: a phone keeps no state here but *)
(* the chunks it has, and it keeps those.  The blob has no plaintext on the *)
(* laptop, so the laptop's replica is Healthy when all chunk files are      *)
(* there: every reader of the replica rows refreshes that row first.  The   *)
(* phones are members whose role may contribute storage; other desktops are *)
(* the subject of SyncTransfers.                                            *)
(***************************************************************************)
EXTENDS Integers, Sequences, FiniteSets

CONSTANTS
    PhoneCount,     \* paired phones, numbered as they were enrolled
    PhoneChunks,    \* the chunks of the blob
    WantedReplicas, \* storage_policy.min_replicas
    MaxAssignments, \* bound: transfer rows of the blob
    MaxMishaps      \* bound: saves that fail and chunk files that get lost

ASSUME PhoneAssumption ==
    /\ PhoneCount \in Nat \ {0} /\ WantedReplicas \in Nat \ {0}
    /\ IsFiniteSet(PhoneChunks) /\ PhoneChunks # {}
    /\ MaxAssignments \in Nat /\ MaxMishaps \in Nat

VARIABLES
    pool,       \* device, transfer, replica and chunk rows in the LibraryState
    poolDb,     \* the same in the last committed save
    chunkFiles, \* the chunk files on the laptop
    kept,       \* the chunks each phone has stored
    syncing,    \* where the run_sync call is
    mishaps     \* saves that failed and chunk files that were lost

phoneVars == <<pool, poolDb, chunkFiles, kept, syncing, mishaps>>

-----------------------------------------------------------------------------
(* Data. *)

Laptop == 0
Phones == 1 .. PhoneCount
Assignments == 1 .. MaxAssignments
Waiting == {"Pending", "Running"}

Assignment == [from : {Laptop} \cup Phones, to : {Laptop} \cup Phones,
               status : Waiting \cup {"Completed", "Failed", "Aborted"},
               late : BOOLEAN]

\* profile: "paused" accepts storage and is metered, low on battery or full.
\* replica[p]: the transfer that made p's replica Healthy, 0 while it is not.
\* located: the chunk rows have their local_path.
Pools == [profile : [Phones -> {"off", "paused", "on"}], active : SUBSET Phones,
          rows : {s \in Seq(Assignment) : Len(s) <= MaxAssignments},
          replica : [Phones -> 0 .. MaxAssignments], located : BOOLEAN]

Accepts(l, p) == p \in l.active /\ l.profile[p] # "off"

\* encrypted_chunks_available.
LaptopHasAll(l) == l.located /\ chunkFiles = PhoneChunks

HealthyPhones(l) == {p \in l.active : l.replica[p] # 0}

UnderReplicated(l) ==
    Cardinality(HealthyPhones(l)) + (IF LaptopHasAll(l) THEN 1 ELSE 0) < WantedReplicas

\* Assignments of p that may be fetched.  A restart reads the rows in another
\* order, so that a search may find any of them first.
Open(l, p) == {i \in DOMAIN l.rows : /\ l.rows[i].from = Laptop /\ l.rows[i].to = p
                                     /\ l.rows[i].status \in Waiting
                                     /\ ~l.rows[i].late}

NewRow(source, target) ==
    [from |-> source, to |-> target, status |-> "Pending", late |-> FALSE]

SetStatusOf(l, is, status) ==
    [l EXCEPT !.rows = [i \in DOMAIN @ |->
        IF i \in is THEN [@[i] EXCEPT !.status = status] ELSE @[i]]]

\* persist_locked_state writes all of memory, or fails and changes nothing.
Persists(ok) ==
    /\ ok \/ mishaps < MaxMishaps
    /\ poolDb' = IF ok THEN pool' ELSE poolDb
    /\ mishaps' = IF ok THEN mishaps ELSE mishaps + 1

Answers(ok) == Persists(ok) /\ UNCHANGED <<chunkFiles, kept, syncing>>

PhonesInit ==
    /\ pool = [profile |-> [p \in Phones |-> "off"], active |-> Phones, rows |-> <<>>,
               replica |-> [p \in Phones |-> 0], located |-> TRUE]
    /\ poolDb = pool
    /\ chunkFiles = PhoneChunks
    /\ kept = [p \in Phones |-> {}]
    /\ syncing = "idle"
    /\ mishaps = 0

-----------------------------------------------------------------------------
(* The phone's requests.  active_mobile_session_from_state refuses a revoked *)
(* device.                                                                  *)

\* Fault: what the phone had reported still counts.
ProfiledOnly(l, p, profile) == [l EXCEPT !.profile[p] = profile]

\* The replicas of a phone that takes its offer back go Offline.
Profiled(l, p, profile) ==
    [l EXCEPT !.profile[p] = profile,
              !.replica[p] = IF profile = "off" THEN 0 ELSE @]

update_mobile_storage_profile(p, profile) ==
    /\ p \in pool.active
    /\ pool' = Profiled(pool, p, profile)
    /\ \E ok \in BOOLEAN : Answers(ok)

Assignable(l, p) ==
    /\ l.profile[p] = "on"
    /\ l.replica[p] = 0
    /\ UnderReplicated(l)
    /\ LaptopHasAll(l)

\* An open assignment is given out again; without one there is a new one.
mobile_storage_plan(p) ==
    LET adds == Assignable(pool, p) /\ Open(pool, p) = {}
    IN  /\ p \in pool.active
        /\ adds => Len(pool.rows) < MaxAssignments
        /\ pool' = IF adds THEN [pool EXCEPT !.rows = Append(@, NewRow(Laptop, p))]
                   ELSE pool
        /\ \E ok \in BOOLEAN : Answers(ok)

\* The answer with the chunk may be lost.
mobile_replica_chunk_bytes(p, c) ==
    /\ Accepts(pool, p)
    /\ pool.located /\ c \in chunkFiles
    /\ \E i \in Open(pool, p) : pool' = SetStatusOf(pool, {i}, "Running")
    /\ \E ok, received \in BOOLEAN :
          /\ Persists(ok)
          /\ kept' = IF ok /\ received THEN [kept EXCEPT ![p] = @ \cup {c}] ELSE kept
    /\ UNCHANGED <<chunkFiles, syncing>>

\* Every chunk's proof is compared with one made from the laptop's chunk file.
PossessionProven(p) == kept[p] = PhoneChunks /\ LaptopHasAll(pool)

\* mobile_storage_transfer_index with the transfer's id.
Reportable(l, p, i) ==
    \/ i \in Open(l, p)
    \/ /\ i \in DOMAIN l.rows
       /\ l.rows[i].from = Laptop /\ l.rows[i].to = p
       /\ l.rows[i].status = "Completed"

report_mobile_replica(p, i) ==
    /\ Accepts(pool, p)
    /\ PossessionProven(p)
    /\ Reportable(pool, p, i)
    /\ pool' = [SetStatusOf(pool, {i}, "Completed") EXCEPT !.replica[p] = i]
    /\ \E ok \in BOOLEAN : Answers(ok)

\* The chunk is verified by its hash and written where the row says.
restore_mobile_replica_chunk(p, c) ==
    /\ Accepts(pool, p)
    /\ pool.replica[p] # 0
    /\ c \in kept[p]
    /\ pool.located
    /\ chunkFiles' = chunkFiles \cup {c}
    /\ UNCHANGED <<pool, kept, syncing>>
    /\ \E ok \in BOOLEAN : Persists(ok)

-----------------------------------------------------------------------------
(* The laptop. *)

\* choose_replica_target: the first device that lacks a Healthy replica, the
\* laptop before the phones.  The candidates are in the order of enrolment.
Lacking(l) ==
    (IF LaptopHasAll(l) THEN {} ELSE {Laptop}) \cup
    {p \in l.active : l.profile[p] = "on" /\ l.replica[p] = 0}

SyncSources(l) == IF LaptopHasAll(l) THEN {Laptop} ELSE HealthyPhones(l)

\* A waiting transfer to the target counts as planned, late or not.
Underway(l, target) ==
    \E i \in DOMAIN l.rows : l.rows[i].to = target /\ l.rows[i].status \in Waiting

FirstLacking(l, d) == d \in Lacking(l) /\ \A e \in Lacking(l) : d <= e

WantsTransfer(l, d) ==
    UnderReplicated(l) /\ SyncSources(l) # {} /\ FirstLacking(l, d) /\ ~Underway(l, d)

\* run_sync, first section: build_sync_plan, and a save.
SyncPlans ==
    /\ syncing = "idle"
    /\ \/ /\ Len(pool.rows) < MaxAssignments
          /\ \E d \in Lacking(pool), s \in SyncSources(pool) :
                /\ WantsTransfer(pool, d)
                /\ pool' = [pool EXCEPT !.rows = Append(@, NewRow(s, d))]
       \/ /\ \A d \in Lacking(pool) : ~WantsTransfer(pool, d)
          /\ UNCHANGED pool
    /\ \E ok \in BOOLEAN : Persists(ok) /\ syncing' = IF ok THEN "planned" ELSE "idle"
    /\ UNCHANGED <<chunkFiles, kept>>

\* execute_pending_sync_transfers: a phone has no endpoint, so that every
\* pending row from or to the laptop fails, one that waits for its phone too.
Executable(l) == {i \in DOMAIN l.rows : /\ l.rows[i].status = "Pending"
                                        /\ Laptop \in {l.rows[i].from, l.rows[i].to}}

SyncExecutes ==
    /\ syncing = "planned"
    /\ pool' = SetStatusOf(pool, Executable(pool), "Failed")
    /\ \E ok \in BOOLEAN : Persists(ok) /\ syncing' = IF ok THEN "finishing" ELSE "idle"
    /\ UNCHANGED <<chunkFiles, kept>>

\* The audit event and a save.
SyncFinishes ==
    /\ syncing = "finishing"
    /\ syncing' = "idle"
    /\ UNCHANGED <<pool, chunkFiles, kept>>
    /\ \E ok \in BOOLEAN : Persists(ok)

retry_sync_transfer(i) ==
    /\ i \in DOMAIN pool.rows
    /\ pool.rows[i].status \notin {"Completed", "Running"}
    /\ pool' = [pool EXCEPT !.rows[i].status = "Pending", !.rows[i].late = FALSE]
    /\ \E ok \in BOOLEAN : Answers(ok)

cancel_sync_transfer(i) ==
    /\ i \in DOMAIN pool.rows
    /\ pool.rows[i].status # "Completed"
    /\ pool' = SetStatusOf(pool, {i}, "Aborted")
    /\ \E ok \in BOOLEAN : Answers(ok)

\* verified_remote_replica_count.
VerifiedPhones(l) == {p \in HealthyPhones(l) : l.rows[l.replica[p]].status = "Completed"}

\* evict_local_asset: the chunk files go, then the rows are saved.
evict_local_asset ==
    /\ Cardinality(VerifiedPhones(pool)) >= WantedReplicas
    /\ pool' = [pool EXCEPT !.located = FALSE]
    /\ chunkFiles' = IF pool.located THEN {} ELSE chunkFiles
    /\ UNCHANGED <<kept, syncing>>
    /\ \E ok \in BOOLEAN : Persists(ok)

\* revoke_device: the session ends with it.
revoke_device(p) ==
    /\ p \in Phones     \* repeated calls change nothing more
    /\ pool' = [pool EXCEPT !.active = @ \ {p}, !.replica[p] = 0]
    /\ \E ok \in BOOLEAN : Answers(ok)

\* resumable_until passes.  It matters while the row waits.
Lapse(i) ==
    /\ i \in DOMAIN pool.rows /\ pool.rows[i].status \in Waiting
    /\ pool' = [pool EXCEPT !.rows[i].late = TRUE]
    /\ poolDb' = IF i \in DOMAIN poolDb.rows
                 THEN [poolDb EXCEPT !.rows[i].late = TRUE] ELSE poolDb
    /\ UNCHANGED <<chunkFiles, kept, syncing, mishaps>>

LoseChunkFile(c) ==
    /\ c \in chunkFiles
    /\ mishaps < MaxMishaps
    /\ mishaps' = mishaps + 1
    /\ chunkFiles' = chunkFiles \ {c}
    /\ UNCHANGED <<pool, poolDb, kept, syncing>>

\* GalleryService::new loads the rows as they were saved.
RestartLaptop ==
    /\ pool' = poolDb
    /\ syncing' = "idle"
    /\ UNCHANGED <<poolDb, chunkFiles, kept, mishaps>>

-----------------------------------------------------------------------------
PhoneRequest(p) ==
    \/ \E profile \in {"off", "paused", "on"} : update_mobile_storage_profile(p, profile)
    \/ mobile_storage_plan(p)
    \/ \E c \in PhoneChunks : mobile_replica_chunk_bytes(p, c)
    \/ \E i \in Assignments : report_mobile_replica(p, i)
    \/ \E c \in PhoneChunks : restore_mobile_replica_chunk(p, c)

PhonesNext ==
    \/ \E p \in Phones : PhoneRequest(p) \/ revoke_device(p)
    \/ SyncPlans
    \/ SyncExecutes
    \/ SyncFinishes
    \/ \E i \in Assignments : retry_sync_transfer(i) \/ cancel_sync_transfer(i) \/ Lapse(i)
    \/ evict_local_asset
    \/ \E c \in PhoneChunks : LoseChunkFile(c)
    \/ RestartLaptop

PhonesSpec == PhonesInit /\ [][PhonesNext]_phoneVars

-----------------------------------------------------------------------------
(* Properties. *)

\* The rows and files are what the code stores there.
PhonesTypeOK ==
    /\ pool \in Pools /\ poolDb \in Pools
    /\ chunkFiles \subseteq PhoneChunks
    /\ kept \in [Phones -> SUBSET PhoneChunks]
    /\ syncing \in {"idle", "planned", "finishing"}
    /\ mishaps \in 0 .. MaxMishaps

\* A phone's replica is Healthy, in memory or after a restart, only while the
\* phone is a member and offers storage, and only when it has every chunk.
ReportedIsKept ==
    \A l \in {pool, poolDb} : \A p \in Phones : l.replica[p] # 0 =>
        /\ Accepts(l, p)
        /\ kept[p] = PhoneChunks
        /\ l.rows[l.replica[p]].to = p /\ l.rows[l.replica[p]].status = "Completed"

\* Once the laptop has given its chunk files up, the policy's number of phones
\* have the whole blob, whatever they reported or took back since.
EvictedIsWithPhones ==
    ~pool.located => Cardinality({p \in Phones : kept[p] = PhoneChunks}) >= WantedReplicas

\* A canceled or failed assignment moves again only after a retry: a phone that
\* still fetches or reports for it does not bring it back.  A restart may find
\* the row as it was.
RevivedByRetryOnly ==
    \A i \in DOMAIN pool.rows :
        pool.rows[i].status \in {"Failed", "Aborted"} =>
            \/ pool' = poolDb
            \/ pool'.rows[i].status \in {"Failed", "Aborted", "Pending"}

\* What the rows say of the phones is so, in every step.
PhonesAreTrue == [][ReportedIsKept' /\ EvictedIsWithPhones' /\ RevivedByRetryOnly]_phoneVars
=============================================================================
