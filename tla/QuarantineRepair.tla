-------------------------- MODULE QuarantineRepair --------------------------
(***************************************************************************)
(* A managed original whose vault is not known: at start the daemon         *)
(* encrypts it under a device-local quarantine key and removes the          *)
(* plaintext; later the user names a vault and repair_quarantined_original  *)
(* seals it there and retires the quarantine.  Source: service.rs           *)
(* (reconcile_unresolved_managed_originals, repair_quarantined_original,    *)
(* finish_quarantine_repair, target_vault_for_asset) and                    *)
(* original_quarantine.rs.                                                  *)
(*                                                                          *)
(* Start and repair run alone (the service is not open yet, or the write    *)
(* lock is held), so their steps interleave only with a crash.  `job` says  *)
(* how far the running handler is; the rows change only where save_state    *)
(* commits, because every handler here works on a clone.  The original that *)
(* start finds resolved and in plaintext is the subject of OriginalStore:   *)
(* this module starts with an unresolved one.                               *)
(***************************************************************************)
EXTENDS Integers, FiniteSets

CONSTANTS
    Vaults,         \* every vault id the rows of the library may name
    LiveVaults,     \* the vaults that still exist
    NoVault,        \* the asset row has no vault_id
    MaxBlobs,       \* bound: blob rows of the asset
    MaxObjects      \* bound: quarantine objects sealed

ASSUME RepairAssumption ==
    /\ LiveVaults \subseteq Vaults /\ IsFiniteSet(Vaults)
    /\ NoVault \notin Vaults /\ Vaults \cap {"source", "quarantine"} = {}
    /\ MaxBlobs \in Nat \ {0} /\ MaxObjects \in Nat \ {0}

VARIABLES
    rows,           \* the asset's rows as last committed
    store,          \* its files and its quarantine keys
    job,            \* the handler under way, and what it answered last
    issued          \* blob and object ids handed out

repairVars == <<rows, store, job, issued>>

-----------------------------------------------------------------------------
(* Data. *)

BlobIds == 1 .. MaxBlobs
Objects == 1 .. MaxObjects

BlobRecord == [id : BlobIds, vault : Vaults, live : BOOLEAN]

\* owner: asset.vault_id.  uploads: vaults with a completed receipt.  entries:
\* the namespace entry per vault.  record: the object the ProtectedOriginal row
\* names, 0 for no row.
Rows == [owner : Vaults \cup {NoVault}, blobs : SUBSET BlobRecord,
         uploads : SUBSET Vaults, entries : [Vaults -> {"none", "live", "trashed"}],
         record : 0 .. MaxObjects, sourceRemoved : BOOLEAN]

\* files: blobs whose chunk files verify and decrypt.  objects: object
\* directories that are whole.
Store == [plain : {"whole", "changed", "gone"}, files : SUBSET BlobIds,
          objects : SUBSET Objects, keys : SUBSET Objects]

Stages == {"down", "refused", "sealed", "recorded", "removed", "opening", "idle",
           "resealed", "placed", "named", "retired", "keyless"}

Job == [at : Stages, vault : Vaults \cup {NoVault}, id : 0 .. MaxBlobs + MaxObjects,
        reply : {"none", "repaired", "already", "error"}]

At(stage) == [at |-> stage, vault |-> NoVault, id |-> 0, reply |-> "none"]
Reported(reply, v) == [at |-> "idle", vault |-> v, id |-> 0, reply |-> reply]

LiveBlobs(r) == {b \in r.blobs : b.live}
BlobVaults(r) == {b.vault : b \in LiveBlobs(r)}
EntryVaults(r) == {v \in Vaults : r.entries[v] = "live"}
Associated(r) == BlobVaults(r) \cup r.uploads \cup EntryVaults(r)

\* The key is only loaded, never made again; every chunk and the whole must
\* have the recorded hashes, when verifying and when streaming into a vault.
KeyLoads(o, s) == o \in s.keys
Readable(o, s) == o \in s.objects /\ KeyLoads(o, s)
Streams(o, s) == o \in s.objects /\ KeyLoads(o, s)

ObjectSealed(o, s) == [s EXCEPT !.objects = @ \cup {o}, !.keys = @ \cup {o}]

-----------------------------------------------------------------------------
(* target_vault_for_asset. *)

OwnedTarget(r) ==
    IF r.owner \in LiveVaults /\ Associated(r) \cap LiveVaults \subseteq {r.owner}
    THEN r.owner ELSE NoVault

\* A blob row nothing else vouches for counts only while no receipt or entry
\* names a vault that is gone.
UnownedTarget(r) ==
    LET vouched == r.uploads \cup EntryVaults(r)
        live == Associated(r) \cap LiveVaults
    IN  IF Associated(r) = {} /\ Cardinality(LiveVaults) = 1
        THEN CHOOSE v \in LiveVaults : TRUE
        ELSE IF Cardinality(live) = 1 /\ (live \subseteq vouched \/ vouched \subseteq LiveVaults)
        THEN CHOOSE v \in live : TRUE
        ELSE NoVault

TargetVault(r) == IF r.owner = NoVault THEN UnownedTarget(r) ELSE OwnedTarget(r)

-----------------------------------------------------------------------------
(* Row helpers the handlers share. *)

Tombstoned(blobs, keep) == {[b EXCEPT !.live = b.live /\ b.id = keep] : b \in blobs}

\* refresh_blob_records for an asset without plaintext: a placeholder row when
\* its vault is known and has no row for it, tombstoned ones included.
RowAfterRefresh(r, id) ==
    IF TargetVault(r) = NoVault \/ \E b \in r.blobs : b.vault = TargetVault(r)
    THEN r
    ELSE [r EXCEPT !.blobs = @ \cup {[id |-> id, vault |-> TargetVault(r), live |-> TRUE]}]

NeedsPlaceholder(r) == RowAfterRefresh(r, 0) # r

\* ensure_file_namespace_defaults: a blob row alone grants no entry.
WithDefaults(r) ==
    [r EXCEPT !.entries =
        [v \in Vaults |->
            IF /\ r.entries[v] = "none" /\ v \in BlobVaults(r) \cap LiveVaults
               /\ Cardinality(Associated(r) \cap LiveVaults) = 1
               /\ v \in r.uploads \/ LiveVaults = {v}
            THEN "live" ELSE r.entries[v]]]

\* ensure_single_live_asset_entry.
OneEntry(r, v) ==
    [WithDefaults(r) EXCEPT !.entries =
        [w \in Vaults |-> IF w = v THEN "live"
                          ELSE IF WithDefaults(r).entries[w] = "live" THEN "trashed"
                          ELSE WithDefaults(r).entries[w]]]

BlobOf(r, v) == {b \in LiveBlobs(r) : b.vault = v}

-----------------------------------------------------------------------------
RepairInit ==
    /\ rows \in [owner : Vaults \cup {NoVault},
                 blobs : {{}} \cup {{[id |-> 1, vault |-> v, live |-> TRUE]} : v \in Vaults},
                 uploads : SUBSET Vaults,
                 entries : [Vaults -> {"none", "live", "trashed"}],
                 record : {0}, sourceRemoved : {FALSE}]
    /\ TargetVault(rows) = NoVault
    /\ store \in [plain : {"whole"}, files : SUBSET {b.id : b \in rows.blobs},
                  objects : {{}}, keys : {{}}]
    /\ job = At("down")
    /\ issued = [blobs |-> Cardinality(rows.blobs), objects |-> 0]

(* reconcile_unresolved_managed_originals, before the service opens. *)

Unresolved == TargetVault(rows) = NoVault

\* Nothing is to be reconciled: no plaintext and no record, or a known vault.
StartResolved ==
    /\ job.at = "down"
    /\ ~Unresolved \/ (rows.record = 0 /\ store.plain = "gone")
    /\ job' = At("opening")
    /\ UNCHANGED <<rows, store, issued>>

\* seal_managed_original: a fresh object id and key, the hash checked while
\* reading, the directory published whole.  A failed seal stops the start.
StartSeal ==
    /\ job.at = "down" /\ Unresolved /\ rows.record = 0 /\ store.plain # "gone"
    /\ LET o == issued.objects + 1
       IN  \/ /\ store.plain = "whole" /\ issued.objects < MaxObjects
             /\ issued' = [issued EXCEPT !.objects = o]
             /\ store' = ObjectSealed(o, store)
             /\ job' = [At("sealed") EXCEPT !.id = o]
          \/ UNCHANGED <<store, job, issued>>
    /\ UNCHANGED rows

\* Fault: the plaintext goes before the row that names the object is saved.
SaveRecordLast ==
    /\ job.at = "sealed"
    /\ store' = [store EXCEPT !.plain = "gone"]
    /\ \/ rows' = [rows EXCEPT !.record = job.id] /\ job' = At("recorded")
       \/ UNCHANGED rows /\ job' = At("down")
    /\ UNCHANGED issued

\* A failed save removes the object it cannot record; the removal may fail.
SaveRecord ==
    /\ job.at = "sealed"
    /\ \/ /\ rows' = [rows EXCEPT !.record = job.id, !.sourceRemoved = FALSE]
          /\ job' = At("recorded")
          /\ UNCHANGED store
       \/ /\ store' \in {store, [store EXCEPT !.objects = @ \ {job.id}]}
          /\ job' = At("down")
          /\ UNCHANGED rows
    /\ UNCHANGED issued

\* verify_protected_original: an object that does not verify stops the start.
StartVerify ==
    /\ job.at \in {"down", "refused"} /\ Unresolved /\ rows.record # 0
    /\ job' = IF Readable(rows.record, store) THEN At("recorded") ELSE At("refused")
    /\ UNCHANGED <<rows, store, issued>>

\* Fault: the file is removed as it is.
SourceUnread == TRUE

\* The plaintext is read again first: a file that has changed is preserved.
SourceUnchanged == store.plain = "whole"

RemoveSource ==
    /\ job.at = "recorded"
    /\ \/ /\ store.plain = "gone"
          /\ job' = At(IF rows.sourceRemoved THEN "opening" ELSE "removed")
          /\ UNCHANGED store
       \/ /\ store.plain # "gone" /\ SourceUnchanged
          /\ store' = [store EXCEPT !.plain = "gone"]
          /\ job' = At("removed")
       \/ /\ store.plain # "gone"
          /\ job' = At("down")
          /\ UNCHANGED store
    /\ UNCHANGED <<rows, issued>>

MarkRemoved ==
    /\ job.at = "removed"
    /\ \/ rows' = [rows EXCEPT !.sourceRemoved = TRUE] /\ job' = At("opening")
       \/ job' = At("down") /\ UNCHANGED rows
    /\ UNCHANGED <<store, issued>>

\* The refresh and defaults every start and most handlers run before a save.
Settled(r) == WithDefaults(RowAfterRefresh(r, issued.blobs + 1))

Settle ==
    /\ NeedsPlaceholder(rows) => issued.blobs < MaxBlobs
    /\ issued' = IF NeedsPlaceholder(rows) THEN [issued EXCEPT !.blobs = @ + 1] ELSE issued

OpenService ==
    /\ job.at = "opening"
    /\ \/ Settle /\ rows' = Settled(rows) /\ job' = At("idle")
       \/ job' = At("down") /\ UNCHANGED <<rows, issued>>
    /\ UNCHANGED store

-----------------------------------------------------------------------------
(* repair_quarantined_original and finish_quarantine_repair. *)

\* A live blob of the vault whose chunk files and plaintext verify.
VerifiedBlobs(v) == {b \in BlobOf(rows, v) : b.id \in store.files}

\* Without a record the repair is done, or it never was one.
RepairAgain(v) ==
    /\ job.at = "idle" /\ rows.record = 0
    /\ \/ /\ rows.owner = v /\ VerifiedBlobs(v) # {}
          /\ rows' = OneEntry(rows, v)
          /\ job' = Reported("already", v)
       \/ job' = Reported("error", v) /\ UNCHANGED rows
    /\ UNCHANGED <<store, issued>>

\* An earlier attempt has placed the blob: finish it without the quarantine.
RepairResume(v) ==
    /\ job.at = "idle" /\ rows.record # 0
    /\ \E b \in VerifiedBlobs(v) : job' = [At("placed") EXCEPT !.vault = v, !.id = b.id]
    /\ UNCHANGED <<rows, store, issued>>

\* VerifiedQuarantineReader into seal_asset_from_reader, under a fresh blob id,
\* then the chunk files and the plaintext are verified through the vault key.
RepairSeal(v) ==
    /\ job.at = "idle" /\ rows.record # 0 /\ VerifiedBlobs(v) = {}
    /\ \/ /\ Readable(rows.record, store) /\ Streams(rows.record, store)
          /\ issued.blobs < MaxBlobs
          /\ issued' = [issued EXCEPT !.blobs = @ + 1]
          /\ store' = [store EXCEPT !.files = @ \cup {issued.blobs + 1}]
          /\ job' = [At("resealed") EXCEPT !.vault = v, !.id = issued.blobs + 1]
       \/ job' = Reported("error", v) /\ UNCHANGED <<store, issued>>
    /\ UNCHANGED rows

\* The candidate: one live blob, the owner, no live entry and no receipt in
\* another vault.
Candidate(v, id) ==
    OneEntry([rows EXCEPT
                !.owner = v,
                !.blobs = Tombstoned(@, 0) \cup {[id |-> id, vault |-> v, live |-> TRUE]},
                !.uploads = @ \cap {v},
                !.entries = [w \in Vaults |-> IF w # v /\ rows.entries[w] = "live"
                                             THEN "trashed" ELSE rows.entries[w]]], v)

SaveOr(stage, row) ==
    \/ rows' = row /\ job' = [job EXCEPT !.at = stage]
    \/ job' = Reported("error", job.vault) /\ UNCHANGED rows

SaveCandidate ==
    /\ job.at = "resealed"
    /\ SaveOr("placed", Candidate(job.vault, job.id))
    /\ UNCHANGED <<store, issued>>

\* Fault: an attempt that is resumed leaves the rows of the other vaults.
NamedBesideOthers(v, id) == OneEntry([rows EXCEPT !.owner = v, !.uploads = {}], v)

\* The receipts of the chosen vault go as well.
Named(v, id) ==
    OneEntry([rows EXCEPT !.owner = v, !.blobs = Tombstoned(@, id), !.uploads = {}], v)

SaveNamespace ==
    /\ job.at = "placed"
    /\ SaveOr("named", Named(job.vault, job.id))
    /\ UNCHANGED <<store, issued>>

\* remove_dir_all may fail before, within or after its work.
RetireObject ==
    /\ job.at = "named"
    /\ \/ /\ store' = [store EXCEPT !.objects = @ \ {rows.record}]
          /\ job' = [job EXCEPT !.at = "retired"]
       \/ /\ store' \in {store, [store EXCEPT !.objects = @ \ {rows.record}]}
          /\ job' = Reported("error", job.vault)
    /\ UNCHANGED <<rows, issued>>

RetireKey ==
    /\ job.at = "retired"
    /\ \/ /\ store' = [store EXCEPT !.keys = @ \ {rows.record}]
          /\ job' = [job EXCEPT !.at = "keyless"]
       \/ UNCHANGED store /\ job' = Reported("error", job.vault)
    /\ UNCHANGED <<rows, issued>>

SaveInventory ==
    /\ job.at = "keyless"
    /\ \/ /\ rows' = [rows EXCEPT !.record = 0, !.sourceRemoved = FALSE, !.owner = job.vault]
          /\ job' = Reported("repaired", job.vault)
       \/ UNCHANGED rows /\ job' = Reported("error", job.vault)
    /\ UNCHANGED <<store, issued>>

-----------------------------------------------------------------------------
(* What else changes the evidence while the service is open. *)

\* commit_received_blob: a peer's row, with or without chunk files.
PeerBlob(v) ==
    /\ job.at = "idle" /\ issued.blobs < MaxBlobs
    /\ issued' = [issued EXCEPT !.blobs = @ + 1]
    /\ rows' = [rows EXCEPT !.blobs =
                    @ \cup {[id |-> issued.blobs + 1, vault |-> v, live |-> TRUE]}]
    /\ store' \in {store, [store EXCEPT !.files = @ \cup {issued.blobs + 1}]}
    /\ job' = At("idle")

\* trash_file_entry and restore_file_entry settle the rows first.
SetTrashed(v, from, to) ==
    /\ job.at = "idle" /\ Settle
    /\ Settled(rows).entries[v] = from
    /\ rows' = [Settled(rows) EXCEPT !.entries[v] = to]
    /\ job' = At("idle")
    /\ UNCHANGED store

TrashEntry(v) == SetTrashed(v, "live", "trashed")
RestoreEntry(v) == SetTrashed(v, "trashed", "live")

\* The user edits the managed file while the daemon is down.
EditSource ==
    /\ job.at = "down" /\ store.plain = "whole" /\ rows.record # 0
    /\ store' = [store EXCEPT !.plain = "changed"]
    /\ UNCHANGED <<rows, job, issued>>

RepairCrash ==
    /\ job.at \notin {"down", "refused"}
    /\ job' = At("down")
    /\ UNCHANGED <<rows, store, issued>>

RepairNext ==
    \/ StartResolved \/ StartSeal \/ SaveRecord \/ StartVerify
    \/ RemoveSource \/ MarkRemoved \/ OpenService
    \/ \E v \in LiveVaults : RepairAgain(v) \/ RepairResume(v) \/ RepairSeal(v)
    \/ SaveCandidate \/ SaveNamespace \/ RetireObject \/ RetireKey \/ SaveInventory
    \/ \E v \in LiveVaults : PeerBlob(v) \/ TrashEntry(v) \/ RestoreEntry(v)
    \/ EditSource \/ RepairCrash

RepairSpec == RepairInit /\ [][RepairNext]_repairVars

-----------------------------------------------------------------------------
(* Properties. *)

RepairTypeOK ==
    /\ rows \in Rows /\ \A b, c \in rows.blobs : b.id = c.id => b = c
    /\ store \in Store
    /\ job \in Job
    /\ issued \in [blobs : 0 .. MaxBlobs, objects : 0 .. MaxObjects]

\* The plaintext is removed only while the committed record names an object
\* that can be read, and only if it still is what the object was sealed from.
SourceLeavesQuarantined ==
    [][store.plain # "gone" /\ store'.plain = "gone" =>
        store.plain = "whole" /\ rows.record # 0 /\ Readable(rows.record, store)]_repairVars

\* No evidence that turns up or goes away, and no restart, moves the asset from
\* one vault to another: that takes a repair the user has asked for.  (With one
\* association more or less an asset may lose its vault or find one.)
NeverRehomed ==
    [][\/ TargetVault(rows) = NoVault \/ TargetVault(rows') \in {NoVault, TargetVault(rows)}
       \/ job.vault = TargetVault(rows') /\ job.at \in {"resealed", "placed"}]_repairVars

\* When the repair is reported done, the database names the chosen vault alone:
\* owner, target, one live blob that verifies, one live entry, no quarantine.
RepairedIsOneVault ==
    job.at = "idle" /\ job.reply = "repaired" =>
        /\ rows.record = 0 /\ rows.owner = job.vault /\ TargetVault(rows) = job.vault
        /\ Associated(rows) = {job.vault} /\ EntryVaults(rows) = {job.vault}
        /\ Cardinality(LiveBlobs(rows)) = 1 /\ VerifiedBlobs(job.vault) # {}

\* The bytes change hands as Custody says, crashes and failures included: the
\* quarantine and the plaintext go only after somebody else has the original.
Custodian ==
    IF store.plain = "whole" THEN "source"
    ELSE IF rows.record # 0 /\ Readable(rows.record, store) THEN "quarantine"
    ELSE rows.owner

\* A blob that is sealed and not yet recorded is a copy too.
HeldIn(v) ==
    \/ \E b \in rows.blobs : b.vault = v /\ b.id \in store.files
    \/ job.at = "resealed" /\ job.vault = v

Copies ==
    {v \in Vaults : HeldIn(v)}
    \cup (IF store.plain = "whole" THEN {"source"} ELSE {})
    \cup (IF \E o \in Objects : Readable(o, store) THEN {"quarantine"} ELSE {})

C == INSTANCE Custody WITH Place <- Vaults \cup {"source", "quarantine"},
                           custodian <- Custodian, copies <- Copies
Handed == C!CustodySpec

\* A repair loses no source and nothing but a repair changes the vault of an
\* asset.
NothingLostOrRehomed == SourceLeavesQuarantined /\ NeverRehomed
=============================================================================
