---------------------------- MODULE OriginalStore ----------------------------
(***************************************************************************)
(* One original of the library and every place its bytes can be: the file   *)
(* it is imported from, the managed plaintext copy under originals/, the    *)
(* encrypted chunk file of its vault blob, and the replicas that desktop    *)
(* peers and storage phones hold.  Source: native_core/src/service.rs       *)
(* (import, settings, pin, evict, sync and mobile storage handlers, and     *)
(* refresh_blob_records, which nearly all of them run first),               *)
(* vault_store.rs and sync_transport.rs.                                    *)
(*                                                                          *)
(* The metadata (library rows) and the files live apart.  A handler takes   *)
(* the write lock, changes files and the state in memory, and only then     *)
(* saves; `lock` holds the handler between its last file operation and the  *)
(* outcome of its save.  Sends and pulls leave the lock while they use the  *)
(* network.                                                                 *)
(*                                                                          *)
(* An original is one chunk (CHUNK_BYTES is 64 MiB).  Sealing draws a fresh *)
(* nonce, so every seal yields other ciphertext of the same length: a       *)
(* generation number stands for nonce, ciphertext and ciphertext hash.      *)
(***************************************************************************)
EXTENDS Integers, FiniteSets

CONSTANTS
    Desktops,       \* paired peers that blobs are pushed to and pulled from
    Phones,         \* paired phones that contribute storage
    MinReplicas,    \* the vault's storage_policy.min_replicas
    ImportModes,    \* the modes the user imports with
    Policies,       \* the original_storage_policy values the user sets
    MaxGen,         \* bound: how often the original can be sealed
    ChunkLoss       \* may the chunk file vanish while a readable copy remains

ASSUME StoreAssumption ==
    /\ Desktops \cap Phones = {}
    /\ IsFiniteSet(Desktops \cup Phones)
    /\ MinReplicas \in Nat \ {0}
    /\ ImportModes \subseteq {"Copy", "Move", "Reference"}
    /\ Policies \subseteq {"EncryptedOnly", "KeepPlaintextCopy"}
    /\ MaxGen \in Nat \ {0}
    /\ ChunkLoss \in BOOLEAN

VARIABLES
    mem,        \* the rows about the original in the LibraryState
    db,         \* the rows the last committed save wrote
    disk,       \* the files on this device
    remote,     \* remote[p]: the generation peer p stores, 0 if none
    sending,    \* sending[p]: the generation of the push under way to p, or 0
    pulling,    \* the generation being pulled and how far it got
    lock,       \* the handler that has still to save
    acked       \* what the user was told about the import

vars == <<mem, db, disk, remote, sending, pulling, lock, acked>>

-----------------------------------------------------------------------------
(* Data. *)

Peers == Desktops \cup Phones
Gens == 0 .. MaxGen

\* asset: the import mode of the asset row.  rows: the generation its chunk
\* row describes, 0 for none or for an "unsealed" placeholder.  placed: the
\* chunk row has a local_path.  healthy: the peers whose replica row is
\* Healthy with a completed transfer.
Library == [asset : {"none", "Copy", "Move", "Reference"}, rows : Gens,
            placed : BOOLEAN, policy : {"EncryptedOnly", "KeepPlaintextCopy"},
            healthy : SUBSET Peers]

\* source: the user's own file.  plain: the managed copy.  file: the
\* generation in the chunk file.  gens: how many generations were sealed.
\* lost: did the chunk file ever vanish.
Disk == [source : {"there", "removed", "deleted"}, plain : BOOLEAN,
         file : Gens, gens : Gens, lost : BOOLEAN]

Replies == {"imported", "duplicate", "evicted", "settings", "sync", "pinned",
            "startup"}

Free == [reply |-> "none", push |-> {}]
Saving(reply) == [reply |-> reply, push |-> {}]
NoPull == [gen |-> 0, stage |-> "none"]

\* asset_file_path: a referenced original is read where the user keeps it.
IsReadable(l, d) ==
    IF l.asset = "Reference" THEN d.source = "there" ELSE d.plain

WithoutOriginal(l, d) ==
    IF l.asset = "Reference" THEN [d EXCEPT !.source = "removed"]
                             ELSE [d EXCEPT !.plain = FALSE]

\* encrypted_chunk_files_exist: presence and length only.
ChunksExist(l, d) == l.rows # 0 /\ l.placed /\ d.file # 0

\* decrypt_chunks_to_bytes: the hash, nonce and tag of the row must match.
Decrypts(l, d) == ChunksExist(l, d) /\ d.file = l.rows

\* The bytes of the original exist on some device in a form these rows read.
IsHeld(l, d) ==
    \/ IsReadable(l, d)
    \/ l.rows # 0 /\ (d.file = l.rows \/ \E p \in Peers : remote[p] = l.rows)

-----------------------------------------------------------------------------
(* refresh_blob_records_impl.  Each outcome is the rows and files it leaves *)
(* and whether every seal succeeded.                                        *)

NeedsSeal(l, d) == l.asset # "none" /\ ~ChunksExist(l, d) /\ IsReadable(l, d)

\* Fault: files that exist are taken to read back.
ReadsBackUnchecked(l, d) == ChunksExist(l, d)

ReadsBack(l, d) == Decrypts(l, d)
IsManaged(l) == l.asset \in {"Copy", "Move"}

\* enforce_original_storage_policy.  The removal of the plaintext may fail (or
\* the daemon may crash just before it), which is not reported.
Enforced(l, d) ==
    IF /\ l.policy = "EncryptedOnly" /\ IsManaged(l)
       /\ IsReadable(l, d) /\ ReadsBack(l, d)
    THEN {d, WithoutOriginal(l, d)}
    ELSE {d}

\* rollback_failed_seal_plaintext: a Move has made its source the managed
\* file, so only a Copy has another source to fall back on.
RolledBack(l, d) ==
    IF l.asset = "Copy" /\ d.plain /\ d.source = "there"
    THEN {d, [d EXCEPT !.plain = FALSE]}
    ELSE {d}

\* vault_store::seal_asset replaces the chunk file, the new rows follow.
Sealed(l, d) ==
    LET gen == d.gens + 1
        rows == [l EXCEPT !.rows = gen, !.placed = TRUE]
    IN  {[lib |-> rows, disk |-> e, ok |-> TRUE] :
            e \in Enforced(rows, [d EXCEPT !.file = gen, !.gens = gen])}

SealFailed(l, d) == {[lib |-> l, disk |-> e, ok |-> FALSE] : e \in RolledBack(l, d)}

Refreshed(l, d) ==
    IF NeedsSeal(l, d)
    THEN SealFailed(l, d) \cup (IF d.gens < MaxGen THEN Sealed(l, d) ELSE {})
    ELSE {[lib |-> l, disk |-> e, ok |-> TRUE] : e \in Enforced(l, d)}

-----------------------------------------------------------------------------
NoRows(policy) == [asset |-> "none", rows |-> 0, placed |-> FALSE,
                   policy |-> policy, healthy |-> {}]

Init ==
    /\ \E policy \in Policies : mem = NoRows(policy)
    /\ db = mem
    /\ disk = [source |-> "there", plain |-> FALSE, file |-> 0, gens |-> 0,
             lost |-> FALSE]
    /\ remote = [p \in Peers |-> 0]
    /\ sending = [p \in Desktops |-> 0]
    /\ pulling = NoPull
    /\ lock = Free
    /\ acked = "none"

\* A handler that refreshes and then saves: r is the outcome of the refresh.
RefreshThenSave(r, reply) ==
    /\ mem' = r.lib
    /\ disk' = r.disk
    /\ lock' = reply

-----------------------------------------------------------------------------
(* Imports. *)

\* commit_import_session, a candidate that is no duplicate.  The files move
\* first, the blob gets a new id (so no chunk file), the strict refresh comes
\* last; when it fails the error returns without a save, but the asset row
\* stays in the shared state.
Import(mode) ==
    /\ lock = Free
    /\ mem.asset = "none"
    /\ disk.source = "there"
    /\ LET lib == [mem EXCEPT !.asset = mode]
           placed == [disk EXCEPT
                        !.plain = @ \/ mode \in {"Copy", "Move"},
                        !.source = IF mode = "Move" THEN "removed" ELSE @,
                        !.file = 0]
       IN  \E r \in Refreshed(lib, placed) :
              RefreshThenSave(r, IF r.ok THEN Saving("imported") ELSE Free)
    /\ UNCHANGED <<db, remote, sending, pulling, acked>>

\* The same session committed again: the content hash belongs to an asset of
\* the vault, so the candidate is skipped as a duplicate.
ImportDuplicate ==
    /\ lock = Free
    /\ mem.asset # "none"
    /\ disk.source = "there"
    /\ \E r \in Refreshed(mem, disk) :
          RefreshThenSave(r, IF r.ok THEN Saving("duplicate") ELSE Free)
    /\ UNCHANGED <<db, remote, sending, pulling, acked>>

\* The user deletes their own file.
DeleteSource ==
    /\ disk.source = "there"
    /\ disk' = [disk EXCEPT !.source = "deleted"]
    /\ UNCHANGED <<mem, db, remote, sending, pulling, lock, acked>>

-----------------------------------------------------------------------------
(* Handlers on this device. *)

\* update_library_settings.
SetPolicy(policy) ==
    /\ lock = Free
    /\ policy # mem.policy
    /\ \E r \in Refreshed([mem EXCEPT !.policy = policy], disk) :
          RefreshThenSave(r, Saving("settings"))
    /\ UNCHANGED <<db, remote, sending, pulling, acked>>

\* asset_original_bytes and every handler that refreshes and then returns an
\* error: the refreshed rows stay in memory and are not saved.
Read ==
    /\ lock = Free
    /\ \E r \in Refreshed(mem, disk) : RefreshThenSave(r, Free)
    /\ UNCHANGED <<db, remote, sending, pulling, acked>>

\* pin_local_asset with no replica reachable: restore from the local chunks.
Pin ==
    /\ lock = Free
    /\ \E r \in Refreshed(mem, disk) :
          /\ IsManaged(r.lib)
          /\ ~IsReadable(r.lib, r.disk)
          /\ Decrypts(r.lib, r.disk)
          /\ RefreshThenSave([r EXCEPT !.disk.plain = TRUE], Saving("pinned"))
    /\ UNCHANGED <<db, remote, sending, pulling, acked>>

\* Fault: one replica fewer will do.
ReplicatedOneShort(l) == Cardinality(l.healthy) + 1 >= MinReplicas

\* verified_remote_replica_count against the policy's minimum.
Replicated(l) == Cardinality(l.healthy) >= MinReplicas

\* evict_local_asset, up to its save.  The plaintext goes first, then
\* local_path is taken from the row, then the chunk file goes; either removal
\* may fail, and then the error returns without a save.
Evict ==
    /\ lock = Free
    /\ \E r \in Refreshed(mem, disk) :
          LET bare == IF IsReadable(r.lib, r.disk)
                      THEN WithoutOriginal(r.lib, r.disk) ELSE r.disk
              unplaced == [r.lib EXCEPT !.placed = FALSE]
          IN  /\ IsManaged(r.lib)
              /\ Replicated(r.lib)
              /\ \/ RefreshThenSave(
                       [lib |-> unplaced,
                        disk |-> [bare EXCEPT !.file = IF r.lib.placed THEN 0 ELSE @]],
                       Saving("evicted"))
                 \/ /\ r.lib.placed /\ r.disk.file # 0
                    /\ RefreshThenSave([lib |-> unplaced, disk |-> bare], Free)
    /\ UNCHANGED <<db, remote, sending, pulling, acked>>

-----------------------------------------------------------------------------
(* Desktop peers. *)

\* run_sync up to the end of its locked section: pushes are queued for peers
\* while the chunk file is there, and start once the save has committed.
RunSync(ps) ==
    /\ lock = Free
    /\ \E r \in Refreshed(mem, disk) :
          /\ ps # {} => ChunksExist(r.lib, r.disk)
          /\ RefreshThenSave(r, [reply |-> "sync", push |-> ps])
    /\ \A p \in ps : sending[p] = 0
    /\ UNCHANGED <<db, remote, sending, pulling, acked>>

\* send_blob: the file must still hash to what the manifest says, and the
\* peer's validate_incoming_manifest refuses another generation of its blob.
SendBlob(p) ==
    /\ sending[p] # 0
    /\ disk.file = sending[p]
    /\ remote[p] = 0
    /\ remote' = [remote EXCEPT ![p] = sending[p]]
    /\ UNCHANGED <<mem, db, disk, sending, pulling, lock, acked>>

\* The answer, or an error, reaches execute_pending_sync_transfers, which
\* takes the lock again and saves.
SendAnswered(p) ==
    /\ lock = Free
    /\ sending[p] # 0
    /\ sending' = [sending EXCEPT ![p] = 0]
    /\ \/ mem' = mem
       \/ /\ remote[p] = sending[p]
          /\ mem' = [mem EXCEPT !.healthy = @ \cup {p}]
    /\ db' \in {db, mem'}
    /\ UNCHANGED <<disk, remote, pulling, lock, acked>>

\* validate_incoming_manifest on this device.
ManifestAgrees(l, gen) == l.rows = gen

\* receive_envelope: validate, stage the frames, ...
StartPull(p) ==
    /\ lock = Free
    /\ pulling = NoPull
    /\ p \in mem.healthy
    /\ remote[p] # 0
    /\ ManifestAgrees(mem, remote[p])
    /\ pulling' = [gen |-> remote[p], stage |-> "staged"]
    /\ UNCHANGED <<mem, db, disk, remote, sending, lock, acked>>

\* ... publish without replacing another file (no lock is held), ...
PublishPull ==
    /\ pulling.stage = "staged"
    /\ IF disk.file \in {0, pulling.gen}
       THEN /\ disk' = [disk EXCEPT !.file = pulling.gen]
            /\ pulling' = [pulling EXCEPT !.stage = "published"]
       ELSE pulling' = NoPull /\ UNCHANGED disk
    /\ UNCHANGED <<mem, db, remote, sending, lock, acked>>

\* ... validate again under the lock, commit the rows and save; a failing save
\* puts the previous rows back.
CommitPull ==
    /\ lock = Free
    /\ pulling.stage = "published"
    /\ pulling' = NoPull
    /\ \/ /\ ManifestAgrees(mem, pulling.gen)
          /\ mem' = [mem EXCEPT !.rows = pulling.gen, !.placed = TRUE]
          /\ db' = mem'
       \/ UNCHANGED <<mem, db>>
    /\ UNCHANGED <<disk, remote, sending, lock, acked>>

-----------------------------------------------------------------------------
(* Storage phones.  Their handlers do not refresh. *)

\* mobile_replica_chunk_bytes: the bytes are sent once the save committed.
FetchChunk(q) ==
    /\ lock = Free
    /\ Decrypts(mem, disk)
    /\ remote' = [remote EXCEPT ![q] = disk.file]
    /\ db' = mem
    /\ UNCHANGED <<mem, disk, sending, pulling, lock, acked>>

\* Fault: the phone's report is believed.
ProofUnchecked(l, d, gen) == ChunksExist(l, d)

\* The hashes of the report are those of the rows and the proof is the one
\* computed from the local chunk.
ProvesPossession(l, d, gen) == Decrypts(l, d) /\ gen = l.rows

\* report_mobile_replica.
ReportReplica(q) ==
    /\ lock = Free
    /\ q \notin mem.healthy
    /\ ProvesPossession(mem, disk, remote[q])
    /\ mem' = [mem EXCEPT !.healthy = @ \cup {q}]
    /\ db' \in {db, mem'}
    /\ UNCHANGED <<disk, remote, sending, pulling, lock, acked>>

\* restore_mobile_replica_chunk needs the local_path of the row.
CanRestoreFrom(q, l) == q \in l.healthy /\ remote[q] = l.rows /\ l.placed

RestoreChunk(q) ==
    /\ lock = Free
    /\ CanRestoreFrom(q, mem)
    /\ disk' = [disk EXCEPT !.file = remote[q]]
    /\ db' \in {db, mem}
    /\ UNCHANGED <<mem, remote, sending, pulling, lock, acked>>

-----------------------------------------------------------------------------
(* Saves, crashes and losses. *)

\* persist_locked_state commits: the reply goes out, queued pushes start.
SaveCommits ==
    /\ lock # Free
    /\ db' = mem
    /\ lock' = Free
    /\ sending' = [p \in Desktops |->
                      IF p \in lock.push THEN mem.rows ELSE sending[p]]
    /\ acked' = IF \/ lock.reply = "imported"
                   \/ lock.reply = "duplicate" /\ acked = "none"
                THEN lock.reply ELSE acked
    /\ UNCHANGED <<mem, disk, remote, pulling>>

\* persist_locked_state fails: an error goes out, memory stays ahead.  At
\* startup the daemon ends instead, which Crash covers.
SaveFails ==
    /\ lock # Free
    /\ lock.reply # "startup"
    /\ lock' = Free
    /\ UNCHANGED <<mem, db, disk, remote, sending, pulling, acked>>

\* The daemon ends at any point and GalleryService::new starts the next one:
\* load_state, refresh, save.  Transfers under way are gone.
Crash ==
    /\ \E r \in Refreshed(db, disk) : RefreshThenSave(r, Saving("startup"))
    /\ sending' = [p \in Desktops |-> 0]
    /\ pulling' = NoPull
    /\ UNCHANGED <<db, remote, acked>>

\* The chunk file is lost (disk trouble, a cleaner) while the plaintext that
\* the next refresh seals again is there.
LoseChunk ==
    /\ ChunkLoss
    /\ disk.file # 0
    /\ IsReadable(mem, disk)
    /\ disk' = [disk EXCEPT !.file = 0, !.lost = TRUE]
    /\ UNCHANGED <<mem, db, remote, sending, pulling, lock, acked>>

Next ==
    \/ \E mode \in ImportModes : Import(mode)
    \/ ImportDuplicate
    \/ DeleteSource
    \/ \E policy \in Policies : SetPolicy(policy)
    \/ Read
    \/ Pin
    \/ Evict
    \/ \E ps \in SUBSET Desktops : RunSync(ps)
    \/ \E p \in Desktops : SendBlob(p) \/ SendAnswered(p) \/ StartPull(p)
    \/ PublishPull
    \/ CommitPull
    \/ \E q \in Phones : FetchChunk(q) \/ ReportReplica(q) \/ RestoreChunk(q)
    \/ SaveCommits
    \/ SaveFails
    \/ Crash
    \/ LoseChunk

Spec == Init /\ [][Next]_vars

-----------------------------------------------------------------------------
(* Properties. *)

\* Every variable stays within the data the code stores there, and a row
\* never names a generation that was not sealed.
TypeOK ==
    /\ mem \in Library /\ db \in Library
    /\ disk \in Disk
    /\ remote \in [Peers -> Gens]
    /\ sending \in [Desktops -> Gens]
    /\ pulling \in [gen : Gens, stage : {"none", "staged", "published"}]
    /\ lock \in [reply : Replies \cup {"none"}, push : SUBSET Desktops]
    /\ acked \in {"none", "imported", "duplicate"}
    /\ mem.rows <= disk.gens /\ db.rows <= disk.gens

\* Once an import was reported done, the asset is in the state in memory and
\* in the one a restart would load, and for both of them the original still
\* exists somewhere in a form their rows can read: as plaintext, in the local
\* chunk file, or on a peer.  This is what seal, policy, eviction, pull, crash
\* and failing saves must preserve between them.  (While no chunk file was lost
\* by the disk: see EvictedIsProtected.)
AckedImportHeld ==
    acked = "imported" /\ ~disk.lost =>
        \A l \in {mem, db} : l.asset # "none" /\ IsHeld(l, disk)

\* A replica that is counted as verified holds the generation the rows
\* describe, in memory and after a restart; else evict counts bytes nobody
\* can decrypt.  (While no chunk file was lost, and so none sealed again.)
VerifiedReplicaReadable ==
    ~disk.lost =>
        \A l \in {mem, db} : \A p \in l.healthy : l.rows # 0 /\ remote[p] = l.rows

\* A managed plaintext copy goes away only when the chunk file was sealed in
\* the generation of the rows, when the import source is still there, or when
\* enough verified replicas exist for an eviction.
PlaintextGoesSafely ==
    [][disk.plain /\ ~disk'.plain =>
          \/ mem'.placed /\ disk'.file # 0 /\ disk'.file = mem'.rows
          \/ disk'.source = "there"
          \/ Replicated(mem')]_vars

\* The program takes the user's own file away only by importing it with Move:
\* no refresh, rollback or eviction touches a referenced original.
SourceLeavesOnlyByMove ==
    [][disk.source = "there" /\ disk'.source = "removed" =>
          mem.asset = "none" /\ mem'.asset = "Move"]_vars

\* A failure to save, or a crash, never leaves the daemon without any copy of
\* an original that the user did not delete.
FailureKeepsTheOriginal ==
    lock.reply = "startup" /\ disk.source = "removed" => IsHeld(mem, disk)

\* Only a protected original is evicted: when its local copies are gone, what
\* the verified replicas hold can still be read with its rows.
EvictedIsProtected == lock.reply = "evicted" => IsHeld(mem, disk)

\* No readable copy is taken away early, neither the managed one nor the
\* user's, whatever handler, refresh or rollback removes files.
OriginalsGoSafely == PlaintextGoesSafely /\ SourceLeavesOnlyByMove
=============================================================================
