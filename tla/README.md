# Formal models of the photo organizer

This directory models the stateful core of the photo organizer: the daemon
`galleryd` (Rust, `native_core`), which keeps a library of originals in
encrypted vaults, takes uploads from paired phones, and replicates the vaults to
paired desktops and storage phones, keeps their keys, backs them up and restores
them. The models are written from the code; where a document or a comment
promises something else, a run shows the difference.

`native_core/src/service.rs` is meant wherever a line number stands alone.

## How the program works

One process holds one `LibraryState` (in memory) behind a tokio `RwLock`. Nearly
every handler of `GalleryService` follows the same pattern:

1. take the write lock,
2. change files (originals, chunk files, staging files) and the state,
3. call `persist_locked_state`, which rewrites the whole SQLite database in one
   transaction, and
4. reply.

So handlers do not interleave with each other, except where they give the lock
up to use the network. What is hard lies elsewhere:

- **Files and rows are saved apart.** A crash, or a save that fails, between
  step 2 and step 3 leaves files that no row describes, or removes files that
  rows still describe. After a failed save the process goes on with a memory
  that is ahead of the database, and a later save commits what was refused.
- **Nearly every handler first repairs.** `refresh_blob_records` seals what is
  not sealed and applies the original storage policy, that is, it may remove
  plaintext, inside handlers as harmless as reading an original.
- **Sync works without the lock.** `run_sync` copies rows, uses the network, and
  writes its answers over whatever the rows have become.
- **Two locks.** The sync runtime has a mutex of its own that is held during
  network exchanges and is taken before the state lock here and after it there.
- **Phones retry.** Requests get lost, repeated, cut short and reordered.
- **Some work is long and runs without a lock at all**: rebuilds of the text and
  scene indexes, restores of a backup, the staging of received chunks. What it
  read at its start may no longer be true at its end.
- **Some state has no transaction**: the key store of the operating system and
  its marker files, the state file of the encrypted catalog, quarantine objects,
  backup directories, and the migrations of the database, whose statements are
  each durable on their own.

## Inventory

| Component | State | Operations | Talks to | Hard behaviour | What makes it correct |
|---|---|---|---|---|---|
| Mobile uploads (768-1196, 8982-9098) | upload rows, staging files | reserve, chunk, whole body, status, cancel, complete | vault chunk store, metadata store, sessions | retransmission, partial writes, restart between staging and save | staged bytes are a prefix of the original; replies are durable; a closed upload is inert |
| Mobile sessions, pairing (477-766) | tokens, devices, sessions | create token, pair, refresh, revoke | uploads, membership | lost refresh reply, failed save after pairing | a token pairs once; an ended bearer token opens nothing |
| Originals and storage policy (3445-3613, 8059-8660) | asset and blob rows, plaintext copies, chunk files | import, refresh, set policy, pin, evict | every handler | files before rows, resealing with a new nonce | an acknowledged original stays readable |
| Vault chunk store (`vault_store.rs`) | chunk files, provider markers | seal, decrypt, existence, restore, provision | originals, sync, keys | files that exist but do not decrypt; marker, key and marker written apart | what the rows describe is what the file holds; never a second key |
| Desktop sync (2990-3443, 9496-9765, `sync_transport.rs`) | transfer and replica rows, the runtime | plan, execute, record, retry, cancel; start, stop, status | peers, originals | answers that arrive late, overlapping runs, lock order | verified means stored; transfers end; calls return |
| Sync receive path (`sync_transport.rs`) | stage and chunk files, rows | validate, stage, publish, commit | originals, membership | state changes between check and commit | rows name files of the sealing they describe; revocation wins; space is kept |
| Storage phones (1304-1666) | profiles, transfer and replica rows | profile, plan, fetch chunk, report, restore | chunk store, desktop sync | late and repeated requests for rows that failed, lapsed or were canceled; a report about an earlier ciphertext | a counted replica is on its phone and decrypts |
| Import sessions, watch folders (3730-4179, 12104-12290) | sessions, candidates | scan, edit, commit, import one file | originals | files that change after the scan, half-done commit loops | no content twice in a vault; sessions account for what they did |
| Library settings | settings | update | originals | applies the policy at once | see originals |
| Metadata store (`storage.rs`, `schema.sql`) | the SQLite database | save_state, load_state, migrate | every handler | UNIQUE indices refuse a state that memory accepted; migrations are not atomic | a save is all or nothing; what is served after an update is what was there |
| Quarantine repair (`original_quarantine.rs`, 2261-2700) | quarantine records, objects and keys | seal at start, verify, publish, retire | originals, file tree | several durable steps | the bytes always have a keeper; a repaired asset has one vault |
| Vault keys and encryption activation (`security.rs`) | key store, markers, leases, state file | provision, restore, activate, open | chunk store, backup | keys, markers and files are written apart; power loss | a key is never replaced while something needs it |
| Vaults, devices, membership | vaults, devices, members, envelopes | create, enrol, pair, revoke, restore | sync, sessions | defaults that every handler fills in | a revoked device has nothing |
| Vault file tree | entries | create, move, rename, trash, restore | uploads, imports, repair | cycles, names, evidence for two vaults | what is shown can be reached; nothing becomes live by itself |
| Backup and restore (`recovery_*.rs`, 6080-6480, 10030-10420) | exported directories, staged directory | export, verify, plan, restore | keys, metadata store | files that change during an export; publication in steps | a manifest stays true; a restored directory is one backup |
| People, places, events | derived rows, corrections | derive, correct, merge, reset | assets | corrections against a rebuild | corrections outlive derivations |
| OCR text, scenes, jobs | index rows, jobs, logs | rebuild, cancel, retry, compact | assets | long scans without a lock | one result per photo; history without gaps |
| Albums, tags, flags, smart folders | rows and feedback records | edits | - | memory ahead of the database | the records tell what happened |
| Previews, models, ML sidecar, HTTP API | - | - | - | I/O | - |
| Flutter client | its fallback repository | retry loop | HTTP API | a retry of what was done | - |

`PROJECT.json` lists each of them with what is modelled, and under `hazards`
the places where the code can go wrong in ways a unit test hardly reaches.

## Modules

| Module | Is about | Checked in the run |
|---|---|---|
| `MobileUpload` | uploads from a phone: every handler, its save and the restart | `upload`, `upload_dedup` |
| `MobileUploadProofs` | the theorems about `MobileUpload` | (tlapm) |
| `OriginalStore` | one original and every place its bytes can be | `library`, `original_evict`, `original_move` |
| `ImportSessions` | sessions of several files that change after the scan | `library`, `imports` |
| `LibraryProofs` | the theorems about `OriginalStore` and `ImportSessions` | (tlapm) |
| `FileTree` | the entries of two vaults | `library` |
| `LibraryViews` | places, events and people with their corrections | `library` |
| `QuarantineRepair` | an original whose vault is unknown, until a repair names it | `vault_blobs` |
| `Custody` | what a change of place promises for bytes; abstract | implemented by `QuarantineRepair` |
| `QuarantineRepairProofs` | the theorems about `QuarantineRepair`, the refinement of `Custody` among them | (tlapm) |
| `SyncReceive` | the receiving side of exchanges of one blob | `vault_blobs` |
| `SyncTransfers` | the transfer table: plan, execute, answer, retry, cancel, evict | `vault_blobs`, `desktop_sync` |
| `PhoneStorage` | phones that store the chunks of one blob for the laptop | `vault_blobs` |
| `SyncNetwork` | the state lock and the runtime's mutex of two daemons | `desktop_sync`, `members`, `net_circular` |
| `SyncProofs` | the theorems about `SyncReceive`, `SyncNetwork`, `SyncTransfers` and `PhoneStorage` | (tlapm) |
| `RecoveryKeys` | vault, catalog and quarantine keys, provisioned and restored | `vault_keys` |
| `CatalogEncryption` | activation of database encryption and every start after it | `vault_keys` |
| `VaultKeysProofs` | the theorems about `RecoveryKeys` and `CatalogEncryption` | (tlapm) |
| `Membership` | devices, vaults, members, key references, tokens and sessions | `members` |
| `Migration` | opening the database of an older version | `members`, `migration` |
| `BackupExport` | export of a backup and restores of it, as far as files go | `members` |
| `Indexing` | rebuilds of text and scenes, the history of jobs | `members` |
| `MembersProofs` | the theorems about `Membership`, `Migration`, `BackupExport` and `Indexing` | (tlapm) |
| `Collections` | flags, tags, albums and their records | `members` |
| `GalleryProofs` | the theorems about `Collections`, `FileTree` and `LibraryViews` | (tlapm) |
| `Sorting` | a set as a list in an order, which the code makes by sorting and the database by ORDER BY | with `ImportSessions`, `Collections` and `LibraryViews` |
| `SortingProofs` | the lemmas about sorted lists, numbers and loops that the other proofs use | (tlapm) |

The modules look at the same handlers from several sides and do not compose into
one state machine: `SyncTransfers` takes bytes to be present or not and
`OriginalStore` says what sealing does to them; `SyncNetwork` keeps only the lock
operations of calls whose effects others describe; `QuarantineRepair` has the
files of one asset and `FileTree` the entries that follow its repair. Where two
modules meet, the names they share are those of the code
(`target_vault_for_asset`, `local_device_id`, the refresh that nearly every
handler begins with).

The `MC` modules give the constants their values. `MCMobileUpload`,
`MCVaultBlobs`, `MCVaultKeys`, `MCMembers`, `MCLibrary` and `MCDesktopSync` hold
several small instances each, told apart by `part` (`scene` in the first): the
next-state relation is that of one part, and the others rest in one of their
initial states. That is a sum of state spaces, not a product.

### MobileUpload

| In the model | In the code |
|---|---|
| `mem` | the `LibraryState` in memory, as far as uploads read it: upload rows, imported assets, session status |
| `db` | what the last committed `save_state` wrote |
| `staged[u]` | the `.part` file under `mobile_uploads/` |
| `lock` | a handler between its last change and the outcome of its save, with the reply it will send |
| `acked` | replies the device has received |
| `Reserve`, `Status`, `Cancel`, `ReceiveChunk`, `ReceiveWhole`, `Complete` | the handlers of these names; each takes the whole handler, with the reconciliation of counter and file it begins with |
| `RejectHash`, `ReuseDuplicate`, `Import` | the outcomes of `complete_mobile_upload_from_staging` |
| `Persist`, `PersistFails`, `Crash` | `persist_locked_state` and `GalleryService::new` |

A handler that returns an error without saving (`Refuse`) leaves its changes in
memory; this is what lets memory run ahead. A crash in the middle of a handler
is covered: every prefix of file operations that matters is an outcome of the
action (a chunk cut short, a directory not removed, a copy that failed), and
`Crash` may follow with the save not done.

Data: a byte is its offset in the original, or 0 if the link damaged it; the
checksum of some bytes is the bytes and the original they come from. Sizes are
counted in units. An upload's device, name and mobile role are left out, and an
asset is named after the upload that made it.

### OriginalStore

| In the model | In the code |
|---|---|
| `mem`, `db` | the asset row, chunk row, policy and healthy replicas of one original, in memory and saved |
| `disk` | the user's source file, the managed plaintext, the chunk file |
| `remote[p]` | what a peer stores |
| generation | nonce, ciphertext and ciphertext hash: each seal draws a fresh nonce, of the same length |
| `Refreshed` | `refresh_blob_records_impl` with its policy and its rollback, as the set of its outcomes |
| `Import`, `ImportDuplicate`, `SetPolicy`, `Read`, `Pin`, `Evict`, `RunSync` | handlers, each with the refresh it begins or ends with |
| `SendBlob`, `SendAnswered`, `StartPull`, `PublishPull`, `CommitPull` | the exchange with a desktop, outside the lock |
| `FetchChunk`, `ReportReplica`, `RestoreChunk` | the storage phone's handlers |
| `SaveCommits`, `SaveFails`, `Crash`, `LoseChunk`, `DeleteSource` | the save, the restart, and what happens to files from outside |

One chunk per blob (`CHUNK_BYTES` is 64 MiB), one vault whose key is available
(a failing seal is an outcome of its own), peers that never drop what they
store, and a user who deletes only the file they imported from. `Import` wants
the source to be there. Replicas only become healthy here; how transfers fail
and overlap is `SyncTransfers`. Startup always saves. `AckedImportHeld` and
`VerifiedReplicaReadable` are conditional on no chunk file having been lost by the
disk, `OriginalsGoSafely` is not.

### ImportSessions

`folder` is what the user's files hold now, `managed` the library's copies,
`imports` and `importRows` the assets and sessions in memory and in the
database. `scan_import_source` records the files with their checksums.
`commit_import_session` takes a selection, a vault and a mode, and folds the loop of
the handler over the candidates in their order (`Candidate`): a duplicate is
skipped, Move hashes the file again and fails the candidate if it changed, Copy
and Reference do not, and a missing file stops the whole commit after the files
before it were copied. The seal that follows (`AfterRefresh`) may fail for any
asset. `load_import_sessions` gives candidates back by name, whatever folder they
are in; since the loop decides which of two equal files is the duplicate, that
order is kept (`NameOrder`). A candidate's size, kind and metadata are left out;
`collect_media_files` is a set of paths.

### FileTree

`tree` and `treeRows` are the entries, assets, owners, blob rows and upload receipts
in memory and in the database; `inQuarantine` is what a start could not place and
no repair has placed since. `StartTree` is the first start on a library and every
later one; nothing is served before. Each handler first runs `Prepared` (the refresh of blob rows and
`ensure_file_namespace_defaults`, which makes missing roots and entries), then is
refused with that done in memory, or changes the tree and saves.
`target_vault_for_asset` decides by unanimous evidence; an asset of which nothing
is known goes to the only vault when there is only one, and nowhere otherwise.
`TreeInit` takes every library from before assets had an owner: one asset, any
blob rows, receipts and entries (none, one vault or both), with and without parents. An asset can be imported into a second vault
only through this evidence, which is where the hard cases come from.

`LiveByGrant` allows an entry to become live through a restore, a repair, an import
or upload of its asset into its vault, or where the defaults make an entry that a
receipt of the vault vouches for. It speaks of two more cases that a proof for any
number of vaults and faults has to name and the instance of the run does not reach:
with a single vault the blob row itself is enough (`sole_vault_legacy`), and
a start after a failed save goes back to rows that are older than memory, so that
what was live is to be read there (`Known`). `PlacedByAct` says the same of the
vault of an asset: what names a vault after a step and did not before is its owner
where nothing else was known, a repair, a restore, or that there is no other vault.
An asset that nobody can place, or that two vaults claim, is therefore never given
to one by a refresh, a default, a failed save or a start.

### LibraryViews

`lib` is the library in memory, `store` the database, `readable` the assets whose
plaintext is there, `hidden` a history: what the user asked to hide and was told
so. `derive_places`, `derive_events` (with `cluster_assets`, which splits after eight
hours, or after two where the place changes, and `same_asset_set`, by which titles
and ids survive) are recursive functions, one turn for each label, asset or cluster; the handlers call them where the code does. A save is refused when
two rows share a key (`Fits`), and the orders in which rows come back from the
database are kept, since derivation depends on them. Coordinates are numbers and
the label made from one bears its number. Faces are not modelled: people are
those the user makes, so `rename_person`, `split_person` and `reject_person_match` are
not there.

### QuarantineRepair and Custody

`rows` is what the database says of one asset (owner, record of the quarantine,
blobs, entries, receipts), `store` its files and the quarantine keys, `job` how far
the running handler is, `issued` counts ids. The start of the daemon seals an
unresolved original under a key of its own (`StartSeal`), records it, verifies,
removes the plaintext and marks that; `repair_quarantined_original` seals it into
the vault, saves the candidate, verifies, saves the namespace and retires object
and key. Between any two of these steps `RepairCrash` may come; what a repeated
call does (`RepairAgain`, `RepairResume`) depends on what it finds. `TargetVault` is
`target_vault_for_asset`, here of an asset with and without an owner, and with a
vault that no longer exists.

`Custody` says what all of that promises: the bytes can be copied, a place that
has them can become responsible, and a place that is not responsible can let
them go. `Handed` states that `QuarantineRepair` implements it under this mapping:
the custodian is the plaintext while it is whole, the quarantine while the
committed record names an object that can be read, and the owner's vault after
that; the copies are the vaults that hold a sealed blob, the plaintext and any
readable object.

### SyncReceive

`rx[e]` is exchange `e`: entered (validated), measuring, reserved, staging,
publishing, committing. `blobRows` and `blobFiles` are the rows and the chunk files
of one blob, `orphans` staged files nobody owns, `allowed` whether both devices are
still members, `oddities` two situations in which the code has no answer and
the properties are conditional. Free space is measured before it is reserved, in
two steps, as in the code. Chunks are published one by one; the second
validation and the commit are one step under the lock.

### SyncTransfers

| In the model | In the code |
|---|---|
| `mem`, `db` | transfer rows and replica rows of one blob |
| `held` | the devices whose disks have the chunks |
| `runs[r]` | a call of `run_sync`: where it is and the set of jobs it has left |
| `answers` | exchanges that ended and wait for the state lock |
| `disturbed` | whether saves fail and the daemon restarts in this execution |
| `Plan`, `Execute`, `StartReturns`, `StartFails`, `Record`, `Finish` | the locked sections of `run_sync` and `execute_pending_sync_transfers` |
| `PushStored`, `PullStored`, `ExchangeFails` | `send_blob` and `request_blob`, with the answer that may be lost |
| `Retry`, `Cancel`, `Pin`, `Evict`, `Restart` | the handlers of these names, and the start of the daemon |

An exchange is one step, because the runtime's mutex allows one at a time;
answers are recorded in order, because the state lock is fair. The target of a
planned transfer is any peer that qualifies, where `choose_replica_target` ranks
them; that makes the model do more than the code, so its safety results carry
over. Other handlers' refreshes are not modelled here.

### PhoneStorage

| In the model | In the code |
|---|---|
| `pool`, `poolDb` | rows of devices, transfers, replicas and chunks, in memory and as saved |
| `chunkFiles`, `kept[p]` | chunk files on the laptop and on each phone |
| `syncing` | which locked section of `run_sync` comes next |
| `update_mobile_storage_profile` to `restore_mobile_replica_chunk` | the phone's requests, at any time and any number of times |
| `SyncPlans`, `SyncExecutes`, `SyncFinishes` | `run_sync`; a phone has no endpoint, so what is pending for it fails |
| `Lapse`, `LoseChunkFile` | `resumable_until` passes; a chunk file is lost |

The blob has no plaintext on the laptop, so the laptop's replica row says what a
refresh finds: whether all chunk files are there. Rows of transfers are numbered in
the order they were made; a search for the first that fits may find any, since a
restart reads them in another order. The planner's choice of target ignores
preferences and takes devices in the order of enrolment.

### SyncNetwork

A call is a list of operations (ask for a lock, free it, bind, spawn, take,
push, pull, reply), and `lock[d][x]` is the queue of lock `x` on daemon `d`.
tokio's `Mutex` and `RwLock` are fair, so the queue decides who holds the lock:
its first entry, or its leading readers. `Call(kind)` lists what
`mobile_workspace`, `sync_network_status`, `start_sync_network`,
`stop_sync_network`, `sync_network_local_endpoint`, `run_sync` and any handler that
edits under the write lock do; `AcceptPush` and `AcceptPull` what `VaultSyncHandler`
does on the peer. `Fail` and `ServerFails` are error returns, which drop the guards.
`NetInit` lets each runtime be started already; `run_sync` has one job; each caller
has one connection, to the `Target` of its daemon.

### RecoveryKeys

`keychain` holds the credentials of the user, `marker` what the provider directory
says of the vault's key, `lease` the file lock of each credential, `backup` the key a
portable backup wraps, `lib` the libraries of this machine with what their daemon is
doing, `run` the restores. `provision_vault_key_if_new` is `AskForLease`, `Prepare`,
`SaveKey`, `MarkProvider`, `MarkRuntime`, `Seal`, with `Refuse` where it finds traces of an
earlier key. A restore takes the leases in sorted order (`Lock`), installs what is
missing, marks, publishes, or takes back what it installed. `Interrupt` and
`KillRestore` come between any two steps; `LoseKeyStore` is a user who moves to
another machine. One vault at one version and one quarantined object stand for
all: the code treats each credential by itself, and the order of locks is over
the three kinds.

### CatalogEncryption

`db` is the file under the database's name, `staged` the `.ready` copies with their
manifests, `state` the file `encryption_status.json`, `catalogKey` the key under the id
derived from the path, `undo` what a power loss may bring back, `proc` what the
daemon is doing, `env` the bounds and whether synchronising a directory does what
it says. `open_database` is six actions (`OpenAgreeing` to `OpenRefused`), told apart by
the state file and the header; activation is `Promote`, `WriteManifest`, `Swap`,
`SyncDirectory`, `PublishState`, `SyncState`. The data of a catalog is the number of
the save it holds.

### Membership

`mem` and `disk` are the vaults and devices in their order, and the rows of members,
envelopes, invitations and sessions; `archive` is a backup of them; `paired`, `dead`,
`used`, `lost` are histories and bounds. `Touch` is any handler that only fills in
defaults. The order of devices matters: `local_device_id` is the first one that
waits for its key, or else the first that is live. A device that waits is this
machine: an enrolment whose caller gives a public key that begins like that of a
device that waits (9220) is not modelled.

### Migration

`tables` and `copies` are the two tables that version 11 rebuilds, `columns` the
versions whose columns were added, `step` the statement that runs next. Every
statement of `migrate_schema` is an action, since it is durable by itself; only
`MigrateOwners` is one transaction. `Crash` comes between any two of them, and the
next start begins from `schema.sql` again.

### BackupExport

`orig` and `saved` are rows and files of the originals, in memory and in the
database; `root[r]` an exported directory; `export` the export that holds the lock;
`call` the restores, which hold none, all into one new directory `dest`. Ciphertext
is the number of its seal, so that a file of another seal is told from the one
the catalog describes. `LoseFile` and `Damage` are files that vanish.

### Indexing

`index` is photos, index rows, jobs (whose numbers are their order) and logs,
`rebuild[r]` a rebuild with what it has chosen and read. `StartRebuild` picks under the read lock, `ReadPhoto`
reads without one, `FinishRebuild` replaces rows under the write lock: imports,
other rebuilds and restarts come in between.

### Collections

`shelf` and `shelfRows` are flags, tags, albums, saved searches and the feedback
records, in memory and in the database. Every edit is an action that is refused
without a change, or saved together with its record, or leaves memory ahead.
`record_feedback` stores what a client posts as it is: a record of any kind, one of
the service's own included (the run posts a `create` of an album and a `flags` that
nobody made), under the id the client gave it. `Posted` is the set of these records;
a record the service makes has a fresh id (`Drawn`), so the two are told apart by
their ids and not by their kinds, and `RecordsTellAll` plays those of the service
only. A record that is posted twice is in memory twice, and the key of
`feedback_events` then refuses every save until a restart (`ShelfFits`). Records
come back in the order of their times, which for those of the service is taken to
be the order in which it made them: a clock that is set back is not modelled.

## Runs

| Run | Part | Properties | What they say |
|---|---|---|---|
| `upload` | link, pair | `TypeOK` | the type invariant of `MobileUpload` |
| | | `AckedIsDurable` | what a device was told is in the database, across failed saves and restarts |
| | | `BytesAreTheOriginal` | staged bytes are a prefix of what the counter says, and a completed upload is the original |
| | | `OutcomeIsFinal` | nothing leaves Completed or Canceled in the database |
| | | `RevokedOrCanceledIsInert` | a canceled upload and a revoked session move nothing any more |
| `vault_blobs` | repair | `RepairedIsOneVault` | a repair that reports success leaves one owner, one live blob that verifies, one live entry |
| | | `NothingLostOrRehomed` | the plaintext goes only while the recorded object can be read; only a repair changes the vault of an asset |
| | | `Handed` | repair implements `Custody` |
| | receive | `ReceivedWithinLimits` | local rows name files of the sealing they describe; receiving leaves the reserved space |
| | | `CommitsAreAllowed` | nothing commits for a device that was revoked meanwhile, or over another sealing; rows without nonces never replace rows with them |
| | transfers | `RowsTellTheTruth` | a verified replica is stored, and what is in flight is recorded |
| | | `EvictedIsElsewhere` | eviction leaves enough replicas, with calls that overlap, lost answers, failed saves |
| | phones | `PhonesAreTrue` | a replica that counts is on its phone, what the laptop gave up is on enough of them, a dead assignment comes back by a retry only |
| `desktop_sync` | alone | `CompletedStaysAlone`, `RunningEnds` | one run at a time leaves completed transfers alone and ends every running one |
| | locks | `EveryCallReturns` | calls on two daemons that push to and pull from each other all return |
| `vault_keys` | keys | `PublishedHasItsKeys`, `KeysAnswerForCiphertext` | a published library finds its keys; a key is not replaced and not made anew while ciphertext exists |
| | | `RefusalMeansLoss` | no failure in between leaves a vault for which no key can be made |
| | | `RestoreEnds` | two restores of the same keys both end |
| | catalog | `KeyKept`, `OpensWhatWasSaved` | no key is replaced that a copy needs; what is opened is what was saved last, in the declared form |
| | | `CatalogServesAgain` | after finitely many faults the daemon serves again, but for the states named by `Undecided` |
| `members` | members | `RevokedHasNothing`, `TokensEnd`, `OnlyThisMachineByDefault` | a revoked device has no live membership, key reference or session; a token pairs once and an ended one opens nothing, a restored backup included; defaults promote nobody else |
| | locks | `RuntimeIsHeld` | a runtime in use is neither taken nor replaced |
| | update | `ServedIsWhole` | what is served after an update has the schema, owners and blob rows it should |
| | backup | `BackupsStayTrue`, `RestoredIsUsable` | a manifest describes its directory for good; a restored directory is one backup, with its keys |
| | index | `IndexIsConsistent` | one result per photo and kind; the history of jobs has no gaps |
| | shelf | `AlbumsAgree` | covers and members agree, and the records of the service tell all changes, whatever clients post |
| `library` | originals | `AckedImportHeld`, `VerifiedReplicaReadable`, `OriginalsGoSafely` | an acknowledged original stays readable, counted replicas can be decrypted, no readable copy goes too early |
| | imports | `ImportsAddUp`, `MovedAsNamed` | no content twice in a vault, sessions account for their selection; a moved file is what its checksum names |
| | tree | `TreeShowsTheLibrary` | what is shown can be reached from its root, no file becomes live by itself, and no asset gets a vault by itself |
| | views | `ViewsAreSound`, `CorrectionsLast` | views point at what exists and show nothing hidden; titles and ids outlive derivations and restarts |
| `upload_dedup` | | `DedupesByChecksum` (violated) | two assets of one content in one vault |
| `original_evict` | | `EvictedIsProtected` (violated) | replicas of an earlier ciphertext protect an eviction |
| `original_move` | | `FailureKeepsTheOriginal` (violated) | a Move import followed by a failed save and a restart loses the original |
| `net_circular` | | `NoCircularWait` (violated) | a status request and a start block each other |
| `migration` | | `MigrationIsAdditive` (violated) | a crash between drop and rename loses a table's rows |
| `imports` | | `ImportedAsNamed` (violated) | a file written between scan and commit is acknowledged under a checksum it does not have |

### Bounds, and why they are enough

- **upload**: an original of two units in chunks of up to two gives a first and a
  last chunk, the exact last chunk again, overlaps, gaps, writes cut short and the
  whole body; two sessions give a refresh in the middle of an upload, two uploads
  are the least for a duplicate.
- **vault_blobs**: two live vaults and one that is gone, because evidence may name
  both kinds; three blobs and two quarantine objects let a repair fail once and be
  repeated. Two exchanges of a blob of two chunks in two sealings are the least for
  rows and files of different sealings; a capacity of seven with one unit reserved
  lets two exchanges fit alone and not together. Two runs with two transfers are
  the least for one run taking what another works on. Two phones that are both wanted,
  two chunks and two assignments let one phone have a part while the other has all,
  and each phone's assignment fail and be retried.
- **desktop_sync**: the third transfer lets a run have a queue that fails half
  way. Two callers are the least for a cycle over two daemons; a third adds
  entries behind the same two holders.
- **vault_keys**: two destinations and two restores that want the same three
  credentials, three keys (the old one, a new one, one too many), two errors;
  two catalog keys and three saves tell a stale copy from a current one, three
  faults are a power loss during the recovery from a kill during an activation.
- **members**: three devices (this machine, a phone, one more) and two vaults, one
  token and two bearer tokens, altogether `MaxMade`; one lost save, one backup. Old
  versions 5, 10, 12 and 23 are one of each range that the migrations tell apart; two
  crashes, so that a start that cleans up may be interrupted too. Two originals,
  directories and restores, two seals and one fault. Two photos and two rebuilds.
  Two albums, two assets and one that does not exist, three changes.
- **library**: one desktop and one phone, two generations, which are the least for
  a replica that is out of date. Two files with two contents, three calls and one
  edit: a scan, an edit and two commits, or two scans and a direct import. Two
  vaults, one asset of an old library and one that is imported. Hours 1, 6 and 11:
  the middle one is within eight hours of both others, which are not of each other.

At the bound of a counter an action is refused that the code refuses or leaves
out at other times too (a seal that fails, a transfer that is not planned, a call
nobody makes). Some symmetric executions are left out by hand, where identifiers
are numbers and SYMMETRY does not apply: `FirstCallFirst`, `FirstVaultFirst`,
`FirstFolderFirst`, `FirstRootFirst`, `ExchangesInOrder`, `PhonesInOrder` (of things that are
alike, the first is used first), `RepairMakesLastBlob` (a blob from a peer comes early),
`OneReadsText` and `CallersDiffer` (of two alike callers one is of a certain kind),
`OneScanMode` (the mode of a scan is overwritten by that of its commit). `EffectiveTreeCall`,
`EffectiveViewCall`, `EffectiveImport` and `EffectiveChange` leave out calls that change
nothing but their count. In
`vault_blobs` the live vaults are a symmetry set; its properties are invariants and
action properties, so that is sound.

Deadlock is checked in `upload` and in `desktop_sync`. The other passing runs stop where
the counters of a part are used up, and in `members` the calls that block each other
stop a daemon for good, which is what `net_circular` shows.

### Fairness

Four modules promise that something happens.

- `SyncTransfers` assumes weak fairness of the steps of a `run_sync` call and of
  `Record`: the call is a task of the runtime, an exchange ends by an answer or an
  error, and the state lock is fair. Nobody is assumed to call anything. An
  exchange with a peer that neither answers nor closes the connection is outside
  the model.
- `SyncNetwork` assumes weak fairness of each caller's and each server's next
  operation. Failures are not fair: no wait may depend on one, except that a
  peer that is not started is noticed. With tokio's fair locks no strong fairness
  is needed.
- `RecoveryKeys` assumes weak fairness of the steps of a call and of a restore,
  and strong fairness of `Lock`: the file lock of the operating system is not a
  queue, but it is granted to somebody who waits whenever it is free, and a waiter
  is not passed over for ever. Failures are not fair.
- `CatalogEncryption` assumes weak fairness of `Continue`: a handler that was entered
  runs on, and somebody starts the daemon again. Kills and power losses are bounded.

The other modules have no fairness and no liveness property: a device or a user may
stop calling, and nothing in the daemon goes on without them.

## Findings

The documents and comments that the runs contradict are quoted in `PROJECT.json`.

1. **`upload_dedup`.** The duplicate test at completion (1099) wants chunk files
   and an entry outside the trash. An original that is uploaded again while its
   first copy is in the trash, or was never sealed, gets a second asset with the
   same vault and content hash; from then on every save fails on the unique
   index until the daemon restarts. `docs/architecture.md:330` says completion
   dedupes by checksum, and the import path has a test (18940) that importing
   again after the trash does not hit that index.
2. **`original_move`.** A Move import under the encrypted-only policy renames the
   source into the library, seals it, removes it and saves last (8628). A failed
   save followed by a restart, or a crash, leaves ciphertext without rows.
   `docs/architecture/adr-vault-membership.md:38` says a failure to persist must
   not discard the only recoverable source.
3. **`original_evict`.** `evict_local_asset` refreshes first (9741). If a chunk
   file was lost, that seals the original anew, replicas of the earlier
   ciphertext still count, and the plaintext and the only readable chunk go.
   `docs/product-goal-4000.md:26` says that only protected files are evicted.
4. **`net_circular`** (a bug). `sync_network_status` (3067) awaits the runtime's mutex
   with the state lock in hand; `SyncRuntime::start` and a pull await the state
   lock with the mutex in hand. The two block for good and every later request
   queues behind the writer. `EveryCallReturns` shows that the exchanges between
   daemons are free of this as long as no call takes the locks in that order.
5. **`migration`.** `relax_remote_storage_foreign_keys` (`storage.rs:461`) copies
   `blob_records`, drops it and renames the copy, each statement durable by
   itself. After a crash between the last two, the next start creates the table
   empty and drops the copy as a leftover. `docs/FOUNDATION_HARDENING.md:7` promises
   additive migrations. A library with chunk rows is then refused at every start,
   by the foreign-key check of version 24; the same pattern over `sync_transfers`
   loses the transfers without a word. `ServedIsWhole` shows what is left of the
   promise: a store that is served has all its blob rows.
6. **`imports`** (a bug). A Copy or Reference import takes the checksum of the scan
   for what it copies later (4060). Move tests just that. The asset, its seal
   and its replicas then carry a checksum that they do not have, which
   `docs/production-slo-sli.md:37` rules out.

### Behaviour the models contain that no property states

These were met while modelling. A property would either restate what the code
does or contradict no document; `hazards` names the steps of those that matter most.

- *Uploads, imports.* After a restart a transfer stays Running until it is canceled
  by hand (3410). A sidecar that cannot be moved after its original (12240) leaves
  the original in the library without a row (`stuck`). A missing file stops a Copy
  commit after the files before it were copied. A committed session can be
  committed again. A commit after a failed seal reports a duplicate (4142), and a
  plaintext that cannot be removed is not reported (8633).
- *Sync.* With two runs at a time, cancel and retry during an exchange let the
  second one overwrite Completed by Failed; `RowsTellTheTruth` and
  `EvictedIsElsewhere` hold nevertheless, since the table then counts too few
  replicas, never too many. `stop` gives its mutex back before the router is down
  (`sync_transport.rs:220`). What was evicted because a phone has it cannot be
  restored from that phone (1634).
- *Receive.* A pull that was published before an eviction commits after it, and the
  rows name files that are gone (`oddities`, "overlap"). A chunk left over from one
  sealing makes every other sealing of that blob refused. Free space is stale
  when another exchange fails after it published a part ("unmeasured").
- *Quarantine.* A repair that failed after its save can leave a state in which every
  retry is refused, although `docs/architecture/adr-quarantine-recovery.md:88-95` and
  the comment in `finish_quarantine_repair` speak of retrying.
- *Keys.* A desktop that pulled chunks before its own first seal can never make its
  key (`vault_store.rs:460`). A failed restore leaves the provider marker at
  Initialized. Provisioning takes a key that is in the store without trying it.
- *Catalog.* With the name gone and no copy, or more than one, no start can decide
  (`Undecided`).
- *Membership.* `revoke_device` accepts this machine (2943); the first device that is
  left is then taken for it and made an administrator, which is why
  `OnlyThisMachineByDefault` is conditional. After the reply of a refresh is lost (651)
  the phone has to pair again.
- *Backup.* An original that was evicted under the keep-plaintext policy, or a
  reference whose source is gone, makes every export fail (6193), although
  `docs/architecture.md:324` speaks of the originals that are available. An original
  whose seal failed is in no backup (9828). After a failed save an export takes its
  snapshot of the catalog from a database that is behind (`unsaved`). A restore of
  an unencrypted catalog that fails leaves a part, and the next plan refuses the
  directory for it.
- *File tree.* Restoring an entry that a repair trashed in another vault makes the
  asset contested, and it is shown in neither (2074). Restore and import do not
  test whether a name is taken (7329). In a library of several vaults a failed
  strict seal of an upload leaves its asset without an entry (7150).
- *Views.* `correct_place` to the label of another place changes memory and then
  answers that there is no such place (5407). The redaction of a hidden position
  in the history goes by place and misses earlier corrections (5357). Derived
  events lose their links to people until people change next. `rebuild_metadata`
  overwrites the metadata of an asset with what it reads, also where the plaintext is
absent and it reads nothing; of the dates it then keeps `captured_at` (4391).
- *Index.* A forced rebuild removes rows of assets it could not read; of two that
  overlap the older scan may be written last. `retry_job` queues a job nothing runs.
- *Albums.* The order of albums in memory differs from the one after a restart.
  A feedback event that a client sends again makes every save fail until a restart,
  and what was edited in between is lost (5464).

## Proofs

Each theorem is proved for every value of the constants that the `Assumption` of
its module admits: any number of uploads, exchanges, transfers, phones, vaults,
devices, restores, and any bounds. What the assumptions ask is what makes the
constants mean something (finite sets, disjoint names, bounds that are numbers);
`NoneIsNoUpload` says that `None` is no upload record. The invariants below were
checked with TLC on the instances of the runs before they were proved, what they
say exists in a form that can be evaluated: no entry is above itself for `Ranked`, the
library that the rows load as for *some* library whose rows they are.

Nearly every argument has one of two shapes. Where saves may fail, what is
invariant is said of *a library* and holds of the one in memory and of the one in
the database, together with a relation that says in which direction they drift
apart; a restart then costs nothing. Where calls overlap, the invariant says for
each step of a call what the steps before it made sure of, and that nobody else
can take it away.

### MobileUploadProofs

| Theorem | Says |
|---|---|
| `Invariance`, `TypeCorrect` | the inductive invariant; `Spec => []TypeOK` |
| `RepliesAreDurable` | `Spec => []AckedIsDurable` |
| `OutcomesAreFinal` | `Spec => OutcomeIsFinal` |
| `ContentInvariance`, `UploadedIsTheOriginal` | the second invariant; `Spec => []BytesAreTheOriginal` |
| `RevokedUploadsAreInert` | `Spec => RevokedOrCanceledIsInert` |

`AckedIsDurable` is not inductive: it speaks of the database, while handlers work
on a memory that is ahead of it after a failed save, and the next save writes
that memory over what was promised. The invariant has two facts more:

    IInv == /\ TypeOK
            /\ Behind(db, mem)
            /\ MatchesReply(lock, mem)
            /\ \A r \in acked : MatchesReply(r, db)

`Behind(m, n)` says that `n` keeps everything `m` promised: no upload vanishes,
none leaves Completed or Canceled, no revoked session comes back. It is a
preorder (`BehindRefl`, `BehindTrans`), and what a reply says stays true along it
(`ReplyMonotonic`). Each handler has a lemma (`ReserveStep` to `SetTrashedStep`)
that it takes memory forward along `Behind` and leaves a reply that is true of
the new memory (`HandlerStep`); completion, which two handlers share, has its
lemma once (`CompletionStep`). Then a save writes a memory that is not behind the
database, a failed save drops the reply, and a restart sets memory to the
database; each preserves the invariant in a few lines. `OutcomesAreFinal` is the
second conjunct seen from the step that saves.

The bytes need a second invariant beside it. `ContentInv` says that what is staged
is a beginning of the original, that in memory and in the database a completed
upload names a sealed asset with all of it (`Delivered`), and that the sessions
uploads are bound to and the imported assets never leave memory before the
database (`BoundAlike`, `KeepsAssets`). The last two are why a revocation or a
cancellation that was saved stays in force: the handler reads memory, and memory
knows it too.

### QuarantineRepairProofs

`RepairInvariance`, `RepairTypes`, `RepairedLeavesOneVault` (`RepairedIsOneVault`),
`NoSourceLost` and `RepairMovesOnlyWhatItWasAsked` (`NothingLostOrRehomed`), and
`RepairImplementsCustody`: the specification implements `Custody` under the mapping of
`QuarantineRepair` (the property `Handed`), initial states to initial states and
every step to a step of `Custody` or a stutter.

`RepairInv` is the types, `FreshIds` (ids of blobs are handed out once), `Keeper`
(while a record names a quarantine object, it can be read or the owner has the
bytes; without a record the source is whole or the owner has them), `Stage` and
`RepairedIsOneVault`. The last alone is not inductive: the answer is given after five
durable steps, and only `Stage` says what each of them left for the next (the
resealed blob is on the disk and in no row, then live and verified, then alone).
A crash takes the stage away and leaves `Keeper`.

### SyncProofs

*SyncReceive:* `ReceiveInvariance`, `ReceivedStaysWithinLimits` (`ReceivedWithinLimits`) and
`CommitsStayAllowed` (`CommitsAreAllowed`). `ReceiveInv` has the types, `Stages` (how far an
exchange has come), `RowsAreOwn`, `Readable` and `Room`. `Readable` adds to the
property what an exchange has published and not yet committed: it stays of its
sealing to the end, since files are never replaced. `Room` counts what exchanges
*claim*, from the reservation on, and says of a measurement that is not yet compared
by how much it may be too high; without that, two exchanges that measured before
either reserved would seem to exceed the limit. Both are stated for states
without the two oddities the model names (`overlap`, `unmeasured`), as the property is.

*SyncNetwork:* `NetInvariance`, `RuntimeStaysHeld` (`RuntimeIsHeld`). A call is the list of what it has
still to do, and `NetInv` says of every list that whoever will bind, place or take the
runtime asks for `active` before, and has not freed it again, or has asked for it
already (`Script`). That is shown once for each list of a handler, of the peer's answer
and of an error return, and kept when the head of a list is done or `start` skips what
is there. `active` is asked for exclusively, so whoever may go on and changes the
runtime is at the head of its queue, and no other call holds it.

*SyncTransfers:* `TransfersInvariance`, `RowsAreTrue` (`RowsTellTheTruth`), `EvictedStaysElsewhere`
(`EvictedIsElsewhere`), `CompletedIsFinal` (`CompletedStaysAlone`). `TransfersInv` is `Table` (a verified replica names a row to its
peer, memory knows every row of the database, and a verified replica in either is
stored), `Calls` and the property. `Calls` is what the property lacks: an answer that
waits belongs to a call that waits for it, there is one per call, and a good one
comes from a target that has the chunks. So a late answer is never recorded for a
transfer it does not answer. There is no bound on calls of `run_sync` that overlap.
`CompletedIsFinal` is about the executions in which they do not overlap: then a row a call
has taken is completed already only if it is the one whose good answer waits
(`Unfinished`), so neither the answer nor a new plan takes it out of Completed. With two
calls it is false: a transfer that is canceled and retried during its exchange is taken
by the second run, whose failure overwrites Completed.

*PhoneStorage:* `PhonesInvariance`, `PhonesTypes`, `PhonesTellTheTruth` (`PhonesAreTrue`).
`PhonesInv` is the types, `Honest` of the rows in memory and of those in the
database (a Healthy replica has a Completed row to an enrolled phone that has all
chunks), and enough phones with all chunks once the laptop gave up its own.

### LibraryProofs

*OriginalStore:* `StoreInvariance`, `StoreTypes`, `AcknowledgedIsHeld` (`AckedImportHeld`), `CountedIsReadable`
(`VerifiedReplicaReadable`), `OriginalsLeaveSafely` (`OriginalsGoSafely`). `StoreInv` is the
types and, as long as no chunk file was lost, `Agree(mem, db, disk)` and
`PromisesAreSealed`. `Agree` says that rows not yet saved are of the last seal, that
once rows are saved memory and database name one sealing for good, and that
whatever peers store, pull or push is of that sealing. It is why the loss of a
file must be left out: a new seal after it gives memory a generation that the
peers do not have, which is the finding of `original_evict`.

*ImportSessions:* `ImportInvariance`, `ImportsAlwaysAddUp` (`ImportsAddUp`), `MovedStaysAsNamed`
(`MovedAsNamed`). A commit is a loop over the candidates of its session, in the model a
recursive function of how many are done (`AfterCandidates`). What one candidate does
to the lists of the answer, to the files and to the new assets is a lemma; what the
whole commit does follows by induction over its turns. `ImportInv` says of both
libraries that identities are unique and lie below the number of names taken, that
each session accounts for its candidates (`SessionSound`), and that a moved file is in
the library's file of that name (`Filed`). It also says that a number names the same
asset in memory and in the database but for its seal: otherwise a restart after a
failed save could give a session of the database an asset of another content.

### VaultKeysProofs

*RecoveryKeys:* `KeysInvariance`, `PublishedOpens` (`PublishedHasItsKeys`), `RefusalIsJustified`
(`RefusalMeansLoss`), `KeysAreKept` (`KeysAnswerForCiphertext`). `KeysInv` says that whoever
writes a credential has its lease (`HasItsLeases`, `SoundDaemon`), that what a restore
installed or found is there until it gives the lease back (`StillThere`), that it has
no claim on a key of a published library (`NotOwned`), that ciphertext has the
provider's marker beside it, and that a vault without key, loss or restore was
never begun (`NeverBegun`). The properties are about published libraries; the steps
that could break them are those of a restore that rolls back, and only the leases
say that what it takes back is its own.

*CatalogEncryption:* `CatalogInvariance`, `KeyIsKept` (`KeyKept`), `OpenedIsWhatWasSaved`
(`OpensWhatWasSaved`). `CatalogInv` is the types, `KeyKept`, `InStep` (what the daemon knows at
each step of opening and activation), the bounds, and what a power loss may
undo: an encrypted file that a rename put there stays, and after a barrier a lost
name leaves a verified copy (`Promised`).

### MembersProofs

*Membership:* `MembershipInvariance`, `TheRevokedHaveNothing` (`RevokedHasNothing`), `TokensComeToAnEnd`
(`TokensEnd`), `ThisMachineIsTheDefault` (`OnlyThisMachineByDefault`). `MembershipInv` says
`SoundLibrary` of three libraries: memory, database and the archive of a backup, which is
older than both and comes back by a restore. `SoundLibrary` has, beside the three
properties, that identities were handed out once and that this machine is the
first device that is enrolled, since the defaults that nearly every handler begins
with take the first. What was answered as ended (`dead`, `paired`) is ended in memory
and in the database. That there is
a first one is the least number of a set (`LeastOf`).

*Migration:* `UpdatedIsWhole` (`ServedIsWhole`). `MigrationInv` says that the blob table and its
copy have all of the old rows, none, or do not exist (`Whole`), what the steps
before the present one have done (`Ordered`), and that a database with the new
version has everything. A crash before the version is recorded leaves `Whole` and
loses the step, so the next start may find anything `Ordered` allows at `open`.

*BackupExport:* `BackupInvariance`, `ExportsStayTrue` (`BackupsStayTrue`), `RestoresAreWhole`
(`RestoredIsUsable`). `BackupInv` has one half for exports (the export that has the lock
copies what it listed, and its directory has a snapshot and no manifest until it
ends) and one for restores (of all restores under way, one at most has passed the
check of the destination, and what it has copied is what it no longer has to).

*Indexing:* `IndexInvariance`, `ResultsAreOfOneRun` (the rows), `HistoryStaysWhole` (the
jobs), and of both `IndexStaysConsistent` (`IndexIsConsistent`). `IndexInv` adds to the
property that what a rebuild has scanned is of the library it will be written to: photos
go at a restart only, which ends the rebuilds. `HistoryInv` says that memory carries
every job of the database, with the same outcome once it has one, so a job that a start
leaves out is what memory said it was. Of the completed imports that are left out the
newest has `MaxKept` completed imports after it, all of which stay; that there is a
newest is again the least number of a set.

### GalleryProofs

*Collections:* `ShelfInvariance` and `AlbumsAlwaysAgree` (`AlbumsAgree`). `ShelfInv` says of the
shelf in memory that its albums have their assets once and a cover of their own
and that it is what its records tell, and that the rows of the database are those of
some such shelf, which need not be an earlier state of this one. Its records are
those of the service and posted ones, which change nothing whatever they claim
(`PostedKeeps`). Each edit has a lemma that what it does to the shelf is what its
record does to the story (`RetoldAlbums` for the albums). Two facts carry the rest: a
story with one record more is played by playing that record last (`PlayedOneMore`), and what was saved is
loaded again as it was (`LoadedIsSaved`), which holds because positions in a saved
album are its positions in memory.

*FileTree:* `TreeInvariance`, `WhatIsShownHangsTogether` (`ShownIsReachable`), `NothingComesBackByItself`
(`LiveByGrant`), `NothingIsPlacedByItself` (`PlacedByAct`), and the three as `TreeAlwaysShows`
(`TreeShowsTheLibrary`). `TreeInv` says
`TreeSound` of the tree in memory and of the rows: each entry but a root hangs on a
folder of its own vault that is live when the entry is (`Linked`), and what is known
of assets is of assets that are there. That alone does not keep two folders from
hanging on each other. `Ranked` does: some number falls from every entry to its parent.
The code keeps no such number, it exists. A move makes a new one,
which adds the new parent's number and one to the folder and all below it, and it can
because the new parent is not below the folder (`Below`). From it follows that the climb of
`ancestor_file_entry_ids`, cut off after as many rounds as there are entries, has
reached the root by then: each round that is not the last adds an entry, and there
are no more than that. For `LiveByGrant` each call shows what the entries it made
live are granted by; the defaults change no mark, so only what they make anew has
to be vouched for (`Vouched`). For `PlacedByAct` it is enough that they add evidence only
for an asset that has exactly one target, and there (`PlacedFrom`); if nothing was known
of the asset, that is its owner or the only vault.

*LibraryViews:* `ViewsInvariance`, `ViewsStaySound` (`ViewsAreSound`), `CorrectionsOutlive`
(`CorrectionsLast`). `ViewsInv` says of the library in memory that it is `Derived`: each place is
of all assets that bear its label and has their visible positions (`PlacesTold`), the events are the
clusters of the assets (`EventsTold`), identities are unique, and no asset bears the label
of its hidden position (`HiddenSettled`). The database has the rows of *some* derived
library, with everything hidden that a reply called hidden. The properties follow
from it and do not imply it: that a place has *all* assets of its label is what makes
a rebuild after a start find the same places. The argument has three layers. What one turn of a
derivation appends (`PlaceOf`, `Gathered`, `EventOf`) is a lemma, and what the whole derivation
gives an induction over its turns: a label or cluster that was there keeps its id, and
a title stays with its assets. What loading makes of saved rows is the library again but for the
order of the places and of the assets in an event, neither of which a derivation
depends on; one that is due at the start then finds what was saved but for the links
to people. Then each handler: most derive everything from what they changed,
the others (titles, people) change what no derivation depends on.

### SortingProofs

The induction that the other modules use. The library's induction theorems take an
operator as a parameter, which the provers cannot instantiate; `TurnByTurn` says the same of a
set: a set that has 0 and with each number the next has all numbers. It follows from
the least number of a set (`LeastOf`), and that from the standard theorem that the
numbers are well-founded. A statement about all loops, lists or stories is
proved of the set of the lengths for which it holds. `SortedIsComplete` is such a
statement: a set has a list in the order of its numbers, and that list has each element once.

### What is only model-checked

- Liveness under fairness (`RunningEnds`, `EveryCallReturns`, `RestoreEnds`,
  `CatalogServesAgain`), which the proof system has no rules for here.
- The properties of the six runs that expect a violation: they are false.

Every invariant and every action property (`[][A]_vars`) of the passing runs is a
theorem, for any `MaxTreeCalls` and the like where a run has a small number.

## Not modelled

- The model registry, the ML sidecar, previews and thumbnails, and the HTTP layer:
  downloads, subprocesses, rendering and routing around the handlers, with no
  state of their own that others decide on.
- Ciphers, encodings, file formats, and the cryptography of the recovery bundle.
- What a model sees in a picture, the ranking of search results and of replica
  targets, similarity of duplicates, faces, the queries of smart folders.
- Capacities of phones, which are one answer of the policy (`paused`); watch folders
  and the rules of a scan on names and kinds; expiry of pairing tokens.
- Refreshes of several originals at a time: a failure at one of them is an outcome
  of the refresh of another in `ImportSessions` and `BackupExport` only.
- Migrations that only add columns are one action each way (`AddColumns`,
  `AddLateColumns`). Partial leftovers of an encryption step inside SQLCipher.
- Timeouts of the network stack; the retry loop of the Flutter client, beyond
  that `MobileUpload` lets a device send anything at any time.

## Plan

No safety property of the runs is left to prove. What the models could
still take in: refreshes of several originals of which one fails, the capacities of
phones, pairing tokens that expire. What the proofs could: one machine for
`OriginalStore` and `SyncTransfers`, which now meet in the names they share, so that
a row that counts a replica and the bytes it counts are of one theorem.
