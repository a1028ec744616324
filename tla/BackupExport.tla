---------------------------- MODULE BackupExport ----------------------------
(***************************************************************************)
(* Export of a backup and its restore, as far as files go (export_backup,  *)
(* verify_backup, plan_restore_backup and run_restore_backup, service.rs;  *)
(* snapshot_database, security.rs).  The keys a portable restore installs  *)
(* are in RecoveryKeys.                                                    *)
(*                                                                         *)
(* An export holds the write lock of the library throughout, so only a     *)
(* failure, a crash or the disk comes between its steps.  A restore holds  *)
(* no lock: it runs beside exports, other restores and whoever changes the *)
(* directory it reads.                                                     *)
(*                                                                         *)
(* The ciphertext of an original is the number of the seal that made it, 0 *)
(* for none: every seal takes a new nonce, so two seals differ.            *)
(***************************************************************************)
EXTENDS Naturals, FiniteSets

CONSTANTS
    Originals,
    Roots,      \* directories a backup is exported to
    Restores,   \* calls of run_restore_backup, all into one new directory
    MaxSeals,   \* bound: seals of one original
    MaxFaults   \* bound: failures, crashes and damaged files

ASSUME BackupAssumption ==
    IsFiniteSet(Originals) /\ MaxSeals \in Nat /\ MaxFaults \in Nat

VARIABLES
    orig,       \* the originals: rows in memory, and files
    saved,      \* the rows in the database
    policy,     \* the original storage policy
    root,       \* the exported directories
    export,     \* the export that holds the lock
    dest,       \* the directory to restore to; `of` is history, the backup reported
    call,       \* the restores
    faults,     \* bound: faults so far
    hurt        \* history: roots somebody removed a file from

backupVars == <<orig, saved, policy, root, export, dest, call, faults, hurt>>

Seals == 0..MaxSeals
Original == [managed : BOOLEAN, plain : BOOLEAN, rows : Seals, local : BOOLEAN, disk : Seals]
Entry == [of : Originals, seal : Seals]     \* seal 0: the original itself

\* A file that may be missing is a set with its content, or the empty set.
The(file) == CHOOSE content \in file : TRUE
Nothing == [files |-> {}, db |-> {}, manifest |-> {}]
Empty == [files |-> {}, db |-> {}, report |-> "none", of |-> {}]

Rows(of) == [o \in Originals |-> [rows |-> of[o].rows, local |-> of[o].local]]

Idle == [at |-> "idle"]

BackupInit ==
    /\ policy \in {"encrypted", "plain"}
    /\ orig \in [Originals -> [managed : BOOLEAN, plain : {TRUE}, rows : {0},
                               local : {FALSE}, disk : {0}]]
    /\ saved = Rows(orig)
    /\ root = [r \in Roots |-> Nothing]
    /\ export = Idle
    /\ dest = Empty
    /\ call = [x \in Restores |-> Idle]
    /\ faults = 0 /\ hurt = {}

Fault == faults < MaxFaults /\ faults' = faults + 1

-----------------------------------------------------------------------------
\* The refresh that every export starts with: what has no complete ciphertext
\* is sealed while its source can be read.  A seal that fails is passed over.

NeedsSeal(o) ==
    /\ orig[o].plain /\ orig[o].rows < MaxSeals /\ orig[o].disk < MaxSeals
    /\ orig[o].rows = 0 \/ ~orig[o].local \/ orig[o].disk = 0

NewSeal(o) == 1 + IF orig[o].disk > orig[o].rows THEN orig[o].disk ELSE orig[o].rows
Sealed(o) ==
    [orig[o] EXCEPT !.rows = NewSeal(o), !.local = TRUE, !.disk = NewSeal(o),
                    !.plain = policy = "plain" \/ ~orig[o].managed]

Refreshed(bad) == [o \in Originals |-> IF NeedsSeal(o) /\ o \notin bad THEN Sealed(o) ELSE orig[o]]

\* Another handler that refreshes and saves, of the user or of a timer.
Refresh ==
    /\ export.at = "idle"
    /\ \E bad \in SUBSET {o \in Originals : NeedsSeal(o)} :
         /\ IF bad = {} THEN faults' = faults ELSE Fault
         /\ orig' = Refreshed(bad) /\ saved' = Rows(orig')
    /\ UNCHANGED <<policy, root, export, dest, call, hurt>>

\* A handler whose save fails leaves memory ahead of the database.
RefreshUnsaved ==
    /\ export.at = "idle" /\ Fault
    /\ orig' = Refreshed({}) /\ orig' # orig
    /\ UNCHANGED <<saved, policy, root, export, dest, call, hurt>>

SetPolicy ==
    /\ export.at = "idle" /\ policy' \in {"encrypted", "plain"} \ {policy}
    /\ orig' = [o \in Originals |->
         [orig[o] EXCEPT !.plain =
            @ /\ ~(policy' = "encrypted" /\ orig[o].managed /\ orig[o].local
                    /\ orig[o].disk = orig[o].rows)]]
    /\ saved' = Rows(orig)
    /\ UNCHANGED <<root, export, dest, call, faults, hurt>>

\* Replicas elsewhere are enough: no local copy stays.
Evict(o) ==
    /\ export.at = "idle" /\ orig[o].managed /\ orig[o].local
    /\ orig' = [orig EXCEPT ![o].plain = FALSE, ![o].local = FALSE, ![o].disk = 0]
    /\ saved' = Rows(orig')
    /\ UNCHANGED <<policy, root, export, dest, call, faults, hurt>>

\* The disk loses ciphertext, or the user moves a referenced file away.
LoseFile(o) ==
    /\ export.at = "idle" /\ Fault
    /\ \/ orig[o].disk > 0 /\ orig' = [orig EXCEPT ![o].disk = 0]
       \/ ~orig[o].managed /\ orig[o].plain /\ orig' = [orig EXCEPT ![o].plain = FALSE]
    /\ UNCHANGED <<saved, policy, root, export, dest, call, hurt>>

\* The process ends: rows are read from the database again, files stay.
Restart ==
    /\ Fault
    /\ orig' = [o \in Originals |->
                  [orig[o] EXCEPT !.rows = saved[o].rows, !.local = saved[o].local]]
    /\ export' = Idle
    /\ call' = [x \in Restores |-> IF call[x].at \in {"idle", "done"} THEN call[x]
                                   ELSE [at |-> "failed"]]
    /\ UNCHANGED <<saved, policy, root, dest, hurt>>

-----------------------------------------------------------------------------
(* Export. *)

\* What the backup consists of.  Under the encrypted-only policy a managed
\* original counts as covered by its ciphertext.
Entries(of) ==
    {[of |-> o, seal |-> 0] : o \in {p \in Originals : policy = "plain" \/ ~of[p].managed}}
    \cup {[of |-> o, seal |-> of[o].rows] : o \in {p \in Originals : of[p].local}}

\* Fault: the inventory is the one from before the refresh.
EntriesBefore(bad) == Entries(orig)
EntriesAfter(bad) == Entries(Refreshed(bad))

\* The save happens only when the refresh changed something.
StartExport(r) ==
    /\ export.at = "idle"
    /\ \E bad \in SUBSET {o \in Originals : NeedsSeal(o)} :
         /\ IF bad = {} THEN faults' = faults ELSE Fault
         /\ orig' = Refreshed(bad)
         /\ saved' = IF orig' = orig THEN saved ELSE Rows(orig')
         /\ export' = [at |-> "snapshot", root |-> r, todo |-> EntriesAfter(bad),
                       files |-> EntriesAfter(bad)]
    /\ UNCHANGED <<policy, root, dest, call, hurt>>

\* A snapshot is never taken over an earlier one, complete or not.
Vacant(r) == root[r].db = {}

TakeSnapshot ==
    /\ export.at = "snapshot" /\ Vacant(export.root)
    /\ root' = [root EXCEPT ![export.root].db = {saved}]
    /\ export' = [export EXCEPT !.at = "copy"]
    /\ UNCHANGED <<orig, saved, policy, dest, call, faults, hurt>>

RefuseExport ==
    /\ export.at = "snapshot" /\ ~Vacant(export.root)
    /\ export' = Idle
    /\ UNCHANGED <<orig, saved, policy, root, dest, call, faults, hurt>>

Readable(e) == IF e.seal = 0 THEN orig[e.of].plain ELSE orig[e.of].disk # 0
Copied(e) == IF e.seal = 0 THEN e ELSE [e EXCEPT !.seal = orig[e.of].disk]
Path(e) == <<e.of, e.seal = 0>>
WithFile(files, e) == {f \in files : Path(f) # Path(e)} \cup {e}

\* The copy is hashed and compared with what the catalog says of the file.
CopyEntry ==
    /\ export.at = "copy"
    /\ \E e \in export.todo :
         /\ Readable(e)
         /\ root' = [root EXCEPT ![export.root].files = WithFile(@, Copied(e))]
         /\ export' = IF Copied(e) = e THEN [export EXCEPT !.todo = @ \ {e}] ELSE Idle
    /\ UNCHANGED <<orig, saved, policy, dest, call, faults, hurt>>

MissingEntry ==
    /\ export.at = "copy"
    /\ root[export.root].db = {} \/ \E e \in export.todo : ~Readable(e)
    /\ export' = Idle
    /\ UNCHANGED <<orig, saved, policy, root, dest, call, faults, hurt>>

\* Local ciphertext needs its key, and a manifest of format 3.
Encrypted(catalog) == \E o \in Originals : catalog[o].rows > 0
Version == IF \E e \in export.files : e.seal > 0 THEN 3 ELSE 2

\* The originals whose plaintext is there, or whose ciphertext is what the rows say.
verify_backup_locked ==
    {o \in Originals : orig[o].plain \/ (orig[o].local /\ orig[o].disk = orig[o].rows)}

\* `available` is history: what could be read when the backup was made.
WriteManifest ==
    /\ export.at = "copy" /\ export.todo = {} /\ root[export.root].db # {}
    /\ root' = [root EXCEPT ![export.root].manifest =
         {[catalog |-> The(root[export.root].db), files |-> export.files, version |-> Version,
           available |-> verify_backup_locked, unsaved |-> saved # Rows(orig)]}]
    /\ export' = Idle
    /\ UNCHANGED <<orig, saved, policy, dest, call, faults, hurt>>

\* An I/O error, a key that cannot be read, or the end of the process.
StopExport ==
    /\ export.at # "idle" /\ Fault
    /\ export' = Idle
    /\ UNCHANGED <<orig, saved, policy, root, dest, call, hurt>>

Damage(r) ==
    /\ Fault
    /\ \/ \E e \in root[r].files : root' = [root EXCEPT ![r].files = @ \ {e}]
       \/ root[r].db # {} /\ root' = [root EXCEPT ![r].db = {}]
    /\ hurt' = hurt \cup {r}
    /\ UNCHANGED <<orig, saved, policy, export, dest, call>>

-----------------------------------------------------------------------------
(* Restore. *)

Manifest(r) == The(root[r].manifest)

\* Every file is hashed; without a portable format the catalog itself must show
\* that nothing needs a key.
Agrees(r) ==
    /\ root[r].manifest # {}
    /\ root[r].db = {Manifest(r).catalog}
    /\ Manifest(r).files \subseteq root[r].files
NeedsNoKey(manifest) == ~Encrypted(manifest.catalog)
Safe(r) == Agrees(r) /\ (Manifest(r).version = 3 \/ NeedsNoKey(Manifest(r)))

PlanRestore(x, r) ==
    /\ call[x].at = "idle" /\ Safe(r) /\ dest = Empty
    /\ call' = [call EXCEPT ![x] =
         [at |-> IF Manifest(r).version = 3 THEN "stage" ELSE "database",
          root |-> r, manifest |-> Manifest(r), todo |-> Manifest(r).files]]
    /\ UNCHANGED <<orig, saved, policy, root, export, dest, faults, hurt>>

GiveUp(x) == call' = [call EXCEPT ![x] = [at |-> "failed"]]

\* What the call read of the manifest is all it goes by from then on.
HoldsBackup(x) ==
    /\ root[call[x].root].db = {call[x].manifest.catalog}
    /\ call[x].manifest.files \subseteq root[call[x].root].files

\* Format 3: the payload is staged and verified beside the destination, whose
\* name is taken in one step that replaces nothing.
StageAndPublish(x) ==
    /\ call[x].at = "stage"
    /\ IF dest = Empty /\ HoldsBackup(x)
       THEN /\ dest' = [files |-> call[x].manifest.files, report |-> "activated", of |-> {call[x].manifest},
                        db |-> {call[x].manifest.catalog}]
            /\ call' = [call EXCEPT ![x] = [at |-> "done"]]
       ELSE GiveUp(x) /\ UNCHANGED dest
    /\ UNCHANGED <<orig, saved, policy, root, export, faults, hurt>>

\* Formats 1 and 2: file by file into the destination, creating each.

\* Fault: a database that is there already is overwritten.
CopyDatabaseOver(x) ==
    /\ call[x].at = "database"
    /\ IF root[call[x].root].db = {call[x].manifest.catalog}
       THEN /\ dest' = [dest EXCEPT !.db = root[call[x].root].db]
            /\ call' = [call EXCEPT ![x].at = "files"]
       ELSE GiveUp(x) /\ UNCHANGED dest
    /\ UNCHANGED <<orig, saved, policy, root, export, faults, hurt>>

CopyDatabase(x) ==
    /\ call[x].at = "database"
    /\ IF /\ dest.db = {}
          /\ root[call[x].root].db = {call[x].manifest.catalog}
       THEN /\ dest' = [dest EXCEPT !.db = root[call[x].root].db]
            /\ call' = [call EXCEPT ![x].at = "files"]
       ELSE GiveUp(x) /\ UNCHANGED dest
    /\ UNCHANGED <<orig, saved, policy, root, export, faults, hurt>>

CopyFile(x) ==
    /\ call[x].at = "files"
    /\ \E e \in call[x].todo :
         IF e \in root[call[x].root].files /\ Path(e) \notin {Path(f) : f \in dest.files}
         THEN /\ dest' = [dest EXCEPT !.files = @ \cup {e}]
              /\ call' = [call EXCEPT ![x].todo = @ \ {e}]
         ELSE GiveUp(x) /\ UNCHANGED dest
    /\ UNCHANGED <<orig, saved, policy, root, export, faults, hurt>>

Report(x) ==
    /\ call[x].at = "files" /\ call[x].todo = {}
    /\ dest' = [dest EXCEPT !.report = "staged", !.of = {call[x].manifest}]
    /\ call' = [call EXCEPT ![x] = [at |-> "done"]]
    /\ UNCHANGED <<orig, saved, policy, root, export, faults, hurt>>

StopRestore(x) ==
    /\ call[x].at \in {"stage", "database", "files"} /\ Fault
    /\ GiveUp(x)
    /\ UNCHANGED <<orig, saved, policy, root, export, dest, hurt>>

-----------------------------------------------------------------------------
BackupNext ==
    \/ Refresh \/ RefreshUnsaved \/ Restart \/ SetPolicy \/ \E o \in Originals : Evict(o) \/ LoseFile(o)
    \/ \E r \in Roots : StartExport(r) \/ Damage(r)
    \/ TakeSnapshot \/ RefuseExport \/ CopyEntry \/ MissingEntry \/ WriteManifest \/ StopExport
    \/ \E x \in Restores : \/ \E r \in Roots : PlanRestore(x, r)
                           \/ StageAndPublish(x) \/ CopyDatabase(x) \/ CopyFile(x)
                           \/ Report(x) \/ StopRestore(x)

BackupSpec == BackupInit /\ [][BackupNext]_backupVars

-----------------------------------------------------------------------------
\* A manifest stays true of its directory, whatever is exported there later and
\* wherever that stops: the catalog copy and every file are those it lists.
ManifestIsTrue ==
    \A r \in Roots \ hurt : root[r].manifest # {} => Agrees(r)

\* The catalog and the files of a backup are of one moment: every chunk that the
\* catalog says is local is there, in the seal the catalog describes.  Only a save
\* that failed before the export can set the two apart.
CatalogMatchesFiles ==
    \A r \in Roots : \A m \in root[r].manifest :
      m.unsaved \/ \A o \in Originals : m.catalog[o].local =>
                      [of |-> o, seal |-> m.catalog[o].rows] \in m.files

\* What a restore reports done is all of one backup: restores into the same
\* directory do not mix, and one that is damaged meanwhile is not restored.
RestoredIsTheBackup ==
    \A m \in dest.of : dest.db = {m.catalog} /\ dest.files = m.files

\* A catalog with ciphertext is never set down without its keys.
EncryptedComesWithKeys ==
    \A catalog \in dest.db : Encrypted(catalog) => dest.report = "activated"

\* What was exported stays what it says it is: the catalog goes with its files,
\* and no later export touches either.
BackupsStayTrue == CatalogMatchesFiles /\ ManifestIsTrue

\* What a restore sets down is the backup, with the keys it needs.
RestoredIsUsable == RestoredIsTheBackup /\ EncryptedComesWithKeys
=============================================================================
