------------------------- MODULE CatalogEncryption -------------------------
(***************************************************************************)
(* Turning the plaintext catalog into a SQLCipher file, and opening it      *)
(* again after whatever stopped that.  Source: security.rs                  *)
(* (activate_encryption, open_database and the recovery functions) and      *)
(* GalleryService::activate_encryption.                                     *)
(*                                                                          *)
(* Five things are written one after the other: the key in the keychain,    *)
(* the staged copy, its manifest, the database under its own name, and the  *)
(* state file.  Every connection goes through open_database, which decides  *)
(* from the state file and the header of the database what has happened.    *)
(* The service lock is held throughout, so only failures, a killed process  *)
(* and a power loss come in between.                                        *)
(*                                                                          *)
(* A rename may be lost by a power loss until the directory is              *)
(* synchronised: the old file is back, or no file has the name.  `barrier`  *)
(* says whether that call does what it says; if not, the rename may be lost *)
(* at any later time (until Flush).                                         *)
(***************************************************************************)
EXTENDS Integers, FiniteSets

CONSTANTS
    MaxSaves,       \* bound: saves of the library
    MaxCatalogKeys,        \* bound: keys generated
    MaxStages,      \* bound: encrypted copies staged
    MaxFaults       \* bound: failures, kills and power losses

ASSUME CatalogAssumption ==
    /\ MaxSaves \in Nat /\ MaxCatalogKeys \in Nat /\ MaxFaults \in Nat
    /\ MaxStages \in Nat /\ MaxStages > MaxCatalogKeys + MaxFaults

VARIABLES
    db,             \* the file under the database's name
    staged,         \* the .ready copies and their manifests
    state,          \* encryption_status.json
    catalogKey,     \* the key under the id derived from the path, 0 if none
    undo,           \* what a power loss may bring back
    proc,           \* what the daemon is doing
    saves,          \* saves acknowledged so far
    told,           \* the user was told that encryption is active
    env             \* barrier, gap, and the faults, keys and stages used up

catalogVars == <<db, staged, state, catalogKey, undo, proc, saves, told, env>>

-----------------------------------------------------------------------------
(* Data. *)

CatalogKeys == 1 .. MaxCatalogKeys
Database == [kind : {"plain", "encrypted", "missing"}, key : 0 .. MaxCatalogKeys, data : 0 .. MaxSaves]
Stage == [tx : 1 .. MaxStages, key : CatalogKeys, data : 0 .. MaxSaves,
          copy : BOOLEAN, manifest : BOOLEAN]
States == {"none", "torn", "set"}

\* What open_database is called for.
Goals == {"start", "save", "first", "row"}

Steps == {"down", "idle", "opening", "opened", "keyed", "copied", "ready", "renamed",
          "publish", "stated", "cleanup"}

Plain(data) == [kind |-> "plain", key |-> 0, data |-> data]
Missing == [kind |-> "missing", key |-> 0, data |-> 0]
Encrypted(s) == [kind |-> "encrypted", key |-> s.key, data |-> s.data]

Unlocks(d) == d.kind = "encrypted" /\ catalogKey # 0 /\ catalogKey = d.key

\* The staged copy a missing database is restored from: one manifest and one
\* copy, of the same transaction, that the stored key opens.
Restorable ==
    {s \in staged : /\ s.manifest /\ s.copy /\ catalogKey = s.key
                    /\ Cardinality({t \in staged : t.manifest}) = 1
                    /\ Cardinality({t \in staged : t.copy}) = 1}

Go(step) == proc' = [proc EXCEPT !.at = step]
Replacing(s) == proc' = [proc EXCEPT !.at = "ready", !.tx = s.tx]
Idle == [at |-> "idle", goal |-> "start", tx |-> 0]
Down == [at |-> "down", goal |-> "start", tx |-> 0]

Durable(d, s) == [db |-> d, state |-> s]

CatalogInit ==
    /\ \E k \in {0, 1} \cap 0 .. MaxCatalogKeys, kind \in {"plain", "encrypted"} :
        /\ kind = "encrypted" => k # 0
        /\ db = [kind |-> kind, key |-> IF kind = "plain" THEN 0 ELSE k, data |-> 0]
        /\ catalogKey = k
        /\ state \in CASE kind = "encrypted" -> States
                       [] kind = "plain" /\ k # 0 -> {"none", "torn"}
                       [] OTHER -> {"none"}
        /\ env \in [barrier : BOOLEAN, gap : {FALSE}, faults : {0}, keys : {k}, stages : {0}]
    /\ staged = {}
    /\ undo = Durable(db, state)
    /\ proc = Down
    /\ saves = 0
    /\ told = FALSE

-----------------------------------------------------------------------------
(* open_database: one disjunct per combination of state file and database.  *)

\* State and database agree: what is left of a staged copy goes, if anything.
Agrees(d, s) == (s = "set" /\ Unlocks(d)) \/ (s = "none" /\ d.kind = "plain")

OpenAgreeing ==
    /\ proc.at = "opening" /\ Agrees(db, state)
    /\ Go("cleanup")
    /\ UNCHANGED <<db, staged, state, catalogKey, undo, saves, told, env>>

\* Fault: a torn state file is an error over an encrypted database too.
OpenStatelessUntorn ==
    /\ proc.at = "opening" /\ state = "none" /\ Unlocks(db)
    /\ Go("publish")
    /\ UNCHANGED <<db, staged, state, catalogKey, undo, saves, told, env>>

\* recover_interrupted_activation: the swap was done and the state not written.
\* The key is proved before the state is.
OpenStateless ==
    /\ proc.at = "opening" /\ state \in {"none", "torn"} /\ Unlocks(db)
    /\ Go("publish")
    /\ UNCHANGED <<db, staged, state, catalogKey, undo, saves, told, env>>

\* recover_plaintext_database: the state is ahead of the database, or torn
\* over a plaintext one; export it again with the key that is stored.
OpenPlaintext ==
    /\ proc.at = "opening" /\ state \in {"set", "torn"} /\ db.kind = "plain" /\ catalogKey # 0
    /\ Go("keyed")
    /\ UNCHANGED <<db, staged, state, catalogKey, undo, saves, told, env>>

\* recover_missing_database, with the verified copy.
OpenMissing ==
    /\ proc.at = "opening" /\ db.kind = "missing"
    /\ \E s \in Restorable : Replacing(s)
    /\ UNCHANGED <<db, staged, state, catalogKey, undo, saves, told, env>>

\* Without any staged copy and without state, SQLite makes a new database.
OpenFresh ==
    /\ proc.at = "opening" /\ db.kind = "missing" /\ state = "none" /\ staged = {}
    /\ db' = Plain(0) /\ undo' = [undo EXCEPT !.db = Plain(0)]
    /\ Go("opened")
    /\ UNCHANGED <<staged, state, catalogKey, saves, told, env>>

Leave == IF proc.goal = "start" THEN Down ELSE Idle

OpenRefused ==
    /\ proc.at = "opening"
    /\ ~Agrees(db, state)
    /\ ~(state \in {"none", "torn"} /\ Unlocks(db))
    /\ ~(state \in {"set", "torn"} /\ db.kind = "plain" /\ catalogKey # 0)
    /\ ~(db.kind = "missing" /\ (Restorable # {} \/ (state = "none" /\ staged = {})))
    /\ proc' = Leave
    /\ UNCHANGED <<db, staged, state, catalogKey, undo, saves, told, env>>

\* Fault: the staged copy is kept when state and database agree.
CleanupSkipped ==
    /\ proc.at = "cleanup"
    /\ Go("opened")
    /\ UNCHANGED <<db, staged, state, catalogKey, undo, saves, told, env>>

\* remove_recovery_artifacts: copy and manifest go one after the other, then
\* the directory is synchronised.  `gap` records that a copy went while the
\* rename it stands for was still not.
Without(s, copy, manifest) ==
    (staged \ {s}) \cup (IF copy \/ manifest THEN {[s EXCEPT !.copy = copy, !.manifest = manifest]}
                                            ELSE {})

Cleanup ==
    /\ proc.at = "cleanup"
    /\ IF staged = {}
       THEN Go("opened") /\ UNCHANGED <<staged, undo, env>>
       ELSE /\ \E s \in staged :
                 \/ s.copy /\ staged' = Without(s, FALSE, s.manifest)
                 \/ s.manifest /\ staged' = Without(s, s.copy, FALSE)
            /\ env' = [env EXCEPT !.gap = @ \/ undo.db # db]
            /\ undo' \in IF staged' = {} /\ env.barrier THEN {undo, [undo EXCEPT !.db = db]}
                                                        ELSE {undo}
            /\ UNCHANGED proc
    /\ UNCHANGED <<db, state, catalogKey, saves, told>>

-----------------------------------------------------------------------------
(* export_plaintext_to_encrypted, promote_verified_candidate and            *)
(* replace_database_with_encrypted_then, for activation and for recovery.   *)

\* The verified copy gets its final name, then its manifest.
Promote ==
    /\ proc.at = "keyed" /\ db.kind = "plain" /\ env.stages < MaxStages
    /\ staged' = staged \cup {[tx |-> env.stages + 1, key |-> catalogKey, data |-> db.data,
                               copy |-> TRUE, manifest |-> FALSE]}
    /\ env' = [env EXCEPT !.stages = @ + 1]
    /\ Go("copied")
    /\ UNCHANGED <<db, state, catalogKey, undo, saves, told>>

WriteManifest ==
    /\ proc.at = "copied"
    /\ \E s \in staged :
        /\ s.tx = env.stages
        /\ staged' = Without(s, TRUE, TRUE)
        /\ Replacing(s)
    /\ UNCHANGED <<db, state, catalogKey, undo, saves, told, env>>

\* A copy of the staged file takes the name, the staged one stays.
Swap ==
    /\ proc.at = "ready"
    /\ \E s \in {t \in staged : t.tx = proc.tx /\ t.copy} : db' = Encrypted(s)
    /\ Go("renamed")
    /\ UNCHANGED <<staged, state, catalogKey, undo, saves, told, env>>

SyncDirectory ==
    /\ proc.at = "renamed"
    /\ undo' = IF env.barrier THEN [undo EXCEPT !.db = db] ELSE undo
    /\ Go("publish")
    /\ UNCHANGED <<db, staged, state, catalogKey, saves, told, env>>

\* write_state and persist_state_for_database_path, by atomic_write_file: the
\* rename, then the synchronisation of its directory, which is another one.
PublishState ==
    /\ proc.at = "publish"
    /\ state' = "set"
    /\ Go("stated")
    /\ UNCHANGED <<db, staged, catalogKey, undo, saves, told, env>>

SyncState ==
    /\ proc.at = "stated"
    /\ undo' = IF env.barrier THEN [undo EXCEPT !.state = state] ELSE undo
    /\ Go("cleanup")
    /\ UNCHANGED <<db, staged, state, catalogKey, saves, told, env>>

-----------------------------------------------------------------------------
(* The callers of open_database. *)

Start ==
    /\ proc.at = "down"
    /\ proc' = [Down EXCEPT !.at = "opening"]
    /\ UNCHANGED <<db, staged, state, catalogKey, undo, saves, told, env>>

Serve ==
    /\ proc.at = "opened" /\ proc.goal = "start"
    /\ proc' = Idle
    /\ UNCHANGED <<db, staged, state, catalogKey, undo, saves, told, env>>

\* Fault: activation goes on without the save that opens the database first.
RequestUnopened(goal) ==
    /\ proc.at = "idle" /\ saves < MaxSaves /\ (goal = "first" => env.keys < MaxCatalogKeys)
    /\ proc' = [at |-> IF goal = "first" THEN "opened" ELSE "opening", goal |-> goal, tx |-> 0]
    /\ UNCHANGED <<db, staged, state, catalogKey, undo, saves, told, env>>

\* persist_locked_state of any handler, and as the first step of activation.
Request(goal) ==
    /\ proc.at = "idle" /\ saves < MaxSaves /\ (goal = "first" => env.keys < MaxCatalogKeys)
    /\ proc' = [at |-> "opening", goal |-> goal, tx |-> 0]
    /\ UNCHANGED <<db, staged, state, catalogKey, undo, saves, told, env>>

Committed ==
    /\ saves' = saves + 1
    /\ db' = [db EXCEPT !.data = saves + 1]
    /\ undo' = IF undo.db = db THEN [undo EXCEPT !.db = db'] ELSE undo

CommitSave ==
    /\ proc.at = "opened" /\ proc.goal = "save"
    /\ Committed
    /\ proc' = Idle
    /\ UNCHANGED <<staged, state, catalogKey, told, env>>

\* activate_encryption after its save: nothing to do with a state file, else a
\* fresh key replaces the one in the catalogKey.
StoreKey ==
    /\ proc.at = "opened" /\ proc.goal = "first"
    /\ Committed
    /\ IF state = "set"
       THEN proc' = Idle /\ told' = TRUE
            /\ UNCHANGED <<catalogKey, env>>
       ELSE /\ db.kind = "plain"
            /\ catalogKey' = env.keys + 1 /\ env' = [env EXCEPT !.keys = @ + 1]
            /\ proc' = [at |-> "keyed", goal |-> "row", tx |-> 0]
            /\ UNCHANGED told
    /\ UNCHANGED <<staged, state>>

\* write_encryption_settings_row opens once more, then the user is told.
Activated ==
    /\ proc.at = "opened" /\ proc.goal = "row"
    /\ told' = TRUE
    /\ proc' = Idle
    /\ UNCHANGED <<db, staged, state, catalogKey, undo, saves, env>>

-----------------------------------------------------------------------------
(* Faults. *)

Faulty == env.faults < MaxFaults /\ env' = [env EXCEPT !.faults = @ + 1]

\* Any step fails: the handler returns, the daemon goes on (or does not start).
Fail ==
    /\ Faulty /\ proc.at \notin {"down", "idle"}
    /\ proc' = Leave
    /\ UNCHANGED <<db, staged, state, catalogKey, undo, saves, told>>

Kill ==
    /\ Faulty /\ proc.at # "down"
    /\ proc' = Down
    /\ UNCHANGED <<db, staged, state, catalogKey, undo, saves, told>>

PowerLoss ==
    /\ Faulty
    /\ db' \in {db, undo.db} \cup (IF undo.db # db THEN {Missing} ELSE {})
    /\ state' \in {state, undo.state}
                  \cup (IF ~env.barrier /\ undo.state # state THEN {"torn"} ELSE {})
    /\ undo' = Durable(db', state')
    /\ proc' = Down
    /\ UNCHANGED <<staged, catalogKey, saves, told>>

\* The operating system writes back what it holds.
Flush ==
    /\ undo # Durable(db, state)
    /\ undo' = Durable(db, state)
    /\ UNCHANGED <<db, staged, state, catalogKey, proc, saves, told, env>>

Continue ==
    \/ OpenAgreeing \/ OpenStateless \/ OpenPlaintext \/ OpenMissing \/ OpenFresh \/ OpenRefused
    \/ Cleanup \/ Promote \/ WriteManifest \/ Swap \/ SyncDirectory \/ PublishState \/ SyncState
    \/ Start \/ Serve \/ CommitSave \/ StoreKey \/ Activated

CatalogNext ==
    \/ Continue
    \/ \E goal \in {"save", "first"} : Request(goal)
    \/ Fail \/ Kill \/ PowerLoss \/ Flush

\* A handler that was entered runs on, and somebody starts the daemon again.
CatalogFairness == WF_catalogVars(Continue)

CatalogSpec == CatalogInit /\ [][CatalogNext]_catalogVars
CatalogFairSpec == CatalogSpec /\ CatalogFairness

-----------------------------------------------------------------------------
(* Properties. *)

CatalogTypeOK ==
    /\ db \in Database
    /\ staged \subseteq Stage
    /\ state \in States
    /\ catalogKey \in 0 .. MaxCatalogKeys
    /\ undo \in [db : Database, state : States]
    /\ proc \in [at : Steps, goal : Goals, tx : 0 .. MaxStages]
    /\ saves \in 0 .. MaxSaves
    /\ told \in BOOLEAN
    /\ env \in [barrier : BOOLEAN, gap : BOOLEAN, faults : 0 .. MaxFaults,
                keys : 0 .. MaxCatalogKeys, stages : 0 .. MaxStages]

\* The key in the catalogKey is the one of the encrypted database and of every
\* staged copy: an activation that stopped half way and is asked for again
\* never replaces a key that something on the disk still needs.
KeyKept ==
    /\ db.kind = "encrypted" => catalogKey = db.key
    /\ \A s \in staged : s.key = catalogKey

\* A connection is handed out only when state file and header agree, after
\* every crash: no save goes to a plaintext file the user was told is gone.
OpenedAsDeclared ==
    proc.at = "opened" =>
        /\ state = "set" <=> db.kind = "encrypted"
        /\ db.kind = "encrypted" => catalogKey = db.key

\* The verified copies that hold every acknowledged save.
Rescue == {s \in staged : s.copy /\ s.manifest /\ s.key = catalogKey /\ s.data = saves}

\* If synchronising a directory does what it says, and no copy was removed in
\* the gap, the served database has every acknowledged save, recovery never
\* puts an older copy in its place, and a lost name leaves a verified copy.
AckedSavesKept ==
    (env.barrier /\ ~env.gap) =>
        /\ proc.at \in {"idle", "opened"} => db.data = saves
        /\ db.kind = "missing" => Rescue # {}

\* What no start can decide: the name is gone, and there is no copy or more
\* than one (recover_plaintext_database stages again beside the copy of an
\* attempt that stopped).
Undecided == db.kind = "missing" /\ Restorable = {} /\ ~(state = "none" /\ staged = {})

\* With finitely many faults the daemon serves again, whatever was interrupted.
ServesAgain == []<>(proc.at = "idle" \/ Undecided)

\* The store serves the library that was saved last, and only in the form its
\* state file declares.
OpensWhatWasSaved == OpenedAsDeclared /\ AckedSavesKept
=============================================================================
