----------------------------- MODULE Migration -----------------------------
(***************************************************************************)
(* Opening the metadata store after an update of the program:              *)
(* bootstrap_storage runs schema.sql and then migrate_schema, statement by *)
(* statement, each one durable on its own; only the last migration, which  *)
(* gives every asset the vault that owns it, is one transaction.  The      *)
(* process may die between any two statements and starts again from the    *)
(* database it left.                                                       *)
(***************************************************************************)
EXTENDS FiniteSets, Integers

CONSTANTS Assets, Owners,        \* the assets and the vaults of the old database
          OldVersions,           \* user_version an old database may have
          MaxCrashes

ASSUME MigrationAssumption ==
    /\ IsFiniteSet(Assets) /\ IsFiniteSet(Owners)
    /\ OldVersions \subseteq 0..23
    /\ MaxCrashes \in Nat

VARIABLES
    tables,     \* the two tables that version 11 rebuilds
    copies,     \* and the "_new" tables it rebuilds them through
    version,    \* user_version
    columns,    \* versions whose ALTER TABLE ... ADD COLUMN has run
    plain,      \* whether pairing tokens are still stored in the clear
    owner,      \* assets.vault_id
    evidence,   \* the other rows that say which vault an asset belongs to
    step,       \* the statement this start runs next
    crashes,
    old         \* what the database held before the first start

migrationVars == <<tables, copies, version, columns, plain, owner, evidence, step, crashes, old>>

SCHEMA_VERSION == 24
Absent == {<<"absent">>}
NoOwner == "none"
Rebuilt == {"blob_records", "sync_transfers"}

\* The versions that only add columns; the others of migrate_schema record themselves.
ColumnVersions == {6, 10, 13, 14, 16, 22}

\* A blob row is the asset and the vault it was sealed for; every blob has chunk
\* rows, which refer to it, and a transfer refers to a blob.
Blobs == Assets \X Owners
ChunkRows == old.tables["blob_records"]

\* Live evidence about asset a: blob rows, completed uploads, untrashed entries.
Says(a) == {v \in Owners : <<a, v>> \in
                (IF tables["blob_records"] = Absent THEN {} ELSE tables["blob_records"])
                \cup evidence}

\* Fault: of two vaults that claim an asset, one is taken.
UnanimousOrFirst(says, known) ==
    IF says \cap known # {} THEN CHOOSE v \in says \cap known : TRUE ELSE NoOwner

\* The owner the rows agree on, when they agree and that vault exists.
Unanimous(says, known) ==
    IF Cardinality(says) = 1 /\ says \subseteq known THEN CHOOSE v \in says : TRUE
    ELSE NoOwner

MigrationInit ==
    \E v \in OldVersions, blobs \in SUBSET Blobs, more \in SUBSET Blobs, known \in SUBSET Owners :
    \E sent \in SUBSET blobs :
        \* mobile_uploads came with version 12, file entries with version
        \* 15, the blob tables with version 9
        /\ v < 12 => more = {}
        /\ v < 9 => blobs = {}
        /\ v < 11 => \A b \in blobs : b[2] \in known    \* its FOREIGN KEY, still in force
        /\ tables = [t \in Rebuilt |-> IF t = "blob_records" THEN blobs ELSE sent]
        /\ copies = [t \in Rebuilt |-> Absent]
        /\ version = v
        /\ columns = {c \in ColumnVersions : c <= v}
        /\ plain = (v < 21)
        /\ owner = [a \in Assets |-> NoOwner]
        /\ evidence = more
        /\ step = <<"open">> /\ crashes = 0
        /\ old = [tables |-> tables, evidence |-> more, known |-> known, version |-> v]

(***************************************************************************)
(* bootstrap_storage: a database of a newer program is refused; a table    *)
(* that is missing is created empty.                                       *)
(***************************************************************************)
Bootstrap ==
    /\ step = <<"open">>
    /\ IF version > SCHEMA_VERSION THEN step' = <<"refused">> /\ UNCHANGED tables
       ELSE /\ step' = <<"columns">>
            /\ tables' = [t \in Rebuilt |-> IF tables[t] = Absent THEN {} ELSE tables[t]]
    /\ UNCHANGED <<copies, version, columns, plain, owner, evidence, crashes, old>>

(* add_column_if_missing, for one version at a time and in their order.    *)
Lacking == {c \in ColumnVersions : version < c /\ c \notin columns}

Least(S) == CHOOSE c \in S : \A d \in S : c <= d

AddColumns ==
    /\ step = <<"columns">>
    /\ IF {c \in Lacking : c < 11} # {}
       THEN columns' = columns \cup {Least(Lacking)} /\ step' = step
       ELSE /\ UNCHANGED columns
            /\ step' = IF version < 11 THEN <<"drop_copy", "blob_records">> ELSE <<"late_columns">>
    /\ UNCHANGED <<tables, copies, version, plain, owner, evidence, crashes, old>>

AddLateColumns ==
    /\ step = <<"late_columns">>
    /\ IF Lacking # {}
       THEN columns' = columns \cup {Least(Lacking)} /\ step' = step
       ELSE UNCHANGED columns /\ step' = <<"tokens">>
    /\ UNCHANGED <<tables, copies, version, plain, owner, evidence, crashes, old>>

(***************************************************************************)
(* relax_remote_storage_foreign_keys: for each of the two tables drop a    *)
(* leftover copy, create the copy, fill it, drop the table, rename.        *)
(***************************************************************************)
Statement(t, at, then) ==
    /\ step = <<at, t>> /\ step' = then
    /\ UNCHANGED <<version, columns, plain, owner, evidence, crashes, old>>

DropLeftover(t) ==
    Statement(t, "drop_copy", <<"create", t>>) /\ UNCHANGED tables
    /\ copies' = [copies EXCEPT ![t] = Absent]

CreateCopy(t) ==
    Statement(t, "create", <<"fill", t>>) /\ UNCHANGED tables
    /\ copies' = [copies EXCEPT ![t] = {}]

FillCopy(t) ==
    Statement(t, "fill", <<"drop", t>>) /\ UNCHANGED tables
    /\ copies' = [copies EXCEPT ![t] = tables[t]]

\* Foreign keys are off: dropping the table deletes nothing that refers to it.
DropOld(t) ==
    Statement(t, "drop", <<"rename", t>>) /\ UNCHANGED copies
    /\ tables' = [tables EXCEPT ![t] = Absent]

Rename(t) ==
    /\ Statement(t, "rename", IF t = "blob_records" THEN <<"drop_copy", "sync_transfers">>
                              ELSE <<"late_columns">>)
    /\ tables' = [tables EXCEPT ![t] = copies[t]]
    /\ copies' = [copies EXCEPT ![t] = Absent]

(* Version 21: what is stored in the clear is replaced by its hash.        *)
HashTokens ==
    /\ step = <<"tokens">>
    /\ plain' = (plain /\ version >= 21)
    /\ step' = <<"owners">>
    /\ UNCHANGED <<tables, copies, version, columns, owner, evidence, crashes, old>>

(***************************************************************************)
(* migrate_asset_vault_ownership, one transaction: the owners, the check   *)
(* that no row refers to one that is gone, and user_version.  A violation  *)
(* rolls everything back and the store stays closed.                       *)
(***************************************************************************)

ReferencesHold == ChunkRows \cup tables["sync_transfers"] \subseteq tables["blob_records"]
MigrateOwners ==
    /\ step = <<"owners">>
    /\ IF version >= SCHEMA_VERSION THEN step' = <<"serving">> /\ UNCHANGED <<owner, version>>
       ELSE IF ReferencesHold
       THEN /\ owner' = [a \in Assets |-> Unanimous(Says(a), old.known)]
            /\ version' = SCHEMA_VERSION /\ step' = <<"serving">>
       ELSE step' = <<"refused">> /\ UNCHANGED <<owner, version>>
    /\ UNCHANGED <<tables, copies, columns, plain, evidence, crashes, old>>

(* The process dies; what was committed stays, and it is started again.    *)
Crash ==
    /\ crashes < MaxCrashes /\ step # <<"open">>
    /\ crashes' = crashes + 1 /\ step' = <<"open">>
    /\ UNCHANGED <<tables, copies, version, columns, plain, owner, evidence, old>>

Opening ==
    \/ Bootstrap \/ AddColumns \/ AddLateColumns
    \/ \E t \in Rebuilt : DropLeftover(t) \/ CreateCopy(t) \/ FillCopy(t) \/ DropOld(t) \/ Rename(t)
    \/ HashTokens \/ MigrateOwners

MigrationNext == Opening \/ Crash

MigrationSpec == MigrationInit /\ [][MigrationNext]_migrationVars
-----------------------------------------------------------------------------
(* A store that is served has the schema its version claims: every column, *)
(* no pairing token in the clear, and owners that all the evidence of the  *)
(* old database agreed on, wherever the process died on the way            *)
(* (migrate_schema, migrate_asset_vault_ownership).                        *)
ServedIsMigrated ==
    (step = <<"serving">>) =>
        /\ version = SCHEMA_VERSION /\ columns = ColumnVersions /\ ~plain
        /\ old.version < SCHEMA_VERSION => \A a \in Assets :
              LET said == {v \in Owners : <<a, v>> \in old.tables["blob_records"] \cup old.evidence}
              IN IF \E v \in old.known : said = {v} THEN owner[a] \in said ELSE owner[a] = NoOwner

(* Once the version says so, no blob row was lost: a start that finds      *)
(* chunks without their blob stops before it serves.                       *)
BlobRowsSurvive ==
    (step = <<"serving">>) => tables["blob_records"] = old.tables["blob_records"]

(* "additive migrations instead of dropping all known tables": whatever    *)
(* start is interrupted, the rows that were there are there when the       *)
(* opening has ended.                                                      *)
MigrationIsAdditive ==
    (step \in {<<"serving">>, <<"refused">>}) => tables = old.tables

(* What is served after an update is the library that was there before it. *)
ServedIsWhole == ServedIsMigrated /\ BlobRowsSurvive
=============================================================================
