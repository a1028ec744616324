------------------------------ MODULE MCMembers ------------------------------
(***************************************************************************)
(* Small instances of six specifications around the library, in one run:    *)
(* who belongs to its vaults, the locks of the sync network, the update of  *)
(* its database, its backups, its index and its albums.  `part` says which  *)
(* of them an execution is about, the others rest in an initial state.      *)
(***************************************************************************)
EXTENDS Membership, SyncNetwork, Migration, BackupExport, Indexing, Collections

CONSTANTS d1, d2, c1, c3, a1, v1, v2, o, p, x, y, ra, rb

VARIABLE part

Homes == [c \in Callers |-> d1]
Targets == [d \in Daemons |-> IF d = d1 THEN d2 ELSE d1]

membersVars == <<part, memberVars, netVars, migrationVars, backupVars, indexVars, shelfVars>>

\* A client may post any kind of record, and one of them again: the first claims an album
\* nobody made, the second flags nobody set.
SomePosted == {[id |-> 1, event |-> [kind |-> "create", album |-> 1, assets |-> {1}]],
               [id |-> 2, event |-> [kind |-> "flags", assets |-> {1}, set |-> Flags, clear |-> {}]]}

MigrationRests == version = 23 /\ evidence = {} /\ old.known = {} /\ old.tables["blob_records"] = {}
BackupRests == policy = "encrypted" /\ \A r \in Originals : orig[r].managed

MembersInit ==
    /\ part \in {"members", "locks", "update", "backup", "index", "shelf"}
    /\ MembershipInit
    /\ NetInit /\ (part # "locks" => started = {})
    /\ MigrationInit /\ (part # "update" => MigrationRests)
    /\ BackupInit /\ (part # "backup" => BackupRests)
    /\ orig[p].managed => orig[o].managed    \* the originals are alike
    /\ IndexInit /\ ShelfInit

\* The directories and the restores are alike: ra and x are the first that are used.
FirstRootFirst ==
    /\ root'[rb] # Nothing => root'[ra] # Nothing \/ ra \in hurt'
    /\ call'[y].at # "idle" => call'[x].at # "idle"

\* The callers are alike: what only one of them does, or both, is enough.
CallersDiffer ==
    /\ todo[c1] = <<>> => todo'[c1] \in {<<>>} \cup {Call(k) : k \in {"start", "stop", "push", "pull"}}
    /\ todo[c3] = <<>> => todo'[c3] \notin {Call("push"), Call("pull")}

\* One of two rebuilds reads text, the other reads text or finds scenes.
OneReadsText == rebuild'[1] # NoRebuild => rebuild'[1].kind = "ocr"

\* A change that changes nothing but its count leaves the execution where it was.
EffectiveChange == changes' # changes => shelf' # shelf \/ shelfRows' # shelfRows

MembersNext ==
    /\ UNCHANGED part
    /\ \/ part = "members" /\ MembershipNext
          /\ UNCHANGED <<netVars, migrationVars, backupVars, indexVars, shelfVars>>
       \/ part = "locks" /\ NetNext /\ CallersDiffer
          /\ UNCHANGED <<memberVars, migrationVars, backupVars, indexVars, shelfVars>>
       \/ part = "update" /\ MigrationNext
          /\ UNCHANGED <<memberVars, netVars, backupVars, indexVars, shelfVars>>
       \/ part = "backup" /\ BackupNext /\ FirstRootFirst
          /\ UNCHANGED <<memberVars, netVars, migrationVars, indexVars, shelfVars>>
       \/ part = "index" /\ IndexNext /\ OneReadsText
          /\ UNCHANGED <<memberVars, netVars, migrationVars, backupVars, shelfVars>>
       \/ part = "shelf" /\ ShelfNext /\ EffectiveChange
          /\ UNCHANGED <<memberVars, netVars, migrationVars, backupVars, indexVars>>

MembersSpec == MembersInit /\ [][MembersNext]_membersVars
=============================================================================
